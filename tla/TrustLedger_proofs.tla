-------------------------- MODULE TrustLedger_proofs --------------------------
(***************************************************************************)
(* Proofs about the trust ledger for any number of entries and whatever    *)
(* the reports contain: what verify() finds is what happened to the file.  *)
(***************************************************************************)
EXTENDS TrustLedger, TLAPS, SequenceTheorems

(* A hash contains the hash before it, so that the entries are no set that *)
(* could be named beforehand: the file is a sequence over some set.        *)
IsSequence(f) == \E S : f \in Seq(S)

LEMMA SequenceDomain ==
    ASSUME NEW f, IsSequence(f)
    PROVE  Len(f) \in Nat /\ DOMAIN f = 1..Len(f)
  BY DEF IsSequence

LEMMA AppendSequence ==
    ASSUME NEW f, IsSequence(f), NEW e
    PROVE  /\ IsSequence(Append(f, e))
           /\ Len(Append(f, e)) = Len(f) + 1
           /\ Append(f, e)[Len(f) + 1] = e
           /\ \A i \in 1..Len(f) : Append(f, e)[i] = f[i]
<1>1. PICK S : f \in Seq(S)
  BY DEF IsSequence
<1>2. f \in Seq(S \cup {e}) /\ e \in S \cup {e}
  BY <1>1, SeqMonotonic
<1>3. Append(f, e) \in Seq(S \cup {e})
  BY <1>2
<1>4. QED
  BY <1>2, <1>3 DEF IsSequence

LEMMA ReplaceSequence ==
    ASSUME NEW f, IsSequence(f), NEW i \in 1..Len(f), NEW e
    PROVE  /\ IsSequence([f EXCEPT ![i] = e])
           /\ Len([f EXCEPT ![i] = e]) = Len(f)
           /\ [f EXCEPT ![i] = e][i] = e
           /\ \A j \in 1..Len(f) : j # i => [f EXCEPT ![i] = e][j] = f[j]
<1>1. PICK S : f \in Seq(S)
  BY DEF IsSequence
<1>2. f \in Seq(S \cup {e}) /\ e \in S \cup {e}
  BY <1>1, SeqMonotonic
<1>3. QED
  BY <1>2, ExceptSeq DEF IsSequence

LEMMA WithoutSequence ==
    ASSUME IsSequence(file), NEW i \in 1..Len(file)
    PROVE  /\ IsSequence(Without(i))
           /\ Len(Without(i)) = Len(file) - 1
           /\ \A j \in 1..Len(file) - 1 :
                 Without(i)[j] = IF j < i THEN file[j] ELSE file[j + 1]
<1>1. PICK S : file \in Seq(S)
  BY DEF IsSequence
<1> DEFINE front == SubSeq(file, 1, i - 1)
           back == SubSeq(file, i + 1, Len(file))
<1>2. /\ front \in Seq(S) /\ Len(front) = i - 1
      /\ \A j \in 1..i - 1 : front[j] = file[j]
  BY <1>1
<1>3. /\ back \in Seq(S) /\ Len(back) = Len(file) - i
      /\ \A j \in 1..Len(file) - i : back[j] = file[i + j]
  BY <1>1
<1>4. Without(i) = front \o back
  BY DEF Without
<1> HIDE DEF front, back
<1>5. Len(file) \in Nat /\ i \in Nat
  BY <1>1
<1>6. /\ front \o back \in Seq(S)
      /\ Len(front \o back) = Len(front) + Len(back)
      /\ \A j \in 1..Len(front) + Len(back) :
            (front \o back)[j]
              = IF j <= Len(front) THEN front[j] ELSE back[j - Len(front)]
  <2>1. front \in Seq(S) /\ back \in Seq(S)
    BY <1>2, <1>3
  <2>2. QED
    BY <2>1, ConcatProperties
<1>7. Len(front) = i - 1 /\ Len(front) + Len(back) = Len(file) - 1
  BY <1>2, <1>3, <1>5
<1>8. /\ Len(front \o back) = Len(file) - 1
      /\ \A j \in 1..Len(file) - 1 :
            (front \o back)[j] = IF j <= i - 1 THEN front[j] ELSE back[j - (i - 1)]
  BY <1>6, <1>7
<1>9. ASSUME NEW j \in 1..Len(file) - 1
      PROVE  Without(i)[j] = IF j < i THEN file[j] ELSE file[j + 1]
  <2>1. CASE j < i
    BY <1>2, <1>4, <1>5, <1>8, <2>1
  <2>2. CASE ~(j < i)
    <3>1. j - (i - 1) \in 1..Len(file) - i /\ i + (j - (i - 1)) = j + 1
      BY <1>5, <2>2
    <3>2. back[j - (i - 1)] = file[j + 1]
      BY <1>3, <3>1
    <3>3. QED
      BY <1>4, <1>5, <1>8, <2>2, <3>2
  <2>3. QED
    BY <2>1, <2>2
<1>10. QED
  BY <1>4, <1>6, <1>8, <1>9 DEF IsSequence

-----------------------------------------------------------------------------

(* The state whatever happens to the file.                                 *)
Shape ==
    /\ IsSequence(file)
    /\ Len(file) <= MaxEntries
    /\ ended \in BOOLEAN
    /\ file = <<>> => ended
    /\ damaged \in 0..MaxEntries
    /\ \A i \in DOMAIN file : file[i] = Torn \/ IsEntry(file[i])
    /\ \A e \in written : IsEntry(e)

(* While it can be read, the chain tells what happened to the file.        *)
Told ==
    Readable =>
        IF damaged = 0
          THEN /\ Broken = {}
               /\ \A e \in written : \E i \in DOMAIN file : file[i] = e
          ELSE /\ damaged \in Broken
               /\ \A i \in Broken : damaged <= i

(* Whether a line is linked depends on it and the line before it.          *)
LEMMA LinkFrame ==
    ASSUME IsSequence(file), IsSequence(file'),
           NEW n \in Nat, n <= Len(file), n <= Len(file'),
           \A j \in 1..n : file'[j] = file[j]
    PROVE  \A i \in 1..n : LinkOk(i)' <=> LinkOk(i)
<1> SUFFICES ASSUME NEW i \in 1..n
             PROVE  LinkOk(i)' <=> LinkOk(i)
  OBVIOUS
<1>1. file'[i] = file[i]
  OBVIOUS
<1>2. i # 1 => file'[i - 1] = file[i - 1]
  OBVIOUS
<1>3. QED
  BY <1>1, <1>2 DEF LinkOk, EntryHash

LEMMA NextEntryTyped ==
    ASSUME IsSequence(file), NEW b \in Bodies
    PROVE  IsEntry(NextEntry(b))
  BY SequenceDomain DEF IsEntry, NextEntry

(* A line that is unreadable in the middle of its write.                   *)
LEMMA LastTorn ==
    ASSUME Shape, ~ended, file' = [file EXCEPT ![Len(file)] = Torn]
    PROVE  /\ IsSequence(file') /\ Len(file') = Len(file) /\ file' # <<>>
           /\ \A i \in DOMAIN file' : file'[i] = Torn \/ IsEntry(file'[i])
           /\ ~Readable'
<1>1. Len(file) \in 1..Len(file) /\ DOMAIN file = 1..Len(file)
  BY SequenceDomain, EmptySeq DEF Shape, IsSequence
<1>2. /\ IsSequence(file') /\ Len(file') = Len(file) /\ file'[Len(file)] = Torn
      /\ \A j \in 1..Len(file) : j # Len(file) => file'[j] = file[j]
  BY <1>1, ReplaceSequence DEF Shape
<1>3. DOMAIN file' = 1..Len(file)
  BY <1>2, SequenceDomain
<1>4. QED
  BY <1>1, <1>2, <1>3 DEF Shape, Readable

LEMMA NewLine ==
    ASSUME Shape, NEW line, file' = Append(file, line)
    PROVE  /\ IsSequence(file') /\ Len(file') = Len(file) + 1 /\ file' # <<>>
           /\ file'[Len(file) + 1] = line
           /\ \A i \in 1..Len(file) : file'[i] = file[i]
           /\ DOMAIN file' = DOMAIN file \cup {Len(file) + 1}
<1>1. Len(file) \in Nat /\ DOMAIN file = 1..Len(file)
  BY SequenceDomain DEF Shape
<1>2. /\ IsSequence(file') /\ Len(file') = Len(file) + 1
      /\ file'[Len(file) + 1] = line
      /\ \A i \in 1..Len(file) : file'[i] = file[i]
  BY AppendSequence DEF Shape
<1>3. DOMAIN file' = 1..Len(file) + 1
  BY <1>2, SequenceDomain
<1>4. QED
  BY <1>1, <1>2, <1>3

(* A whole entry at the end of a readable file is linked to the one before *)
(* it and breaks nothing else.                                             *)
LEMMA ChainExtends ==
    ASSUME Shape, Readable, NEW b \in Bodies, file' = Append(file, NextEntry(b))
    PROVE  Broken' = Broken
<1>1. /\ IsSequence(file') /\ Len(file') = Len(file) + 1
      /\ file'[Len(file) + 1] = NextEntry(b)
      /\ \A i \in 1..Len(file) : file'[i] = file[i]
      /\ DOMAIN file' = DOMAIN file \cup {Len(file) + 1}
  BY NewLine
<1>2. Len(file) \in Nat /\ DOMAIN file = 1..Len(file)
  BY SequenceDomain DEF Shape
<1>3. \A i \in 1..Len(file) : LinkOk(i)' <=> LinkOk(i)
  BY <1>1, <1>2, LinkFrame DEF Shape
<1>4. ASSUME NEW n \in Nat, n = Len(file) + 1
      PROVE  LinkOk(n)'
  <2>1. n # 1 => n - 1 = Len(file) /\ Len(file) \in 1..Len(file)
    BY <1>2, <1>4
  <2>2. file = <<>> <=> n = 1
    BY <1>2, <1>4, EmptySeq DEF Shape, IsSequence
  <2>3. HeadHash = IF n = 1 THEN Genesis ELSE file'[n - 1].hash
    BY <1>1, <2>1, <2>2 DEF HeadHash
  <2> DEFINE e == NextEntry(b)
  <2>4. e.seq = n /\ e.prev = HeadHash /\ e.hash = <<e.seq, e.prev, e.body>>
    BY <1>4 DEF NextEntry, EntryHash
  <2> HIDE DEF e
  <2>5. file'[n] = e
    BY <1>1, <1>4 DEF e
  <2>6. QED
    BY <2>3, <2>4, <2>5 DEF LinkOk, EntryHash
<1>5. ASSUME NEW i \in DOMAIN file'
      PROVE  i \in Broken' <=> i \in Broken
  <2>1. CASE i = Len(file) + 1
    <3>1. i \notin Broken
      BY <1>2, <2>1 DEF Broken
    <3>2. LinkOk(i)'
      BY <1>2, <1>4, <2>1
    <3>3. i \notin Broken'
      BY <3>2 DEF Broken
    <3>4. QED
      BY <3>1, <3>3
  <2>2. CASE i \in 1..Len(file)
    BY <1>2, <1>3, <1>5, <2>2 DEF Broken
  <2>3. QED
    BY <1>1, <1>2, <1>5, <2>1, <2>2
<1>6. Broken \subseteq DOMAIN file' /\ Broken' \subseteq DOMAIN file'
  BY <1>1 DEF Broken
<1>7. QED
  BY <1>5, <1>6

-----------------------------------------------------------------------------

(* append() keeps the shape and what the chain tells.                      *)
LEMMA AppendStep ==
    ASSUME Shape, Told, NEW b \in Bodies, AppendEntry(b) \/ AppendCutShort(b)
    PROVE  Shape' /\ Told'
<1>1. PICK line \in {Torn, NextEntry(b)} : file' = Extended(line)
  BY DEF AppendEntry, AppendCutShort
<1>2. /\ Readable /\ Len(file) < MaxEntries /\ ended' \in BOOLEAN
      /\ damaged' = damaged /\ written' \subseteq written \cup {NextEntry(b)}
  BY DEF AppendEntry, AppendCutShort
<1>3. IsEntry(NextEntry(b))
  BY NextEntryTyped DEF Shape
<1>4. \A e \in written' : IsEntry(e)
  BY <1>2, <1>3 DEF Shape
<1>5. CASE ~ended
  <2>1. file' = [file EXCEPT ![Len(file)] = Torn]
    BY <1>1, <1>5 DEF Extended
  <2>2. /\ IsSequence(file') /\ Len(file') = Len(file) /\ file' # <<>>
        /\ \A i \in DOMAIN file' : file'[i] = Torn \/ IsEntry(file'[i])
        /\ ~Readable'
    BY <1>5, <2>1, LastTorn
  <2>3. QED
    BY <1>2, <1>4, <2>2 DEF Shape, Told, IsEntry
<1>6. CASE ended
  <2>1. file' = Append(file, line)
    BY <1>1, <1>6 DEF Extended
  <2>2. /\ IsSequence(file') /\ Len(file') = Len(file) + 1 /\ file' # <<>>
        /\ file'[Len(file) + 1] = line
        /\ \A i \in 1..Len(file) : file'[i] = file[i]
        /\ DOMAIN file' = DOMAIN file \cup {Len(file) + 1}
    BY <2>1, NewLine
  <2>3. Len(file) \in Nat /\ DOMAIN file = 1..Len(file)
    BY SequenceDomain DEF Shape
  <2>4. \A i \in DOMAIN file' : file'[i] = Torn \/ IsEntry(file'[i])
    BY <1>3, <2>2, <2>3 DEF Shape
  <2>5. Len(file') <= MaxEntries
    BY <1>2, <2>2, <2>3, LedgerAssumption DEF LedgerAssumption
  <2>6. Shape'
    BY <1>2, <1>4, <2>2, <2>4, <2>5 DEF Shape, IsEntry
  <2>7. CASE line = Torn
    <3>1. ~Readable'
      BY <2>2, <2>7 DEF Readable
    <3>2. QED
      BY <2>6, <3>1 DEF Told
  <2>8. CASE line = NextEntry(b)
    <3>1. Broken' = Broken
      BY <1>2, <2>1, <2>8, ChainExtends
    <3>2. \A e \in written : (\E i \in DOMAIN file : file[i] = e) =>
                                \E i \in DOMAIN file' : file'[i] = e
      BY <2>2, <2>3
    <3>3. \E i \in DOMAIN file' : file'[i] = NextEntry(b)
      BY <2>2, <2>8
    <3>4. Told'
      BY <1>2, <3>1, <3>2, <3>3 DEF Told
    <3>5. QED
      BY <2>6, <3>4
  <2>9. QED
    BY <2>7, <2>8
<1>7. QED
  BY <1>5, <1>6 DEF Shape

(* A change that leaves the lines before i as they were and breaks the     *)
(* link of line i is told to be at i.                                      *)
LEMMA DamageTold ==
    ASSUME Shape, Told, NEW kind, NEW i \in 1..Len(file), Damage(kind, i),
           IsSequence(file'), i <= Len(file'), \A j \in 1..i - 1 : file'[j] = file[j],
           ~LinkOk(i)'
    PROVE  Told'
<1>1. Broken = {} /\ Readable /\ damaged' = i
  BY DEF Damage, Told
<1>2. Len(file) \in Nat /\ DOMAIN file = 1..Len(file)
  BY SequenceDomain DEF Shape
<1>3. Len(file') \in Nat /\ DOMAIN file' = 1..Len(file')
  BY SequenceDomain
<1>4. \A j \in 1..i - 1 : LinkOk(j)' <=> LinkOk(j)
  <2>1. i - 1 \in Nat /\ i - 1 <= Len(file) /\ i - 1 <= Len(file')
    BY <1>2, <1>3
  <2>2. QED
    BY <2>1, LinkFrame DEF Shape
<1>5. \A j \in 1..i - 1 : LinkOk(j)
  BY <1>1, <1>2 DEF Broken
<1>6. i \in Broken'
  BY <1>2, <1>3 DEF Broken
<1>7. \A j \in Broken' : i <= j
  BY <1>2, <1>3, <1>4, <1>5 DEF Broken
<1>8. i # 0
  BY <1>2
<1>9. QED
  BY <1>1, <1>6, <1>7, <1>8 DEF Told

LEMMA DamageShape ==
    ASSUME Shape, NEW kind, NEW i \in 1..Len(file), Damage(kind, i),
           IsSequence(file'), Len(file') <= Len(file),
           \A j \in DOMAIN file' : IsEntry(file'[j])
    PROVE  Shape'
<1>1. damaged' = i /\ ended' = TRUE /\ written' = written
  BY DEF Damage
<1>2. Len(file) \in Nat /\ Len(file') \in Nat
  BY SequenceDomain DEF Shape
<1>3. Len(file') <= MaxEntries /\ i \in 0..MaxEntries
  BY <1>2, LedgerAssumption DEF LedgerAssumption, Shape
<1>4. QED
  BY <1>1, <1>3 DEF Shape, IsEntry

LEMMA EditStep ==
    ASSUME Shape, Told, NEW i \in 1..Len(file), Edit(i)
    PROVE  Shape' /\ Told'
<1>1. Readable /\ Broken = {} /\ Damage("edit", i)
  BY DEF Edit, Damage, Told
<1>2. Len(file) \in Nat /\ DOMAIN file = 1..Len(file)
  BY SequenceDomain DEF Shape
<1>3. LinkOk(i) /\ IsEntry(file[i])
  BY <1>1, <1>2 DEF Broken, Readable, Shape
<1>4. PICK e \in Edits(file[i]) : file' = [file EXCEPT ![i] = e]
  BY DEF Edit
<1>5. /\ IsSequence(file') /\ Len(file') = Len(file) /\ file'[i] = e
      /\ \A j \in 1..Len(file) : j # i => file'[j] = file[j]
  BY <1>2, <1>4, ReplaceSequence DEF Shape
<1>6. IsEntry(e) /\ EntryHash(e) # e.hash
  <2> DEFINE old == file[i]
  <2>1. /\ old = [seq |-> old.seq, prev |-> old.prev, body |-> old.body,
                  hash |-> old.hash]
        /\ old.seq \in Nat /\ old.body \in Bodies
        /\ old.hash = <<old.seq, old.prev, old.body>>
    BY <1>3 DEF IsEntry, LinkOk, EntryHash
  <2>2. e \in Edits(old)
    OBVIOUS
  <2> HIDE DEF old
  <2>3. CASE \E b \in Bodies : e = [old EXCEPT !.body = b] /\ e # old
    <3>1. PICK b \in Bodies : e = [old EXCEPT !.body = b] /\ e # old
      BY <2>3
    <3>2. /\ e = [seq |-> old.seq, prev |-> old.prev, body |-> b, hash |-> old.hash]
          /\ b # old.body
      BY <2>1, <3>1
    <3>3. QED
      BY <2>1, <3>2 DEF IsEntry, EntryHash
  <2>4. CASE e = [old EXCEPT !.hash = Altered] /\ e # old
    <3>1. /\ e = [seq |-> old.seq, prev |-> old.prev, body |-> old.body, hash |-> Altered]
          /\ Altered # old.hash
      BY <2>1, <2>4
    <3>2. QED
      BY <2>1, <3>1 DEF IsEntry, EntryHash
  <2>5. CASE e = [old EXCEPT !.prev = Altered] /\ e # old
    <3>1. /\ e = [seq |-> old.seq, prev |-> Altered, body |-> old.body, hash |-> old.hash]
          /\ Altered # old.prev
      BY <2>1, <2>5
    <3>2. QED
      BY <2>1, <3>1 DEF IsEntry, EntryHash
  <2>6. CASE e = [old EXCEPT !.seq = 0] /\ e # old
    <3>1. /\ e = [seq |-> 0, prev |-> old.prev, body |-> old.body, hash |-> old.hash]
          /\ 0 # old.seq
      BY <2>1, <2>6
    <3>2. QED
      BY <2>1, <3>1 DEF IsEntry, EntryHash
  <2>7. QED
    BY <2>2, <2>3, <2>4, <2>5, <2>6 DEF Edits
<1>7. ~LinkOk(i)'
  BY <1>5, <1>6 DEF LinkOk, EntryHash
<1>8. Told'
  <2>1. \A j \in 1..i - 1 : file'[j] = file[j]
    BY <1>2, <1>5
  <2>2. i <= Len(file')
    BY <1>2, <1>5
  <2>3. QED
    BY <1>1, <1>5, <1>7, <2>1, <2>2, DamageTold
<1>9. Shape'
  <2>1. DOMAIN file' = 1..Len(file)
    BY <1>5, SequenceDomain
  <2>2. \A j \in DOMAIN file' : IsEntry(file'[j])
    BY <1>1, <1>2, <1>5, <1>6, <2>1 DEF Readable, Shape
  <2>3. Len(file') <= Len(file)
    BY <1>2, <1>5
  <2>4. QED
    BY <1>1, <1>5, <2>2, <2>3, DamageShape
<1>10. QED
  BY <1>8, <1>9

LEMMA DeleteStep ==
    ASSUME Shape, Told, NEW i \in 1..Len(file), Delete(i)
    PROVE  Shape' /\ Told'
<1>1. /\ Readable /\ Broken = {} /\ Damage("delete", i) /\ i < Len(file)
      /\ file' = Without(i)
  BY DEF Delete, Damage, Told
<1>2. Len(file) \in Nat /\ DOMAIN file = 1..Len(file)
  BY SequenceDomain DEF Shape
<1>3. /\ IsSequence(file') /\ Len(file') = Len(file) - 1
      /\ \A j \in 1..Len(file) - 1 : file'[j] = IF j < i THEN file[j] ELSE file[j + 1]
  BY <1>1, WithoutSequence DEF Shape
<1>4. i + 1 \in 1..Len(file) /\ i \in 1..Len(file) - 1
  BY <1>1, <1>2
<1>5. file[i + 1].seq = i + 1
  BY <1>1, <1>2, <1>4 DEF Broken, LinkOk
<1>6. ~LinkOk(i)'
  <2>1. file'[i] = file[i + 1]
    BY <1>3, <1>4
  <2>2. QED
    BY <1>4, <1>5, <2>1 DEF LinkOk
<1>7. Told'
  <2>1. \A j \in 1..i - 1 : file'[j] = file[j]
    BY <1>2, <1>3, <1>4
  <2>2. i <= Len(file')
    BY <1>2, <1>3, <1>4
  <2>3. QED
    BY <1>1, <1>3, <1>6, <2>1, <2>2, DamageTold
<1>8. Shape'
  <2>1. DOMAIN file' = 1..Len(file) - 1
    BY <1>3, SequenceDomain
  <2>2. \A j \in 1..Len(file) : IsEntry(file[j])
    BY <1>1, <1>2 DEF Readable, Shape
  <2>3. ASSUME NEW j \in DOMAIN file'
        PROVE  IsEntry(file'[j])
    <3>1. CASE j < i
      BY <1>2, <1>3, <2>1, <2>2, <3>1
    <3>2. CASE ~(j < i)
      <4>1. j + 1 \in 1..Len(file) /\ file'[j] = file[j + 1]
        BY <1>2, <1>3, <2>1, <3>2
      <4>2. QED
        BY <2>2, <4>1
    <3>3. QED
      BY <3>1, <3>2
  <2>4. Len(file') <= Len(file)
    BY <1>2, <1>3
  <2>5. QED
    BY <1>1, <1>3, <2>3, <2>4, DamageShape
<1>9. QED
  BY <1>7, <1>8

LEMMA ReorderStep ==
    ASSUME Shape, Told, NEW i \in 1..Len(file), NEW j \in 1..Len(file), Reorder(i, j)
    PROVE  Shape' /\ Told'
<1>1. /\ Readable /\ Broken = {} /\ Damage("reorder", i) /\ i < j
      /\ file' = [file EXCEPT ![i] = file[j], ![j] = file[i]]
  BY DEF Reorder, Damage, Told
<1>2. Len(file) \in Nat /\ DOMAIN file = 1..Len(file)
  BY SequenceDomain DEF Shape
<1>3. /\ IsSequence(file') /\ Len(file') = Len(file)
      /\ file'[i] = file[j] /\ file'[j] = file[i]
      /\ \A k \in 1..Len(file) : k # i /\ k # j => file'[k] = file[k]
  <2> DEFINE first == [file EXCEPT ![i] = file[j]]
  <2>1. /\ IsSequence(first) /\ Len(first) = Len(file) /\ first[i] = file[j]
        /\ \A k \in 1..Len(file) : k # i => first[k] = file[k]
    BY ReplaceSequence DEF Shape
  <2>2. file' = [first EXCEPT ![j] = file[i]]
    BY <1>1
  <2> HIDE DEF first
  <2>3. j \in 1..Len(first)
    BY <2>1
  <2> DEFINE second == [first EXCEPT ![j] = file[i]]
  <2>4. /\ IsSequence(second) /\ Len(second) = Len(first) /\ second[j] = file[i]
        /\ \A k \in 1..Len(first) : k # j => second[k] = first[k]
    BY <2>1, <2>3, ReplaceSequence
  <2>5. i # j
    BY <1>1, <1>2
  <2>6. file' = second
    BY <2>2
  <2> HIDE DEF second
  <2>7. QED
    BY <2>1, <2>4, <2>5, <2>6
<1>4. file[j].seq = j
  BY <1>1, <1>2 DEF Broken, LinkOk
<1>5. ~LinkOk(i)'
  BY <1>1, <1>2, <1>3, <1>4 DEF LinkOk
<1>6. Told'
  <2>1. \A k \in 1..i - 1 : file'[k] = file[k]
    BY <1>1, <1>2, <1>3
  <2>2. i <= Len(file')
    BY <1>2, <1>3
  <2>3. QED
    BY <1>1, <1>3, <1>5, <2>1, <2>2, DamageTold
<1>7. Shape'
  <2>1. DOMAIN file' = 1..Len(file)
    BY <1>3, SequenceDomain
  <2>2. \A k \in 1..Len(file) : IsEntry(file[k])
    BY <1>1, <1>2 DEF Readable, Shape
  <2>3. \A k \in DOMAIN file' : IsEntry(file'[k])
    BY <1>3, <2>1, <2>2
  <2>4. Len(file') <= Len(file)
    BY <1>2, <1>3
  <2>5. QED
    BY <1>1, <1>3, <2>3, <2>4, DamageShape
<1>8. QED
  BY <1>6, <1>7

-----------------------------------------------------------------------------

LEMMA LedgerStep ==
    ASSUME Shape, Told, [Next]_vars
    PROVE  Shape' /\ Told'
<1>1. DOMAIN file = 1..Len(file)
  BY SequenceDomain DEF Shape
<1>2. CASE \E b \in Bodies : AppendEntry(b) \/ AppendCutShort(b)
  BY <1>2, AppendStep
<1>3. CASE Tamper
  BY <1>1, <1>3, EditStep, DeleteStep, ReorderStep DEF Tamper
<1>4. CASE UNCHANGED vars
  BY <1>4 DEF vars, Shape, Told, Readable, Broken, LinkOk, IsEntry, EntryHash
<1>5. QED
  BY <1>2, <1>3, <1>4 DEF Next

LEMMA LedgerInit == Init => Shape /\ Told
<1> SUFFICES ASSUME Init
             PROVE  Shape /\ Told
  OBVIOUS
<1>1. file \in Seq({}) /\ Len(file) = 0 /\ DOMAIN file = {}
  BY DEF Init
<1>2. QED
  BY <1>1, LedgerAssumption
     DEF LedgerAssumption, Init, Shape, Told, IsSequence, Readable, Broken

LEMMA LedgerInv == Spec => [](Shape /\ Told)
<1>1. Shape /\ Told /\ [Next]_vars => Shape' /\ Told'
  BY LedgerStep
<1>2. QED
  BY <1>1, LedgerInit, PTL DEF Spec

(* The types, whatever is appended, cut short or edited.                   *)
THEOREM TypeCorrect == Spec => []TypeOK
<1>1. Shape => TypeOK
  BY DEF Shape, TypeOK
<1>2. QED
  BY <1>1, LedgerInv, PTL

(* A ledger that nobody edited verifies whenever it can be read, for every *)
(* sequence of appends, finished or cut short.                             *)
THEOREM NoFalseAlarm == Spec => []UndamagedVerifies
<1>1. Told => UndamagedVerifies
  BY DEF Told, UndamagedVerifies, Verified
<1>2. QED
  BY <1>1, LedgerInv, PTL

(* One edit, deletion or exchange of entries is found at its line, however *)
(* long the ledger is and whatever is appended later.                      *)
THEOREM DamageIsLocated == Spec => []DamageLocated
<1>1. ASSUME Shape, Told
      PROVE  DamageLocated
  <2> SUFFICES ASSUME damaged # 0, Readable
               PROVE  FirstBad = damaged
    BY DEF DamageLocated
  <2>1. damaged \in Broken /\ \A i \in Broken : damaged <= i
    BY <1>1 DEF Told
  <2>2. Broken \subseteq Nat
    BY <1>1, SequenceDomain DEF Shape, Broken
  <2>3. \A i \in Broken : (\A j \in Broken : i <= j) => i = damaged
    BY <2>1, <2>2
  <2>4. QED
    BY <2>1, <2>3 DEF FirstBad
<1>2. QED
  BY <1>1, LedgerInv, PTL

(* A ledger that verifies has lost nothing that was written to it.         *)
THEOREM NothingLost == Spec => []VerifiedIsComplete
<1>1. Told => VerifiedIsComplete
  BY DEF Told, VerifiedIsComplete, Verified
<1>2. QED
  BY <1>1, LedgerInv, PTL

-----------------------------------------------------------------------------

(* What the callers of the ledger rely on.  An entry is in the file for    *)
(* good when its line was ended, or when another one follows it.           *)
Entered(e) ==
    /\ e.seq \in 1..Len(file)
    /\ file[e.seq] = e
    /\ ended \/ e.seq < Len(file)

(* The lines of a file nobody edited were written by append().             *)
Logged == damaged = 0 => \A i \in DOMAIN file : file[i] = Torn \/ file[i] \in written

(* A write adds a line, or tears the one whose newline is missing.         *)
LEMMA WriteCases ==
    ASSUME Shape, NEW b \in Bodies, AppendEntry(b) \/ AppendCutShort(b)
    PROVE  \E line \in {Torn, NextEntry(b)} :
              \/ /\ ended
                 /\ Len(file') = Len(file) + 1 /\ file'[Len(file) + 1] = line
                 /\ \A i \in 1..Len(file) : file'[i] = file[i]
              \/ /\ ~ended
                 /\ Len(file') = Len(file) /\ file'[Len(file)] = Torn
                 /\ \A i \in 1..Len(file) : i # Len(file) => file'[i] = file[i]
                 /\ ~Readable'
<1>1. PICK line \in {Torn, NextEntry(b)} : file' = Extended(line)
  BY DEF AppendEntry, AppendCutShort
<1>2. CASE ended
  BY <1>1, <1>2, NewLine DEF Extended
<1>3. CASE ~ended
  <2>1. file' = [file EXCEPT ![Len(file)] = Torn]
    BY <1>1, <1>3 DEF Extended
  <2>2. Len(file) \in 1..Len(file)
    BY <1>3, SequenceDomain, EmptySeq DEF Shape, IsSequence
  <2>3. QED
    BY <1>3, <2>1, <2>2, LastTorn, ReplaceSequence DEF Shape
<1>4. QED
  BY <1>2, <1>3

(* As long as nobody edits the file it only grows, and keeps its entries.  *)
LEMMA LedgerGrows ==
    ASSUME Shape, [Next]_vars, damaged' = 0
    PROVE  /\ damaged = 0 /\ Len(file) <= Len(file')
           /\ \A e : Entered(e) => Entered(e)'
<1>1. Len(file) \in Nat /\ DOMAIN file = 1..Len(file)
  BY SequenceDomain DEF Shape
<1>2. CASE \E b \in Bodies : AppendEntry(b) \/ AppendCutShort(b)
  <2>1. PICK b \in Bodies : AppendEntry(b) \/ AppendCutShort(b)
    BY <1>2
  <2>2. damaged' = damaged /\ (AppendEntry(b) => ended')
    BY <2>1 DEF AppendEntry, AppendCutShort
  <2>3. Len(file') \in {Len(file), Len(file) + 1}
    BY <2>1, WriteCases
  <2>4. ASSUME NEW e, Entered(e)
        PROVE  Entered(e)'
    <3>1. e.seq \in 1..Len(file) /\ file[e.seq] = e
      BY <2>4 DEF Entered
    <3>2. CASE ended
      BY <1>1, <2>1, <3>1, <3>2, WriteCases DEF Entered
    <3>3. CASE ~ended
      <4>1. e.seq < Len(file) /\ e.seq \in Nat
        BY <1>1, <2>4, <3>1, <3>3 DEF Entered
      <4>2. Len(file') = Len(file) /\ file'[e.seq] = file[e.seq]
        BY <2>1, <3>1, <3>3, <4>1, WriteCases
      <4>3. QED
        BY <1>1, <3>1, <4>1, <4>2 DEF Entered
    <3>4. QED
      BY <3>2, <3>3
  <2>5. QED
    BY <1>1, <2>2, <2>3, <2>4
<1>3. ~Tamper
  BY <1>1 DEF Tamper, Edit, Delete, Reorder, Damage
<1>4. CASE UNCHANGED vars
  BY <1>1, <1>4 DEF vars, Entered
<1>5. QED
  BY <1>2, <1>3, <1>4 DEF Next

(* An appended entry is in the file for good, or nothing can be read.      *)
LEMMA AppendEnters ==
    ASSUME Shape, NEW b \in Bodies, AppendEntry(b)
    PROVE  \E e : e = NextEntry(b) /\ e \in written' /\ (Entered(e)' \/ ~Readable')
<1>1. PICK e : e = NextEntry(b)
  OBVIOUS
<1>2. e.seq = Len(file) + 1 /\ e \in written' /\ ended' = TRUE
  BY <1>1 DEF AppendEntry, NextEntry
<1>3. Len(file) \in Nat
  BY SequenceDomain DEF Shape
<1>4. CASE ended
  <2>1. file' = Append(file, e)
    BY <1>1, <1>4 DEF AppendEntry, Extended
  <2>2. Len(file') = Len(file) + 1 /\ file'[Len(file) + 1] = e
    BY <2>1, NewLine
  <2>3. QED
    BY <1>1, <1>2, <1>3, <2>2 DEF Entered
<1>5. CASE ~ended
  BY <1>1, <1>2, <1>5, WriteCases
<1>6. QED
  BY <1>4, <1>5

(* Nothing happens to a file that cannot be read, and what was written     *)
(* stays written.                                                          *)
LEMMA WrittenStays ==
    ASSUME [Next]_vars
    PROVE  written \subseteq written' /\ (Readable \/ UNCHANGED vars)
BY DEF Next, vars, AppendEntry, AppendCutShort, Tamper, Edit, Delete, Reorder, Damage

LEMMA LoggedStep ==
    ASSUME Shape, Logged, [Next]_vars
    PROVE  Logged'
<1> SUFFICES ASSUME damaged' = 0, NEW i \in DOMAIN file'
             PROVE  file'[i] = Torn \/ file'[i] \in written'
  BY DEF Logged
<1>1. damaged = 0 /\ written \subseteq written'
  BY LedgerGrows, WrittenStays
<1>2. Len(file) \in Nat /\ DOMAIN file = 1..Len(file)
  BY SequenceDomain DEF Shape
<1>3. CASE \E b \in Bodies : AppendEntry(b) \/ AppendCutShort(b)
  <2>1. PICK b \in Bodies : AppendEntry(b) \/ AppendCutShort(b)
    BY <1>3
  <2>2. PICK line \in {Torn, NextEntry(b)} : file' = Extended(line)
                                         /\ (line = Torn \/ line \in written')
    BY <2>1 DEF AppendEntry, AppendCutShort
  <2>3. CASE ended
    <3>1. file' = Append(file, line)
      BY <2>2, <2>3 DEF Extended
    <3>2. QED
      BY <1>1, <1>2, <2>2, <3>1, NewLine DEF Logged
  <2>4. CASE ~ended
    <3>1. file' = [file EXCEPT ![Len(file)] = Torn]
      BY <2>2, <2>4 DEF Extended
    <3>2. QED
      BY <1>1, <1>2, <3>1 DEF Logged
  <2>5. QED
    BY <2>3, <2>4
<1>4. CASE Tamper
  BY <1>2, <1>4 DEF Tamper, Edit, Delete, Reorder, Damage
<1>5. CASE UNCHANGED vars
  BY <1>1, <1>5 DEF vars, Logged
<1>6. QED
  BY <1>3, <1>4, <1>5 DEF Next

LEMMA LoggedInv == Spec => [](Shape /\ Told /\ Logged)
<1>1. Init => Logged
  BY DEF Init, Logged
<1>2. Shape /\ Logged /\ [Next]_vars => Logged'
  BY LoggedStep
<1>3. QED
  BY <1>1, <1>2, LedgerInv, PTL DEF Spec
=============================================================================
