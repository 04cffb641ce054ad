-------------------------- MODULE KnowledgeProofs ---------------------------
(***************************************************************************)
(* Proofs about KnowledgeStore, for every chunk size, overlap, directory   *)
(* and text: the documents of a file cover the part of it that was cut,    *)
(* however the directories change meanwhile; after a pass the store holds  *)
(* what was last read of every file, and what else it holds is left over;  *)
(* and a retrieval returns the best of it.                                 *)
(***************************************************************************)
EXTENDS KnowledgeStore, SequenceTheorems, SelectionProofs, TLAPS

IsText(t) == t \in Seq(Range(t)) /\ Len(t) \in Nat /\ DOMAIN t = 1..Len(t)

\* What is cut is a text that was on the disk of the loader, and the windows
\* begin at multiples of the step: the latter is what a gap between windows
\* is measured with when the overlap is negative.
Cutting ==
  /\ overlap \in Overlaps
  /\ disk \in [ Slots -> Texts \cup { Absent } ]
  /\ loader \in 1..Loaders
  /\ pc \in { "file", "chunk" } => files \subseteq DOMAIN FilesOf[loader]
  /\ IsText(text)
  /\ start \in Nat
  /\ \E m \in Nat : start = m * Step
  /\ \E S : docs \in Seq(S)

\* Every window cut so far that is not blank has its document.
Documents ==
  pc = "chunk" =>
    \A n \in Nat :
      n * Step < start /\ ~IsBlankText(Window(text, n * Step)) =>
        \E i \in DOMAIN docs : docs[i].id[1] = file /\ docs[i].from = n * Step

CutInv == Cutting /\ Documents /\ WindowsCoverText

\* The next window begins after this one does.
LEMMA StepIsPositive ==
  \A o \in Overlaps : ChunkSize \in Int /\ o \in Int /\ ChunkSize - o \in Nat \ {0}
                      /\ (o >= 0 => ChunkSize - o <= ChunkSize)
  BY ChunkAssumption

LEMMA TextsAreTexts == \A t \in Texts : IsText(t) /\ t # Absent
<1>1. TAKE t \in Texts
<1>2. t \in Seq(Range(t)) /\ t # Absent
  BY TextsAssumption
<1>3. Len(t) \in Nat /\ DOMAIN t = 1..Len(t)
  BY <1>2
<1>4. QED
  BY <1>2, <1>3 DEF IsText

\* A sequence over any set with one element more.
LEMMA Appended ==
  ASSUME NEW s, NEW e, \E S : s \in Seq(S)
  PROVE  /\ \E S : Append(s, e) \in Seq(S)
         /\ Len(s) \in Nat /\ DOMAIN s = 1..Len(s)
         /\ DOMAIN Append(s, e) = 1..(Len(s) + 1)
         /\ Append(s, e)[Len(s) + 1] = e
         /\ \A i \in 1..Len(s) : Append(s, e)[i] = s[i]
<1>1. PICK S : s \in Seq(S)
  OBVIOUS
<1> DEFINE larger == S \cup {e}
<1>2. s \in Seq(larger)
  BY <1>1
<1>3. e \in larger
  OBVIOUS
<1> HIDE DEF larger
<1>4. QED
  BY <1>2, <1>3

\* The windows that begin at or before a multiple of the step are the ones
\* with a number up to its.
LEMMA Multiples ==
  ASSUME NEW s \in Nat \ {0}, NEW m \in Nat, NEW n \in Nat
  PROVE  /\ (m + 1) * s = m * s + s
         /\ n <= m => n * s <= m * s
         /\ n * s < (m + 1) * s => n <= m
<1>1. (m + 1) * s = m * s + s
  BY SMT
<1>2. n <= m => n * s <= m * s
  BY SMT
<1>3. n >= m + 1 => n * s >= (m + 1) * s
  BY SMT
<1>4. n * s \in Nat /\ (m + 1) * s \in Nat
  BY SMT
<1>5. QED
  BY <1>1, <1>2, <1>3, <1>4

LEMMA CutInit == Init => CutInv
<1> SUFFICES ASSUME Init PROVE CutInv
  OBVIOUS
<1>1. /\ overlap \in Overlaps /\ disk \in Disks /\ loader = 1 /\ files = {}
      /\ text = << >> /\ start = 0 /\ docs = << >> /\ pc = "idle"
  BY Zenon DEF Init
<1>2. disk \in [ Slots -> Texts \cup { Absent } ]
  BY <1>1, DisksAssumption
<1>3. loader \in 1..Loaders
  BY <1>1, LoadersAssumption
<1>4. << >> \in Seq(Range(<< >>)) /\ Len(<< >>) = 0 /\ DOMAIN << >> = 1..0
  OBVIOUS
<1>5. IsText(text)
  BY <1>1, <1>4 DEF IsText
<1>6. start = 0 * Step
  BY <1>1, StepIsPositive DEF Step
<1>7. docs \in Seq({})
  BY <1>1
<1>8. QED
  BY <1>1, <1>2, <1>3, <1>5, <1>6, <1>7, SMT DEF CutInv, Cutting, Documents, WindowsCoverText

\* The end of a slice is a place of the text or before it.
LEMMA EndIsInText ==
  ASSUME ChunkSize \in Int, NEW from \in Nat, NEW length \in Nat
  PROVE  /\ WindowEnd(from, length) \in Int
         /\ WindowEnd(from, length) <= length
         /\ from >= length => WindowEnd(from, length) <= from
  BY DEF WindowEnd, Least

\* A window with a character in it that is not blank is no blank window.
LEMMA WindowNotBlank ==
  ASSUME ChunkSize \in Int, IsText(text), NEW from \in Nat, NEW p \in Nat,
         InWindow(p, from), text[p] # Space
  PROVE  ~IsBlankText(Window(text, from))
<1> DEFINE last == WindowEnd(from, Len(text))
<1>1. Len(text) \in Nat /\ DOMAIN text = 1..Len(text) /\ text \in Seq(Range(text))
  BY DEF IsText
<1>2. last \in Int /\ from < p /\ p <= last /\ last <= Len(text)
  BY <1>1, EndIsInText DEF InWindow
<1> HIDE DEF last
<1>3. \A k \in (from + 1)..last : text[k] \in Range(text)
  <2>1. TAKE k \in (from + 1)..last
  <2>2. k \in DOMAIN text
    BY <1>1, <1>2
  <2>3. QED
    BY <2>2 DEF Range
<1>4. /\ Len(SubSeq(text, from + 1, last)) = last - from
      /\ SubSeq(text, from + 1, last) \in Seq(Range(text))
      /\ SubSeq(text, from + 1, last)[p - from] = text[p]
  <2>1. (from + 1) \in Int /\ last \in Int
    BY <1>2
  <2>2. /\ SubSeq(text, from + 1, last) \in Seq(Range(text))
        /\ Len(SubSeq(text, from + 1, last))
             = IF from + 1 <= last THEN last - (from + 1) + 1 ELSE 0
        /\ \A i \in 1..(last - (from + 1) + 1) :
             SubSeq(text, from + 1, last)[i] = text[(from + 1) + i - 1]
    BY <1>3, <2>1, SubSeqProperties
  <2>3. /\ (p - from) \in 1..(last - (from + 1) + 1)
        /\ (from + 1) + (p - from) - 1 = p
        /\ from + 1 <= last /\ last - (from + 1) + 1 = last - from
    BY <1>2
  <2>4. QED
    BY <2>2, <2>3
<1>5. (p - from) \in DOMAIN SubSeq(text, from + 1, last)
  <2>1. DOMAIN SubSeq(text, from + 1, last) = 1..(last - from)
    BY <1>4
  <2>2. QED
    BY <1>2, <2>1
<1>6. QED
  BY <1>4, <1>5 DEF IsBlankText, Window, last

\* One round of _chunk_file.
LEMMA CutCovers ==
  ASSUME CutInv, CutWindow
  PROVE  CutInv'
<1>1. /\ pc = "chunk" /\ start < Len(text) /\ start' = start + Step
      /\ overlap' = overlap /\ disk' = disk /\ loader' = loader /\ files' = files
      /\ file' = file /\ text' = text /\ pc' = pc
  BY DEF CutWindow, setup
<1>2. docs' = IF IsBlankText(Window(text, start)) THEN docs
              ELSE Append(docs, Document(file, start))
  BY DEF CutWindow
<1>3. /\ overlap \in Overlaps /\ IsText(text) /\ start \in Nat
      /\ \E S : docs \in Seq(S)
  BY DEF CutInv, Cutting
<1>4. /\ ChunkSize \in Int /\ overlap \in Int /\ Step \in Nat \ {0} /\ Step' = Step
      /\ (overlap >= 0 => Step <= ChunkSize)
  BY <1>1, <1>3, StepIsPositive DEF Step
<1>5. PICK m \in Nat : start = m * Step
  BY DEF CutInv, Cutting
<1>6. start' = (m + 1) * Step
  BY <1>1, <1>4, <1>5, Multiples
<1> DEFINE new == Document(file, start)
           longer == Append(docs, new)
<1>7. /\ \E S : longer \in Seq(S)
      /\ Len(docs) \in Nat /\ DOMAIN docs = 1..Len(docs)
      /\ DOMAIN longer = 1..(Len(docs) + 1)
      /\ longer[Len(docs) + 1] = new
      /\ \A i \in 1..Len(docs) : longer[i] = docs[i]
  BY <1>3, Appended
<1>8. new.id[1] = file /\ new.from = start
  BY DEF Document
<1> HIDE DEF new, longer
<1>9. docs' = docs \/ docs' = longer
  BY <1>2 DEF longer, new
<1>10. Cutting'
  <2>1. \E S : docs' \in Seq(S)
    BY <1>3, <1>7, <1>9
  <2>2. start' \in Nat /\ (m + 1) \in Nat
    BY <1>1, <1>3, <1>4
  <2>3. IsText(text)'
    BY <1>1, <1>3 DEF IsText
  <2>4. (overlap \in Overlaps /\ disk \in [ Slots -> Texts \cup { Absent } ]
          /\ loader \in 1..Loaders
          /\ (pc \in { "file", "chunk" } => files \subseteq DOMAIN FilesOf[loader]))'
    BY <1>1 DEF CutInv, Cutting
  <2>5. \E k \in Nat : start' = k * Step'
    BY <1>4, <1>6, <2>2
  <2>6. QED
    BY <2>1, <2>2, <2>3, <2>4, <2>5 DEF Cutting
<1>11. Documents'
  <2> SUFFICES ASSUME NEW n \in Nat, n * Step < start',
                      ~IsBlankText(Window(text, n * Step))
               PROVE  \E i \in DOMAIN docs' : docs'[i].id[1] = file /\ docs'[i].from = n * Step
    BY <1>1, <1>4 DEF Documents, Window, WindowEnd
  <2>1. n <= m
    BY <1>4, <1>6, Multiples
  <2>2. CASE n = m
    <3>1. docs' = longer
      BY <1>2, <1>5, <2>2 DEF longer, new
    <3>2. QED
      BY <1>5, <1>7, <1>8, <2>2, <3>1
  <2>3. CASE n # m
    <3>1. n + 1 \in Nat /\ n + 1 <= m
      BY <2>1, <2>3
    <3>2. n * Step < (n + 1) * Step /\ (n + 1) * Step <= m * Step
          /\ n * Step \in Nat /\ (n + 1) * Step \in Nat /\ m * Step \in Nat
      <4>1. (n + 1) * Step = n * Step + Step /\ (n + 1) * Step <= m * Step
        BY <1>4, <3>1, Multiples
      <4>2. n * Step \in Nat /\ m * Step \in Nat
        BY <1>4
      <4>3. QED
        BY <1>4, <4>1, <4>2
    <3>3. n * Step < start
      BY <1>5, <3>2
    <3>4. PICK i \in DOMAIN docs : docs[i].id[1] = file /\ docs[i].from = n * Step
      BY <1>1, <3>3 DEF CutInv, Documents
    <3>5. i \in DOMAIN docs' /\ docs'[i] = docs[i]
      BY <1>7, <1>9, <3>4
    <3>6. QED
      BY <3>4, <3>5
  <2>4. QED
    BY <2>2, <2>3
<1>12. WindowsCoverText'
  <2> SUFFICES ASSUME NEW p \in 1..Least(start', Len(text)),
                      text[p] # Space, overlap >= 0 \/ Windowed(p)
               PROVE  \E i \in DOMAIN docs' :
                        docs'[i].id[1] = file /\ InWindow(p, docs'[i].from)
    BY <1>1, <1>4 DEF WindowsCoverText, Windowed, InWindow, WindowEnd
  <2>1. p \in Nat /\ 1 <= p /\ p <= start + Step /\ p <= Len(text) /\ Len(text) \in Nat
    BY <1>1, <1>3, <1>4 DEF Least, IsText
  <2>2. CASE p <= start
    <3>1. p \in 1..Least(start, Len(text))
      BY <1>3, <2>1, <2>2 DEF Least
    <3>2. PICK i \in DOMAIN docs : docs[i].id[1] = file /\ InWindow(p, docs[i].from)
      BY <1>1, <3>1 DEF CutInv, WindowsCoverText
    <3>3. i \in DOMAIN docs' /\ docs'[i] = docs[i]
      BY <1>7, <1>9, <3>2
    <3>4. QED
      BY <3>2, <3>3
  <2>3. CASE p > start /\ overlap >= 0
    <3>1. InWindow(p, start)
      BY <1>3, <1>4, <2>1, <2>3 DEF InWindow, WindowEnd, Least
    <3>2. ~IsBlankText(Window(text, start))
      BY <1>3, <1>4, <2>1, <3>1, WindowNotBlank
    <3>3. docs' = longer
      BY <1>2, <3>2 DEF longer, new
    <3>4. QED
      BY <1>7, <1>8, <3>1, <3>3
  <2>4. CASE Windowed(p)
    <3>1. PICK n \in 0..p : InWindow(p, n * Step)
      BY <2>4 DEF Windowed
    <3>2. n \in Nat /\ n * Step \in Nat /\ n * Step < p
      BY <1>4, <2>1, <3>1 DEF InWindow
    <3>3. ~IsBlankText(Window(text, n * Step))
      BY <1>3, <1>4, <2>1, <3>1, <3>2, WindowNotBlank
    <3>4. n * Step < start' /\ start' \in Nat
      BY <1>1, <1>3, <1>4, <2>1, <3>2
    <3>5. PICK i \in DOMAIN docs' : docs'[i].id[1] = file /\ docs'[i].from = n * Step
      <4>1. Window(text, n * Step)' = Window(text, n * Step) /\ Step' = Step
        BY <1>1, <1>4 DEF Window, WindowEnd
      <4>2. QED
        BY <1>1, <1>4, <1>11, <3>2, <3>3, <3>4, <4>1 DEF Documents
    <3>6. QED
      BY <3>1, <3>5
  <2>5. QED
    BY <1>3, <2>1, <2>2, <2>3, <2>4
<1>13. QED
  BY <1>10, <1>11, <1>12 DEF CutInv

\* A step that neither cuts nor begins to cut, of which the loader and its
\* list of files stay in step.
LEMMA OtherSteps ==
  ASSUME CutInv, UNCHANGED << overlap, text, start >>,
         disk' \in [ Slots -> Texts \cup { Absent } ],
         loader' \in 1..Loaders,
         pc' \in { "file", "chunk" } => files' \subseteq DOMAIN FilesOf[loader'],
         (pc' # "chunk" /\ (\E S : docs' \in Seq(S)))
           \/ UNCHANGED << pc, docs, file >>
  PROVE  CutInv'
<1>1. Step' = Step
  BY DEF Step
<1>2. Cutting'
  BY <1>1 DEF CutInv, Cutting, IsText
<1>3. WindowsCoverText'
  BY <1>1 DEF CutInv, WindowsCoverText, Windowed, InWindow, WindowEnd
<1>4. Documents'
  BY <1>1 DEF CutInv, Documents, Window, WindowEnd
<1>5. QED
  BY <1>2, <1>3, <1>4 DEF CutInv

LEMMA CutNext == CutInv /\ [Next]_vars => CutInv'
<1> SUFFICES ASSUME CutInv, [Next]_vars PROVE CutInv'
  OBVIOUS
<1>1. /\ disk \in [ Slots -> Texts \cup { Absent } ]
      /\ loader \in 1..Loaders
      /\ pc \in { "file", "chunk" } => files \subseteq DOMAIN FilesOf[loader]
      /\ 1 \in 1..Loaders /\ Loaders \in Nat
      /\ \E S : docs \in Seq(S)
  BY LoadersAssumption DEF CutInv, Cutting
<1>2. \E S : << >> \in Seq(S)
  <2>1. << >> \in Seq({})
    OBVIOUS
  <2>2. QED
    BY <2>1
<1>3. CASE Edit
  <2>1. PICK slot \in Slots, t \in Texts \cup { Absent } :
          disk' = [ disk EXCEPT ![slot] = t ]
    BY <1>3 DEF Edit
  <2>2. disk' \in [ Slots -> Texts \cup { Absent } ]
    BY <1>1, <2>1
  <2>3. UNCHANGED << overlap, text, start, loader, files, pc, docs, file >>
    BY <1>3 DEF Edit, setup, fileCut
  <2>4. QED
    BY <1>1, <2>2, <2>3, OtherSteps
<1>4. CASE Begin
  <2>1. /\ pc' = "load" /\ loader' = 1
        /\ UNCHANGED << overlap, disk, files, text, start, docs, file >>
    BY <1>4 DEF Begin, setup, fileCut
  <2>2. QED
    BY <1>1, <2>1, OtherSteps
<1>5. CASE ListFiles
  <2>1. /\ UNCHANGED << overlap, disk, loader, text, start, file >>
        /\ docs' = << >> /\ pc' # "chunk"
    BY <1>5 DEF ListFiles, Fail, setup, fileCut
  <2>2. pc' = "file" => files' \subseteq DOMAIN FilesOf[loader]
    BY <1>5 DEF ListFiles, Fail
  <2>3. QED
    BY <1>1, <1>2, <2>1, <2>2, OtherSteps
<1>6. CASE ReadFile
  <2>1. PICK n \in files :
          LET slot == << loader, FilesOf[loader][n] >> IN
          \/ Fail
          \/ /\ disk[slot] # Absent
             /\ file' = slot[2] /\ text' = disk[slot] /\ start' = 0 /\ pc' = "chunk"
             /\ files' = files \ {n} /\ read' = Append(read, << slot, disk[slot] >>)
             /\ UNCHANGED << loader, docs >>
    BY <1>6, Zenon DEF ReadFile
  <2> DEFINE slot == << loader, FilesOf[loader][n] >>
  <2>2. pc = "file" /\ UNCHANGED << overlap, disk >>
    BY <1>6 DEF ReadFile, setup
  <2>3. CASE Fail
    <3>2. /\ UNCHANGED << loader, text, start, file >>
          /\ docs' = << >> /\ pc' # "chunk" /\ files' = {}
      BY <2>3 DEF Fail, fileCut
    <3>3. QED
      BY <1>1, <1>2, <2>2, <3>2, OtherSteps
  <2>4. CASE ~Fail
    <3>1. /\ text' = disk[slot] /\ start' = 0 /\ files' = files \ {n}
          /\ disk[slot] # Absent /\ UNCHANGED << loader, docs >>
      BY <2>1, <2>4
    <3>2. slot \in Slots
      BY <1>1, <2>1, <2>2 DEF Slots
    <3>3. disk[slot] \in Texts
      BY <1>1, <3>1, <3>2
    <3>4. IsText(text)'
      BY <3>1, <3>3, TextsAreTexts DEF IsText
    <3>5. Step' = Step /\ start' \in Nat /\ start' = 0 * Step'
      BY <2>2, <3>1, StepIsPositive DEF Step, CutInv, Cutting
    <3>6. Cutting'
      BY <1>1, <2>2, <3>1, <3>4, <3>5 DEF CutInv, Cutting
    <3>7. Least(start', Len(text')) = 0
      BY <3>1, <3>4 DEF IsText, Least
    <3>8. WindowsCoverText'
      BY <3>7 DEF WindowsCoverText
    <3>9. Documents'
      <4>1. Step' \in Nat
        BY <2>2, StepIsPositive DEF Step, CutInv, Cutting
      <4>2. PICK s \in Nat : s = Step'
        BY <4>1
      <4>3. \A k \in Nat : k * s \in Nat /\ ~(k * s < 0)
        OBVIOUS
      <4>4. \A k \in Nat : ~(k * Step' < start')
        BY <3>1, <4>2, <4>3
      <4>5. QED
        BY <4>4 DEF Documents
    <3>10. QED
      BY <3>6, <3>8, <3>9 DEF CutInv
  <2>5. QED
    BY <2>3, <2>4
<1>7. CASE CutWindow
  BY <1>7, CutCovers
<1>8. CASE FileDone
  <2>1. /\ pc = "chunk" /\ pc' = "file"
        /\ UNCHANGED << overlap, disk, loader, files, text, start, docs, file >>
    BY <1>8 DEF FileDone, setup, fileCut
  <2>2. QED
    BY <1>1, <2>1, OtherSteps
<1>9. CASE Upsert
  <2>1. /\ files = {} /\ files' = {} /\ docs' = << >> /\ pc' # "chunk"
        /\ UNCHANGED << overlap, disk, text, start, file >>
        /\ (loader' = loader \/ loader' = Least(loader + 1, Loaders))
    BY <1>9 DEF Upsert, Fail, NextLoader, setup, fileCut
  <2>2. loader' \in 1..Loaders
    BY <1>1, <2>1 DEF Least
  <2>3. QED
    BY <1>1, <1>2, <2>1, <2>2, OtherSteps
<1>10. CASE Retrieve
  <2>1. /\ pc' \in { "answered", "failed" }
        /\ UNCHANGED << overlap, disk, loader, files, text, start, docs, file >>
    BY <1>10 DEF Retrieve, setup, fileCut
  <2>2. QED
    BY <1>1, <2>1, OtherSteps
<1>11. CASE Finish
  <2>1. /\ pc' = "idle" /\ loader' = 1
        /\ UNCHANGED << overlap, disk, files, text, start, docs, file >>
    BY <1>11 DEF Finish, setup, fileCut
  <2>2. QED
    BY <1>1, <2>1, OtherSteps
<1>12. CASE UNCHANGED vars
  <2>1. UNCHANGED << overlap, disk, loader, files, text, start, docs, file, pc >>
    BY <1>12 DEF vars
  <2>2. QED
    BY <1>1, <2>1, OtherSteps
<1>13. QED
  BY <1>3, <1>4, <1>5, <1>6, <1>7, <1>8, <1>9, <1>10, <1>11, <1>12 DEF Next, Work

\* No character that lies in a window is lost to the index, whatever chunk size
\* and overlap the constructor accepts and whatever the text.
THEOREM CutsCoverTexts == Spec => []WindowsCoverText
<1>1. CutInv => WindowsCoverText
  BY DEF CutInv
<1>2. QED
  BY <1>1, CutInit, CutNext, PTL DEF Spec

---------------------------------------------------------------------------
(***************************************************************************)
(* Retrieval.                                                              *)
(***************************************************************************)

\* The places that sort before place i when scores are sorted in descending
\* order and equal ones stay in place.
Before(score, i) ==
  { j \in DOMAIN score : score[j] > score[i] \/ (score[j] = score[i] /\ j < i) }

\* Every number of places that sort before is that of exactly one place.
LEMMA SortedPlaces ==
  ASSUME NEW N \in Nat, NEW score \in [ 1..N -> Int ]
  PROVE  /\ \A i \in 1..N : Cardinality(Before(score, i)) \in 0..(N - 1)
         /\ \A i, j \in 1..N :
              /\ Cardinality(Before(score, i)) = Cardinality(Before(score, j)) => i = j
              /\ Cardinality(Before(score, i)) < Cardinality(Before(score, j))
                   => score[i] >= score[j]
         /\ \A n \in 1..N : \E i \in 1..N : Cardinality(Before(score, i)) = n - 1
<1> DEFINE place == [ i \in 1..N |-> Cardinality(Before(score, i)) ]
<1>1. /\ IsFiniteSet(1..N) /\ Cardinality(1..N) = N
      /\ IsFiniteSet(0..(N - 1)) /\ Cardinality(0..(N - 1)) = N
  <2>1. IsFiniteSet(1..N) /\ Cardinality(1..N) = IF 1 > N THEN 0 ELSE N - 1 + 1
    BY FS_Interval
  <2>2. /\ IsFiniteSet(0..(N - 1))
        /\ Cardinality(0..(N - 1)) = IF 0 > N - 1 THEN 0 ELSE (N - 1) - 0 + 1
    BY FS_Interval
  <2>3. QED
    BY <2>1, <2>2
<1>2. ASSUME NEW i \in 1..N
      PROVE  /\ IsFiniteSet(Before(score, i)) /\ Before(score, i) \subseteq 1..N
             /\ i \notin Before(score, i)
             /\ Cardinality(Before(score, i)) \in 0..(N - 1)
  <2>1. Before(score, i) \subseteq (1..N) \ {i}
    BY DEF Before
  <2>2. IsFiniteSet((1..N) \ {i}) /\ Cardinality((1..N) \ {i}) = N - 1
    BY <1>1, FS_RemoveElement
  <2>3. /\ IsFiniteSet(Before(score, i))
        /\ Cardinality(Before(score, i)) <= Cardinality((1..N) \ {i})
    BY <2>1, <2>2, FS_Subset
  <2>4. Cardinality(Before(score, i)) \in Nat
    BY <2>3, FS_CardinalityType
  <2>5. QED
    BY <2>1, <2>2, <2>3, <2>4
<1>3. ASSUME NEW i \in 1..N, NEW j \in 1..N, j \in Before(score, i)
      PROVE  Cardinality(Before(score, j)) < Cardinality(Before(score, i))
  <2>1. Before(score, j) \cup {j} \subseteq Before(score, i)
    BY <1>3 DEF Before
  <2>2. Cardinality(Before(score, j) \cup {j}) = Cardinality(Before(score, j)) + 1
    BY <1>2, FS_AddElement
  <2>3. Cardinality(Before(score, j) \cup {j}) <= Cardinality(Before(score, i))
    BY <1>2, <2>1, FS_Subset
  <2>4. /\ Cardinality(Before(score, j)) \in 0..(N - 1)
        /\ Cardinality(Before(score, i)) \in 0..(N - 1)
    BY <1>2
  <2>5. QED
    BY <2>2, <2>3, <2>4
<1>4. ASSUME NEW i \in 1..N, NEW j \in 1..N
      PROVE  /\ i # j => i \in Before(score, j) \/ j \in Before(score, i)
             /\ i \in Before(score, j) => score[i] >= score[j]
  BY DEF Before
<1>5. ASSUME NEW i \in 1..N, NEW j \in 1..N
      PROVE  /\ Cardinality(Before(score, i)) = Cardinality(Before(score, j)) => i = j
             /\ Cardinality(Before(score, i)) < Cardinality(Before(score, j))
                  => score[i] >= score[j]
  <2>1. /\ Cardinality(Before(score, i)) \in 0..(N - 1)
        /\ Cardinality(Before(score, j)) \in 0..(N - 1)
    BY <1>2
  <2>2. /\ i \in Before(score, j) => Cardinality(Before(score, i)) < Cardinality(Before(score, j))
        /\ j \in Before(score, i) => Cardinality(Before(score, j)) < Cardinality(Before(score, i))
    BY <1>3
  <2>3. i # j => i \in Before(score, j) \/ j \in Before(score, i)
    BY <1>4
  <2>4. i \in Before(score, j) => score[i] >= score[j]
    BY <1>4
  <2>5. QED
    BY <2>1, <2>2, <2>3, <2>4
<1>6. place \in Injection(1..N, 0..(N - 1))
  <2>1. place \in [ 1..N -> 0..(N - 1) ]
    BY <1>2
  <2>2. \A i, j \in 1..N : place[i] = place[j] => i = j
    BY <1>5
  <2> HIDE DEF place
  <2>3. DOMAIN place = 1..N
    BY <2>1
  <2>4. QED
    BY <2>1, <2>2, <2>3 DEF Injection, IsInjective
<1>7. place \in Surjection(1..N, 0..(N - 1))
  <2> HIDE DEF place
  <2>1. QED
    BY <1>1, <1>6, FS_Injection
<1>8. ASSUME NEW n \in 1..N PROVE \E i \in 1..N : Cardinality(Before(score, i)) = n - 1
  <2>1. n - 1 \in 0..(N - 1)
    OBVIOUS
  <2>2. \E i \in 1..N : place[i] = n - 1
    <3> HIDE DEF place
    <3>1. QED
      BY <1>7, <2>1 DEF Surjection
  <2>3. QED
    BY <2>2
<1>9. QED
  BY <1>2, <1>5, <1>8

IsList(t) == \E S : t \in Seq(S)

LEMMA ScoresAreNumbers ==
  ASSUME NEW t, IsList(t), NEW query
  PROVE  Score(t, query) \in Nat
<1>1. Len(t) \in Nat /\ DOMAIN t = 1..Len(t)
  BY DEF IsList
<1>2. IsFiniteSet(1..Len(t))
  BY <1>1, FS_Interval
<1>3. IsFiniteSet({ i \in DOMAIN t : t[i] = query })
  BY <1>1, <1>2, FS_Subset
<1>4. QED
  BY <1>3, FS_CardinalityType DEF Score

\* The entries of a store that can be ranked: the ids tell them apart, and
\* every text is a list of characters.
Scorable ==
  /\ IsList(store)
  /\ \A i \in DOMAIN store : IsList(store[i].text)
  /\ \A i, j \in DOMAIN store : store[i].id = store[j].id => i = j

\* The rank lists every place once, the better ones first.
LEMMA RankSorts ==
  ASSUME Scorable, NEW query
  PROVE  LET N == Len(store)
             score(i) == Score(store[i].text, query)
             place(i) == Cardinality(Better(i, query))
         IN  /\ N \in Nat /\ DOMAIN store = 1..N
             /\ \A i \in 1..N : place(i) \in 0..(N - 1) /\ score(i) \in Nat
             /\ \A i, j \in 1..N : /\ place(i) = place(j) => i = j
                                   /\ place(i) < place(j) => score(i) >= score(j)
             /\ \A n \in 1..N : /\ Rank(query)[n] \in 1..N
                                /\ place(Rank(query)[n]) = n - 1
<1> DEFINE N == Len(store)
           score == [ i \in 1..N |-> Score(store[i].text, query) ]
<1>1. N \in Nat /\ DOMAIN store = 1..N
  BY DEF Scorable, IsList
<1>2. \A i \in 1..N : Score(store[i].text, query) \in Nat
  BY <1>1, ScoresAreNumbers DEF Scorable
<1>3. score \in [ 1..N -> Int ]
  BY <1>2
<1>4. ASSUME NEW i \in 1..N PROVE Better(i, query) = Before(score, i)
  BY <1>1, <1>2, <1>4 DEF Better, Before
<1>5. \A i \in 1..N : score[i] = Score(store[i].text, query)
  OBVIOUS
<1> HIDE DEF score, N
<1>6. /\ \A i \in 1..N : Cardinality(Better(i, query)) \in 0..(N - 1)
      /\ \A i, j \in 1..N :
           /\ Cardinality(Better(i, query)) = Cardinality(Better(j, query)) => i = j
           /\ Cardinality(Better(i, query)) < Cardinality(Better(j, query))
                => score[i] >= score[j]
      /\ \A n \in 1..N : \E i \in 1..N : Cardinality(Better(i, query)) = n - 1
  <2>1. PICK n0, s0 : n0 = N /\ s0 = score
    OBVIOUS
  <2>2. /\ \A i \in 1..n0 : Cardinality(Before(s0, i)) \in 0..(n0 - 1)
        /\ \A i, j \in 1..n0 :
             /\ Cardinality(Before(s0, i)) = Cardinality(Before(s0, j)) => i = j
             /\ Cardinality(Before(s0, i)) < Cardinality(Before(s0, j))
                  => s0[i] >= s0[j]
        /\ \A n \in 1..n0 : \E i \in 1..n0 : Cardinality(Before(s0, i)) = n - 1
    <3>1. n0 \in Nat /\ s0 \in [ 1..n0 -> Int ]
      BY <1>1, <1>3, <2>1
    <3>2. QED
      BY <3>1, SortedPlaces
  <2>3. /\ \A i \in 1..N : Cardinality(Before(score, i)) \in 0..(N - 1)
        /\ \A i, j \in 1..N :
             /\ Cardinality(Before(score, i)) = Cardinality(Before(score, j)) => i = j
             /\ Cardinality(Before(score, i)) < Cardinality(Before(score, j))
                  => score[i] >= score[j]
        /\ \A n \in 1..N : \E i \in 1..N : Cardinality(Before(score, i)) = n - 1
    BY <2>1, <2>2
  <2>4. \A i \in 1..N : Cardinality(Better(i, query)) = Cardinality(Before(score, i))
    BY <1>4
  <2>5. QED
    BY <2>4, <2>3
<1>7. ASSUME NEW n \in 1..N
      PROVE  Rank(query)[n] \in 1..N /\ Cardinality(Better(Rank(query)[n], query)) = n - 1
  <2>1. Rank(query)[n] = CHOOSE i \in DOMAIN store : Cardinality(Better(i, query)) = n - 1
    BY <1>1 DEF Rank
  <2>2. \E i \in DOMAIN store : Cardinality(Better(i, query)) = n - 1
    BY <1>1, <1>6
  <2>3. QED
    BY <1>1, <2>1, <2>2
<1>8. QED
  BY <1>1, <1>2, <1>5, <1>6, <1>7 DEF N

\* How many chunks a retrieval returns; a negative k counts from the end.
LEMMA SliceLength ==
  ASSUME Len(store) \in Nat, NEW k \in Int
  PROVE  /\ Slice(k) \in 0..Len(store)
         /\ k >= 0 => Slice(k) = Least(k, Len(store))
<1>1. CASE k >= 0
  BY <1>1 DEF Slice, Least
<1>2. CASE k < 0
  <2> DEFINE rest == Len(store) + k
  <2>1. rest \in Int /\ rest < Len(store) /\ Slice(k) = Max({ 0, rest })
    BY <1>2 DEF Slice
  <2>2. Max({ 0, rest }) = IF rest > 0 THEN rest ELSE 0
    <3> DEFINE top == IF rest > 0 THEN rest ELSE 0
    <3>1. top \in { 0, rest } /\ \A y \in { 0, rest } : top >= y
      BY <2>1
    <3>2. \A x \in { 0, rest } : (\A y \in { 0, rest } : x >= y) => x = top
      BY <2>1, <3>1
    <3> HIDE DEF top, rest
    <3>3. Max({ 0, rest }) = top
      BY <3>1, <3>2, Zenon DEF Max
    <3>4. QED
      BY <3>3 DEF top
  <2>3. QED
    BY <1>2, <2>1, <2>2
<1>3. QED
  BY <1>1, <1>2

\* The best entries of the store for a query, best first.
BestOf(got, query, k) ==
  /\ k >= 0 => Len(got) = Least(k, Len(store))
  /\ \A n \in DOMAIN got : \E i \in DOMAIN store : got[n] = store[i]
  /\ \A m, n \in DOMAIN got :
       m < n => Score(got[m].text, query) >= Score(got[n].text, query)
  /\ \A m, n \in DOMAIN got : got[m].id = got[n].id => m = n
  /\ \A i \in DOMAIN store :
       \/ \E n \in DOMAIN got : got[n] = store[i]
       \/ \A n \in DOMAIN got : Score(got[n].text, query) >= Score(store[i].text, query)

\* A retrieval from the memory store returns them.
LEMMA RetrievedIsBest ==
  ASSUME Scorable, NEW query, query # Space, NEW k \in Int,
         NEW got, got = Retrieved(query, k)
  PROVE  BestOf(got, query, k)
<1> DEFINE N == Len(store)
           place(i) == Cardinality(Better(i, query))
           rank == Rank(query)
<1>1. /\ N \in Nat /\ DOMAIN store = 1..N
      /\ \A i \in 1..N : place(i) \in 0..(N - 1) /\ Score(store[i].text, query) \in Nat
      /\ \A i, j \in 1..N :
           /\ place(i) = place(j) => i = j
           /\ place(i) < place(j) => Score(store[i].text, query) >= Score(store[j].text, query)
      /\ \A n \in 1..N : rank[n] \in 1..N /\ place(rank[n]) = n - 1
  BY RankSorts
<1>2. /\ Slice(k) \in 0..N
      /\ k >= 0 => Slice(k) = Least(k, N)
  BY <1>1, SliceLength
<1>3. got = [ n \in 1..Slice(k) |-> store[rank[n]] ]
  BY DEF Retrieved
<1> HIDE DEF place, rank, N
<1>4. DOMAIN got = 1..Slice(k) /\ Len(got) = Slice(k)
  BY <1>2, <1>3
<1>5. ASSUME NEW n \in DOMAIN got
      PROVE  /\ n \in 1..N /\ n \in 1..Slice(k) /\ got[n] = store[rank[n]]
             /\ rank[n] \in 1..N /\ place(rank[n]) = n - 1
  <2>1. n \in 1..Slice(k) /\ n \in 1..N
    BY <1>1, <1>2, <1>4
  <2>2. QED
    BY <1>1, <1>3, <2>1
<1>6. ASSUME NEW m \in DOMAIN got, NEW n \in DOMAIN got, m < n
      PROVE  Score(got[m].text, query) >= Score(got[n].text, query)
  <2>1. place(rank[m]) < place(rank[n])
    BY <1>1, <1>5, <1>6
  <2>2. QED
    BY <1>1, <1>5, <2>1
<1>7. ASSUME NEW m \in DOMAIN got, NEW n \in DOMAIN got, got[m].id = got[n].id
      PROVE  m = n
  <2>1. \A i, j \in 1..N : store[i].id = store[j].id => i = j
    BY <1>1 DEF Scorable
  <2>2. store[rank[m]].id = store[rank[n]].id /\ rank[m] \in 1..N /\ rank[n] \in 1..N
    BY <1>5, <1>7
  <2>3. rank[m] = rank[n]
    BY <2>1, <2>2
  <2>4. m - 1 = n - 1
    BY <1>5, <2>3
  <2>5. QED
    BY <1>1, <1>5, <2>4
<1>8. ASSUME NEW i \in DOMAIN store
      PROVE  \/ \E n \in DOMAIN got : got[n] = store[i]
             \/ \A n \in DOMAIN got :
                  Score(got[n].text, query) >= Score(store[i].text, query)
  <2>1. i \in 1..N /\ place(i) \in 0..(N - 1)
    BY <1>1
  <2>2. CASE place(i) + 1 <= Slice(k)
    <3>1. place(i) + 1 \in DOMAIN got
      BY <1>1, <1>2, <1>4, <2>1, <2>2
    <3>2. place(rank[place(i) + 1]) = place(i) /\ rank[place(i) + 1] \in 1..N
      BY <1>1, <1>5, <2>1, <3>1
    <3>3. rank[place(i) + 1] = i
      BY <1>1, <2>1, <3>2
    <3>4. QED
      BY <1>5, <3>1, <3>3
  <2>3. CASE place(i) + 1 > Slice(k)
    <3>1. SUFFICES ASSUME NEW n \in DOMAIN got
                   PROVE  Score(got[n].text, query) >= Score(store[i].text, query)
      OBVIOUS
    <3>2. place(rank[n]) < place(i)
      <4>1. place(rank[n]) = n - 1 /\ n \in 1..Slice(k)
        BY <1>5
      <4>2. QED
        BY <1>1, <1>2, <2>1, <2>3, <4>1
    <3>3. QED
      BY <1>1, <1>5, <2>1, <3>2
  <2>4. QED
    BY <1>1, <1>2, <2>1, <2>2, <2>3
<1>9. \A n \in DOMAIN got : \E i \in DOMAIN store : got[n] = store[i]
  BY <1>1, <1>5
<1>10. QED
  BY <1>1, <1>2, <1>4, <1>6, <1>7, <1>8, <1>9 DEF N, BestOf

\* What the approximate search comes upon is of the store, each entry once.
LEMMA SearchedAreEntries ==
  ASSUME Scorable, NEW k \in Int, NEW got \in Searched(k)
  PROVE  /\ \A n \in DOMAIN got : \E i \in DOMAIN store : got[n] = store[i]
         /\ \A m, n \in DOMAIN got : got[m].id = got[n].id => m = n
         /\ k >= 0 /\ Len(got) <= k
<1>1. Len(store) \in Nat /\ DOMAIN store = 1..Len(store)
  BY DEF Scorable, IsList
<1>2. PICK m \in IF k < 1 THEN {} ELSE 0..Least(k, Len(store)) :
        got \in { [ n \in 1..m |-> store[place[n]] ] :
                    place \in { f \in [ 1..m -> DOMAIN store ] : IsInjective(f) } }
  BY DEF Searched
<1>3. PICK place \in [ 1..m -> DOMAIN store ] :
        IsInjective(place) /\ got = [ n \in 1..m |-> store[place[n]] ]
  BY <1>2
<1>4. k >= 1 /\ m \in Nat /\ m <= k
  BY <1>1, <1>2 DEF Least
<1>5. DOMAIN got = 1..m /\ Len(got) = m
  BY <1>3, <1>4
<1>6. \A n \in 1..m : got[n] = store[place[n]] /\ place[n] \in DOMAIN store
  BY <1>3
<1>7. \A i, j \in 1..m : place[i] = place[j] => i = j
  BY <1>3 DEF IsInjective
<1>8. QED
  BY <1>4, <1>5, <1>6, <1>7 DEF Scorable

---------------------------------------------------------------------------
(***************************************************************************)
(* The chunks of a text, and the entries after an upsert.                  *)
(***************************************************************************)

LEMMA WindowsAreLists ==
  ASSUME NEW t, IsList(t), NEW from \in Nat
  PROVE  IsList(Window(t, from))
<1>1. PICK S : t \in Seq(S)
  BY DEF IsList
<1> DEFINE last == WindowEnd(from, Len(t))
<1>2. last \in Int /\ last <= Len(t) /\ Len(t) \in Nat /\ DOMAIN t = 1..Len(t)
  BY <1>1, ChunkAssumption, EndIsInText
<1> HIDE DEF last
<1>3. \A i \in (from + 1)..last : t[i] \in S
  BY <1>1, <1>2
<1>4. SubSeq(t, from + 1, last) \in Seq(S)
  BY <1>2, <1>3, SubSeqProperties
<1>5. QED
  BY <1>4 DEF IsList, Window, last

\* strip() leaves nothing of a blank text and of no other.
LEMMA StripLeavesText ==
  ASSUME NEW t, IsList(t)
  PROVE  IsList(Strip(t)) /\ (Strip(t) # << >> <=> ~ IsBlankText(t))
<1>1. PICK S : t \in Seq(S)
  BY DEF IsList
<1>2. Len(t) \in Nat /\ DOMAIN t = 1..Len(t)
  BY <1>1
<1> DEFINE kept == { i \in DOMAIN t : t[i] # Space }
<1>3. IsBlankText(t) <=> kept = {}
  BY DEF IsBlankText
<1>4. CASE kept = {}
  <2>1. Strip(t) = << >>
    BY <1>4 DEF Strip
  <2>2. << >> \in Seq(S)
    OBVIOUS
  <2>3. QED
    BY <1>3, <1>4, <2>1, <2>2 DEF IsList
<1>5. CASE kept # {}
  <2>1. kept \subseteq 1..Len(t) /\ kept \subseteq Nat
    BY <1>2
  <2> DEFINE first == Min(kept)
             last == Max(kept)
  <2>2. Strip(t) = SubSeq(t, first, last)
    BY <1>5 DEF Strip
  <2> HIDE DEF kept
  <2>3. first \in kept /\ last \in kept /\ first <= last
    <3>1. first \in kept /\ \A y \in kept : first <= y
      BY <1>5, <2>1, LeastIndex
    <3>2. last \in kept
      BY <1>2, <1>5, <2>1, GreatestIndex
    <3>3. QED
      BY <3>1, <3>2
  <2> HIDE DEF first, last
  <2>4. first \in 1..Len(t) /\ last \in 1..Len(t) /\ first <= last
    BY <2>1, <2>3
  <2>5. \A i \in first..last : t[i] \in S
    BY <1>1, <1>2, <2>4
  <2>6. /\ SubSeq(t, first, last) \in Seq(S)
        /\ Len(SubSeq(t, first, last)) = IF first <= last THEN last - first + 1 ELSE 0
    BY <2>4, <2>5, SubSeqProperties
  <2>7. Len(SubSeq(t, first, last)) # 0
    BY <1>2, <2>4, <2>6
  <2>8. Strip(t) # << >>
    <3>1. SUFFICES ASSUME Strip(t) = << >> PROVE FALSE
      OBVIOUS
    <3>2. Len(<< >>) = 0
      OBVIOUS
    <3>3. Len(SubSeq(t, first, last)) = Len(<< >>)
      BY <2>2, <3>1, Zenon
    <3>4. QED
      BY <2>7, <3>2, <3>3
  <2>9. QED
    BY <1>3, <1>5, <2>2, <2>6, <2>8 DEF IsList
<1>6. QED
  BY <1>4, <1>5

\* The chunks of a text are the pieces that are kept, each at its number.
LEMMA ChunksAreKept ==
  ASSUME NEW t, IsList(t)
  PROVE  /\ Kept(t) \subseteq 1..Len(t) /\ Len(t) \in Nat
         /\ Wanted(Kept(t), Len(t)) = Kept(t)
         /\ Len(ChunksOf(t)) = Cardinality(Kept(t))
         /\ DOMAIN ChunksOf(t) = 1..Cardinality(Kept(t))
         /\ Cardinality(Kept(t)) \in Nat
         /\ \A k \in DOMAIN ChunksOf(t) : \E n \in Kept(t) :
              Cardinality(Wanted(Kept(t), n)) = k /\ ChunksOf(t)[k] = Piece(t, n)
<1>1. Len(t) \in Nat /\ DOMAIN t = 1..Len(t)
  BY DEF IsList
<1>2. Kept(t) \subseteq 1..Len(t)
  BY <1>1 DEF Kept
<1>3. Wanted(Kept(t), Len(t)) = Kept(t)
  BY <1>2 DEF Wanted
<1> DEFINE pieces == [ n \in 1..Len(t) |-> Piece(t, n) ]
           S == { Piece(t, n) : n \in 1..Len(t) }
<1>4. pieces \in Seq(S) /\ Len(pieces) = Len(t) /\ \A n \in 1..Len(t) : pieces[n] = Piece(t, n)
  BY <1>1
<1>5. ChunksOf(t) = Selected(pieces, Kept(t))
  BY <1>1 DEF ChunksOf
<1> HIDE DEF pieces, S
<1>6. PICK c, K : c = ChunksOf(t) /\ K = Kept(t)
  OBVIOUS
<1>7. /\ c \in Seq(S) /\ Len(c) = Cardinality(Wanted(K, Len(pieces)))
      /\ \A i \in Wanted(K, Len(pieces)) : c[Cardinality(Wanted(K, i))] = pieces[i]
      /\ \A k \in 1..Len(c) :
           \E i \in Wanted(K, Len(pieces)) : Cardinality(Wanted(K, i)) = k
  BY <1>4, <1>5, <1>6, Selection
<1>8. Wanted(K, Len(pieces)) = K /\ K \subseteq 1..Len(t)
  BY <1>2, <1>3, <1>4, <1>6
<1>9. DOMAIN c = 1..Len(c) /\ Len(c) \in Nat /\ Len(c) = Cardinality(K)
  BY <1>7, <1>8
<1>10. \A k \in DOMAIN c : \E n \in K : Cardinality(Wanted(K, n)) = k /\ c[k] = Piece(t, n)
  <2>1. TAKE k \in DOMAIN c
  <2>2. PICK n \in K : Cardinality(Wanted(K, n)) = k
    BY <1>7, <1>8, <1>9, <2>1
  <2>3. c[k] = pieces[n] /\ pieces[n] = Piece(t, n)
    BY <1>4, <1>7, <1>8, <2>2
  <2>4. QED
    BY <2>2, <2>3
<1>11. QED
  BY <1>1, <1>2, <1>3, <1>6, <1>9, <1>10

\* Two lists after each other.
LEMMA Joined ==
  ASSUME NEW X, NEW f \in Seq(X), NEW g \in Seq(X), NEW p, p = f \o g
  PROVE  /\ p \in Seq(X) /\ Len(p) = Len(f) + Len(g)
         /\ \A i \in 1..Len(f) : p[i] = f[i]
         /\ \A k \in 1..Len(g) : p[Len(f) + k] = g[k]
  OBVIOUS

\* An upsert keeps the entries it does not name, replaces or appends one entry
\* for each document, and adds nothing else.
LEMMA PutReplaces ==
  ASSUME NEW s, NEW ds, IsList(s), IsList(ds),
         \A i, j \in DOMAIN s : s[i].id = s[j].id => i = j,
         \A m, n \in DOMAIN ds : ds[m].id = ds[n].id => m = n,
         NEW p, p = Put(s, ds)
  PROVE  /\ IsList(p)
         /\ \A n \in DOMAIN ds : \E i \in DOMAIN p : p[i] = Entry(ds[n])
         /\ \A j \in DOMAIN s : (\A n \in DOMAIN ds : ds[n].id # s[j].id)
                                  => \E i \in DOMAIN p : p[i] = s[j]
         /\ \A i \in DOMAIN p :
              \/ \E n \in DOMAIN ds : p[i] = Entry(ds[n])
              \/ \E j \in DOMAIN s : p[i] = s[j] /\ \A n \in DOMAIN ds : ds[n].id # s[j].id
         /\ \A i, j \in DOMAIN p : p[i].id = p[j].id => i = j
<1> DEFINE with(id) == { n \in DOMAIN ds : ds[n].id = id }
           unknown == { n \in DOMAIN ds : \A i \in DOMAIN s : s[i].id # ds[n].id }
           new == Selected(ds, unknown)
           first == [ i \in DOMAIN s |->
                        IF with(s[i].id) = {} THEN s[i]
                        ELSE Entry(ds[CHOOSE n \in with(s[i].id) : TRUE]) ]
           rest == [ n \in DOMAIN new |-> Entry(new[n]) ]
           a == Len(s)
<1>1. p = first \o rest
  BY DEF Put
<1>2. /\ a \in Nat /\ DOMAIN s = 1..a /\ Len(ds) \in Nat /\ DOMAIN ds = 1..Len(ds)
  BY DEF IsList
<1>3. PICK S : ds \in Seq(S)
  BY DEF IsList
<1>4. \A i \in 1..a :
        \/ first[i] = s[i] /\ \A n \in DOMAIN ds : ds[n].id # s[i].id
        \/ \E n \in DOMAIN ds : ds[n].id = s[i].id /\ first[i] = Entry(ds[n])
  BY <1>2
<1>5. unknown \subseteq 1..Len(ds) /\ Wanted(unknown, Len(ds)) = unknown
  BY <1>2 DEF Wanted
<1>6. \A n \in 1..Len(ds) : n \in unknown \/ \E i \in 1..a : s[i].id = ds[n].id
  BY <1>2
<1>7. \A n \in unknown, i \in 1..a : s[i].id # ds[n].id
  BY <1>2
<1> HIDE DEF unknown
<1>8. /\ new \in Seq(S)
      /\ \A n \in unknown : \E k \in 1..Len(new) : new[k] = ds[n]
      /\ \A k \in 1..Len(new) : \E n \in unknown :
           Cardinality(Wanted(unknown, n)) = k /\ new[k] = ds[n]
  <2>1. /\ new \in Seq(S)
        /\ \A n \in Wanted(unknown, Len(ds)) :
             /\ Cardinality(Wanted(unknown, n)) \in 1 .. Len(new)
             /\ new[Cardinality(Wanted(unknown, n))] = ds[n]
        /\ \A k \in 1 .. Len(new) :
             \E n \in Wanted(unknown, Len(ds)) : Cardinality(Wanted(unknown, n)) = k
    BY <1>3, Selection
  <2> HIDE DEF new
  <2>2. QED
    BY <1>5, <2>1
<1> HIDE DEF new
<1> DEFINE b == Len(new)
<1>9. b \in Nat /\ DOMAIN new = 1..b
  BY <1>8
<1>10. \A k \in 1..b : rest[k] = Entry(new[k])
  BY <1>9
<1>11. /\ Len(p) = a + b /\ IsList(p) /\ DOMAIN p = 1..(a + b)
       /\ \A i \in 1..a : p[i] = first[i]
       /\ \A k \in 1..b : p[a + k] = rest[k]
  <2> DEFINE X == { first[i] : i \in 1..a } \cup { rest[k] : k \in 1..b }
  <2>1. first \in Seq(X) /\ rest \in Seq(X) /\ Len(first) = a /\ Len(rest) = b
    BY <1>2, <1>9
  <2> HIDE DEF first, rest, X
  <2>2. /\ p \in Seq(X) /\ Len(p) = a + b
        /\ \A i \in 1..a : p[i] = first[i]
        /\ \A k \in 1..b : p[a + k] = rest[k]
    <3>1. PICK f, g : f = first /\ g = rest
      OBVIOUS
    <3>2. f \in Seq(X) /\ g \in Seq(X) /\ p = f \o g
      BY <1>1, <2>1, <3>1
    <3>3. /\ p \in Seq(X) /\ Len(p) = Len(f) + Len(g)
          /\ \A i \in 1..Len(f) : p[i] = f[i]
          /\ \A k \in 1..Len(g) : p[Len(f) + k] = g[k]
      BY <3>2, Joined
    <3>4. Len(f) = a /\ Len(g) = b
      BY <2>1, <3>1
    <3>5. QED
      BY <3>1, <3>3, <3>4
  <2> HIDE DEF a, b
  <2>3. DOMAIN p = 1..(a + b)
    BY <1>2, <1>9, <2>2
  <2>4. QED
    BY <2>2, <2>3 DEF IsList
<1> HIDE DEF first, rest, a, b
<1>12. \A i \in DOMAIN p : i \in 1..a \/ \E k \in 1..b : i = a + k
  <2>1. TAKE i \in DOMAIN p
  <2>2. CASE i > a
    <3>1. (i - a) \in 1..b /\ i = a + (i - a)
      BY <1>2, <1>9, <1>11, <2>1, <2>2
    <3>2. QED
      BY <3>1
  <2>3. QED
    BY <1>2, <1>9, <1>11, <2>1, <2>2
<1>13. /\ \A i \in 1..a : i \in DOMAIN p
       /\ \A k \in 1..b : a + k \in DOMAIN p
  BY <1>2, <1>9, <1>11
<1>14. \A i \in 1..a : p[i].id = s[i].id
  <2>1. TAKE i \in 1..a
  <2>2. p[i] = first[i]
    BY <1>11, <2>1
  <2>3. CASE first[i] = s[i]
    BY <2>2, <2>3
  <2>4. CASE \E n \in DOMAIN ds : ds[n].id = s[i].id /\ first[i] = Entry(ds[n])
    BY <2>2, <2>4 DEF Entry
  <2>5. QED
    BY <1>4, <2>3, <2>4
<1>15. \A k \in 1..b : \E n \in unknown :
         /\ Cardinality(Wanted(unknown, n)) = k
         /\ p[a + k] = Entry(ds[n]) /\ p[a + k].id = ds[n].id
  <2>1. TAKE k \in 1..b
  <2>2. PICK n \in unknown : Cardinality(Wanted(unknown, n)) = k /\ new[k] = ds[n]
    BY <1>8, <2>1 DEF b
  <2>3. p[a + k] = Entry(ds[n])
    BY <1>10, <1>11, <2>1, <2>2
  <2>4. Entry(ds[n]).id = ds[n].id
    BY DEF Entry
  <2>5. QED
    BY <2>2, <2>3, <2>4
<1>16. ASSUME NEW n \in DOMAIN ds PROVE \E i \in DOMAIN p : p[i] = Entry(ds[n])
  <2>1. CASE n \in unknown
    <3>1. PICK k \in 1..b : new[k] = ds[n]
      BY <1>8, <2>1 DEF b
    <3>2. QED
      BY <1>10, <1>11, <1>13, <3>1
  <2>2. CASE \E i \in 1..a : s[i].id = ds[n].id
    <3>1. PICK i \in 1..a : s[i].id = ds[n].id
      BY <2>2
    <3>2. PICK m \in DOMAIN ds : ds[m].id = s[i].id /\ first[i] = Entry(ds[m])
      BY <1>4, <3>1
    <3>3. m = n
      BY <3>1, <3>2
    <3>4. QED
      BY <1>11, <1>13, <3>2, <3>3
  <2>3. QED
    BY <1>2, <1>6, <2>1, <2>2
<1>17. ASSUME NEW j \in DOMAIN s, \A n \in DOMAIN ds : ds[n].id # s[j].id
       PROVE  \E i \in DOMAIN p : p[i] = s[j]
  BY <1>2, <1>4, <1>11, <1>13, <1>17
<1>18. ASSUME NEW i \in DOMAIN p
       PROVE  \/ \E n \in DOMAIN ds : p[i] = Entry(ds[n])
              \/ \E j \in DOMAIN s : p[i] = s[j] /\ \A n \in DOMAIN ds : ds[n].id # s[j].id
  <2>1. CASE i \in 1..a
    BY <1>2, <1>4, <1>11, <2>1
  <2>2. CASE \E k \in 1..b : i = a + k
    BY <1>2, <1>5, <1>15, <2>2
  <2>3. QED
    BY <1>12, <2>1, <2>2
<1>19. ASSUME NEW i \in DOMAIN p, NEW j \in DOMAIN p, p[i].id = p[j].id PROVE i = j
  <2>1. CASE i \in 1..a /\ j \in 1..a
    BY <1>2, <1>14, <1>19, <2>1
  <2>2. ASSUME NEW u \in 1..a, NEW k \in 1..b PROVE p[u].id # p[a + k].id
    BY <1>7, <1>14, <1>15
  <2>3. ASSUME NEW k \in 1..b, NEW l \in 1..b, p[a + k].id = p[a + l].id PROVE k = l
    <3>1. PICK m \in unknown : Cardinality(Wanted(unknown, m)) = k /\ p[a + k].id = ds[m].id
      BY <1>15
    <3>2. PICK n \in unknown : Cardinality(Wanted(unknown, n)) = l /\ p[a + l].id = ds[n].id
      BY <1>15
    <3>3. m = n
      BY <1>2, <1>5, <2>3, <3>1, <3>2
    <3>4. QED
      BY <3>1, <3>2, <3>3
  <2>4. QED
    BY <1>12, <1>19, <2>1, <2>2, <2>3
<1>20. QED
  BY <1>11, <1>16, <1>17, <1>18, <1>19

---------------------------------------------------------------------------
(***************************************************************************)
(* The index: what was read, what was cut of it, and what is stored.       *)
(***************************************************************************)

\* The documents of a loader and the entries of the store: their ids are
\* pairs, no two alike.
Shaped(s) ==
  /\ IsList(s)
  /\ \A i \in DOMAIN s : /\ s[i].id = << s[i].id[1], s[i].id[2] >> /\ s[i].id[2] \in Nat
                         /\ IsList(s[i].text)
  /\ \A i, j \in DOMAIN s : s[i].id = s[j].id => i = j

\* The files of a pass are read loader by loader, each once: no file still to
\* be read was read, and the one being cut was.
Reads ==
  /\ IsList(read)
  /\ \A r \in DOMAIN read : read[r][1][1] \in Nat /\ IsList(read[r][2])
  /\ pc \in { "load", "file", "chunk", "ready" } =>
       /\ \A q, r \in DOMAIN read : q < r => read[q][1][1] <= read[r][1][1]
       /\ \A q, r \in DOMAIN read :
            read[q][1][1] = read[r][1][1] /\ read[q][1][2] = read[r][1][2] => q = r
       /\ \A r \in DOMAIN read : read[r][1][1] <= loader
       /\ pc = "load" => \A r \in DOMAIN read : read[r][1][1] < loader
  /\ pc \in { "file", "chunk" } =>
       \A n \in files, r \in DOMAIN read :
         read[r][1][1] = loader => read[r][1][2] # FilesOf[loader][n]
  /\ pc = "chunk" =>
       \E r \in DOMAIN read :
         read[r][1][1] = loader /\ read[r][1][2] = file /\ read[r][2] = text

\* The pieces of a text as a list, those of them that are kept, and the number
\* a kept one bears in its id.
Pieces(o, t) == [ n \in DOMAIN t |-> Strip(Window(t, (n - 1) * (ChunkSize - o))) ]
KeptIn(P) == { n \in DOMAIN P : P[n] # << >> }
Number(P, n) == Cardinality(Wanted(KeptIn(P), n)) - 1

Named(ds, name) == { i \in DOMAIN ds : ds[i].id[1] = name }

\* The documents of a file are the given pieces of its text, by number.
DocsAre(ds, name, P, U) ==
  /\ \A n \in U : \E i \in Named(ds, name) : ds[i].id[2] = Number(P, n) /\ ds[i].text = P[n]
  /\ \A i \in Named(ds, name) : \E n \in U : ds[i].id[2] = Number(P, n)
  /\ Cardinality(Named(ds, name)) = Cardinality(U)

\* The kept pieces that begin before a place of the text.
KeptBefore(P, o, place) == { n \in KeptIn(P) : (n - 1) * (ChunkSize - o) < place }

\* The documents of the loader are what was cut of the texts read by it.
Documented ==
  pc \in { "file", "chunk" } =>
    /\ \A r \in DOMAIN read : read[r][1][1] = loader =>
         LET P == Pieces(overlap, read[r][2]) IN
         DocsAre(docs, read[r][1][2], P,
                 IF pc = "chunk" /\ read[r][1][2] = file
                   THEN KeptBefore(P, overlap, start) ELSE KeptIn(P))
    /\ \A i \in DOMAIN docs : \E r \in DOMAIN read :
         read[r][1][1] = loader /\ read[r][1][2] = docs[i].id[1]

\* The readings, among those in D, of a file, and the pieces of the last one.
Readings(rd, D, name) == { r \in D : rd[r][1][2] = name }
Latest(o, rd, D, name) == Pieces(o, rd[Max(Readings(rd, D, name))][2])

\* Every kept piece is in the store, under its number.
Holds(s, name, P) ==
  \A n \in KeptIn(P) : \E i \in DOMAIN s :
    s[i].id[1] = name /\ s[i].id[2] = Number(P, n) /\ s[i].text = P[n]

\* The store after the upserts of the readings in D: it holds every chunk of the
\* latest text of each file, and what else is under a file's name is left over.
Shelf(o, s, rd, D, kept) ==
  /\ \A r \in D : Holds(s, rd[r][1][2], Latest(o, rd, D, rd[r][1][2]))
  /\ \A i \in DOMAIN s :
       \/ kept
       \/ Cardinality(Readings(rd, D, s[i].id[1])) > 1
       \/ /\ Readings(rd, D, s[i].id[1]) # {}
          /\ s[i].id[2] < Cardinality(KeptIn(Latest(o, rd, D, s[i].id[1])))

Upserted == { r \in DOMAIN read : pc = "ready" \/ read[r][1][1] < loader }

Shelved ==
  pc \in { "load", "file", "chunk", "ready" } =>
    Shelf(overlap, store, read, Upserted, persistent)

IndexInv ==
  Shaped(docs) /\ Shaped(store) /\ Reads /\ Documented /\ Shelved

LEMMA ShapedList ==
  ASSUME NEW s, Shaped(s)
  PROVE  Len(s) \in Nat /\ DOMAIN s = 1..Len(s) /\ IsFiniteSet(DOMAIN s)
<1>1. Len(s) \in Nat /\ DOMAIN s = 1..Len(s)
  BY DEF Shaped, IsList
<1>2. QED
  BY <1>1, FS_Interval

LEMMA NothingShaped == Shaped(<< >>)
<1>1. << >> \in Seq({}) /\ DOMAIN << >> = {}
  OBVIOUS
<1>2. QED
  BY <1>1 DEF Shaped, IsList

LEMMA NumbersOfPieces ==
  ASSUME NEW P, NEW n \in Nat
  PROVE  /\ Number(P, n) \in Int
         /\ Cardinality(Wanted(KeptIn(P), n)) = Number(P, n) + 1
         /\ n + 1 \in KeptIn(P) => Number(P, n + 1) = Cardinality(Wanted(KeptIn(P), n))
         /\ \A i \in Wanted(KeptIn(P), n) :
              Number(P, i) \in Nat /\ Number(P, i) < Cardinality(Wanted(KeptIn(P), n))
<1> DEFINE K == KeptIn(P)
<1>1. Cardinality(Wanted(K, n)) \in Nat /\ Cardinality(Wanted(K, 0)) = 0
  BY WantedCount
<1>2. n + 1 \in K => Cardinality(Wanted(K, n + 1)) = Cardinality(Wanted(K, n)) + 1
  BY WantedCount
<1>3. ASSUME NEW i \in Wanted(K, n)
      PROVE  Number(P, i) \in Nat /\ Number(P, i) < Cardinality(Wanted(K, n))
  <2>1. i \in Nat /\ 0 < i /\ i <= n /\ i \in K
    BY DEF Wanted
  <2>2. Cardinality(Wanted(K, i)) <= Cardinality(Wanted(K, n))
    BY <2>1, WantedGrows
  <2>3. Cardinality(Wanted(K, 0)) < Cardinality(Wanted(K, i))
    BY <2>1, WantedGrows
  <2>4. Cardinality(Wanted(K, i)) \in Nat
    BY <2>1, WantedCount
  <2>5. QED
    BY <1>1, <2>2, <2>3, <2>4 DEF Number
<1>4. QED
  BY <1>1, <1>2, <1>3 DEF Number

\* The first m pieces of a file were cut, and the next is appended.
OneMore(ds, name, P, m, d, more) ==
  /\ Shaped(ds) /\ m \in Nat /\ m + 1 \in KeptIn(P)
  /\ DocsAre(ds, name, P, Wanted(KeptIn(P), m))
  /\ d.id = << name, Cardinality(Named(ds, name)) >> /\ d.text = P[m + 1] /\ IsList(d.text)
  /\ more = Append(ds, d)

\* Its number is new, and the documents of the other files are what they were.
LEMMA OneMoreDocument ==
  ASSUME NEW ds, NEW name, NEW P, NEW m, NEW d, NEW more, OneMore(ds, name, P, m, d, more)
  PROVE  /\ Shaped(more)
         /\ DocsAre(more, name, P, Wanted(KeptIn(P), m + 1))
         /\ \A x, Q, U : x # name /\ DocsAre(ds, x, Q, U) => DocsAre(more, x, Q, U)
         /\ \A i \in DOMAIN more : (i \in DOMAIN ds /\ more[i] = ds[i]) \/ more[i] = d
<1> DEFINE K == KeptIn(P)
           N == Len(ds)
<1>1. /\ Shaped(ds) /\ m \in Nat /\ m + 1 \in KeptIn(P)
      /\ DocsAre(ds, name, P, Wanted(KeptIn(P), m))
      /\ d.id = << name, Cardinality(Named(ds, name)) >> /\ d.text = P[m + 1] /\ IsList(d.text)
      /\ more = Append(ds, d)
  BY DEF OneMore
<1>2. N \in Nat /\ DOMAIN ds = 1..N
  BY <1>1, ShapedList
<1>3. /\ IsList(more) /\ DOMAIN more = 1..(N + 1) /\ more[N + 1] = d
      /\ \A i \in 1..N : more[i] = ds[i]
  <2>1. \E S : ds \in Seq(S)
    BY <1>1 DEF Shaped, IsList
  <2>2. /\ \E S : Append(ds, d) \in Seq(S)
        /\ DOMAIN Append(ds, d) = 1..(N + 1)
        /\ Append(ds, d)[N + 1] = d
        /\ \A i \in 1..N : Append(ds, d)[i] = ds[i]
    BY <2>1, Appended
  <2>3. QED
    BY <1>1, <2>2 DEF IsList
<1> HIDE DEF N
<1>4. \A i \in DOMAIN more : i \in 1..N \/ i = N + 1
  BY <1>2, <1>3
<1>5. /\ Cardinality(Named(ds, name)) = Cardinality(Wanted(K, m))
      /\ Cardinality(Wanted(K, m)) \in Nat
      /\ Number(P, m + 1) = Cardinality(Wanted(K, m))
      /\ Cardinality(Wanted(K, m + 1)) = Cardinality(Wanted(K, m)) + 1
      /\ \A n \in Wanted(K, m) : Number(P, n) < Cardinality(Wanted(K, m)) /\ Number(P, n) \in Nat
  BY <1>1, NumbersOfPieces, WantedCount DEF DocsAre
<1>6. /\ d.id[1] = name /\ d.id[2] = Number(P, m + 1) /\ d.id = << d.id[1], d.id[2] >>
      /\ d.text = P[m + 1]
  BY <1>1, <1>5
<1>7. \A i \in Named(ds, name) : ds[i].id[2] < d.id[2] /\ ds[i].id[2] \in Nat
  BY <1>1, <1>5, <1>6 DEF DocsAre
<1>8. /\ Named(more, name) = Named(ds, name) \cup { N + 1 }
      /\ \A x : x # name => Named(more, x) = Named(ds, x)
      /\ \A x : Named(ds, x) \subseteq 1..N
  BY <1>2, <1>3, <1>4, <1>6 DEF Named
<1>9. Shaped(more)
  <2>1. ASSUME NEW i \in DOMAIN more
        PROVE  /\ more[i].id = << more[i].id[1], more[i].id[2] >> /\ more[i].id[2] \in Nat
               /\ IsList(more[i].text)
    <3>1. CASE i \in 1..N
      BY <1>1, <1>2, <1>3, <3>1 DEF Shaped
    <3>2. CASE i = N + 1
      BY <1>1, <1>3, <1>5, <1>6, <3>2
    <3>3. QED
      BY <1>4, <3>1, <3>2
  <2>2. ASSUME NEW i \in 1..N PROVE ds[i].id # d.id
    <3>1. SUFFICES ASSUME ds[i].id = d.id PROVE FALSE
      OBVIOUS
    <3>2. i \in Named(ds, name)
      BY <1>2, <1>6, <3>1 DEF Named
    <3>3. ds[i].id[2] < ds[i].id[2] /\ ds[i].id[2] \in Nat
      BY <1>7, <3>1, <3>2
    <3>4. QED
      BY <3>3
  <2>3. \A i, j \in 1..N : ds[i].id = ds[j].id => i = j
    BY <1>1, <1>2 DEF Shaped
  <2>4. ASSUME NEW i \in DOMAIN more, NEW j \in DOMAIN more, more[i].id = more[j].id
        PROVE  i = j
    BY <1>3, <1>4, <2>2, <2>3, <2>4
  <2>5. QED
    BY <1>3, <2>1, <2>4 DEF Shaped
<1>10. DocsAre(more, name, P, Wanted(K, m + 1))
  <2>1. \A n : n \in Wanted(K, m + 1) <=> n \in Wanted(K, m) \/ n = m + 1
    BY <1>1 DEF Wanted
  <2>2. ASSUME NEW n \in Wanted(K, m + 1)
        PROVE  \E i \in Named(more, name) :
                 more[i].id[2] = Number(P, n) /\ more[i].text = P[n]
    <3>1. CASE n = m + 1
      <4>1. N + 1 \in Named(more, name) /\ more[N + 1] = d
        BY <1>3, <1>8
      <4>2. QED
        BY <1>6, <3>1, <4>1
    <3>2. CASE n \in Wanted(K, m)
      <4>1. PICK i \in Named(ds, name) : ds[i].id[2] = Number(P, n) /\ ds[i].text = P[n]
        BY <1>1, <3>2 DEF DocsAre
      <4>2. i \in Named(more, name) /\ more[i] = ds[i]
        BY <1>3, <1>8
      <4>3. QED
        BY <4>1, <4>2
    <3>3. QED
      BY <2>1, <3>1, <3>2
  <2>3. ASSUME NEW i \in Named(more, name)
        PROVE  \E n \in Wanted(K, m + 1) : more[i].id[2] = Number(P, n)
    <3>1. CASE i = N + 1
      BY <1>3, <1>6, <2>1, <3>1
    <3>2. CASE i \in Named(ds, name)
      <4>1. PICK n \in Wanted(K, m) : ds[i].id[2] = Number(P, n)
        BY <1>1, <3>2 DEF DocsAre
      <4>2. more[i] = ds[i] /\ n \in Wanted(K, m + 1)
        BY <1>3, <1>8, <2>1, <3>2, <4>1
      <4>3. QED
        BY <4>1, <4>2
    <3>3. QED
      BY <1>8, <3>1, <3>2
  <2>4. Cardinality(Named(more, name)) = Cardinality(Wanted(K, m + 1))
    <3>1. IsFiniteSet(Named(ds, name)) /\ N + 1 \notin Named(ds, name)
      <4>1. IsFiniteSet(DOMAIN ds) /\ Named(ds, name) \subseteq DOMAIN ds
        BY <1>1, ShapedList DEF Named
      <4>2. N + 1 \notin 1..N
        BY <1>2
      <4>3. QED
        BY <1>8, <4>1, <4>2, FS_Subset
    <3>2. Cardinality(Named(more, name)) = Cardinality(Named(ds, name)) + 1
      BY <1>8, <3>1, FS_AddElement
    <3>3. QED
      BY <1>5, <3>2
  <2>5. QED
    BY <2>2, <2>3, <2>4 DEF DocsAre
<1>11. ASSUME NEW x, NEW Q, NEW U, x # name, DocsAre(ds, x, Q, U)
       PROVE  DocsAre(more, x, Q, U)
  <2>1. Named(more, x) = Named(ds, x) /\ \A i \in Named(ds, x) : more[i] = ds[i]
    BY <1>3, <1>8, <1>11
  <2>2. ASSUME NEW n \in U
        PROVE  \E i \in Named(more, x) : more[i].id[2] = Number(Q, n) /\ more[i].text = Q[n]
    <3>1. PICK i \in Named(ds, x) : ds[i].id[2] = Number(Q, n) /\ ds[i].text = Q[n]
      BY <1>11 DEF DocsAre
    <3>2. QED
      BY <2>1, <3>1
  <2>3. ASSUME NEW i \in Named(more, x) PROVE \E n \in U : more[i].id[2] = Number(Q, n)
    <3>1. i \in Named(ds, x) /\ more[i] = ds[i]
      BY <2>1
    <3>2. QED
      BY <1>11, <3>1 DEF DocsAre
  <2>4. Cardinality(Named(more, x)) = Cardinality(U)
    BY <1>11, <2>1 DEF DocsAre
  <2>5. QED
    BY <2>2, <2>3, <2>4 DEF DocsAre
<1>12. \A i \in DOMAIN more : (i \in DOMAIN ds /\ more[i] = ds[i]) \/ more[i] = d
  BY <1>2, <1>3, <1>4
<1>13. QED
  BY <1>9, <1>10, <1>11, <1>12

\* Every kept piece of a text has a number below their count, and begins in the
\* text.
LEMMA KeptPieces ==
  ASSUME NEW o \in Overlaps, NEW t, IsList(t), NEW P, P = Pieces(o, t)
  PROVE  /\ Len(t) \in Nat /\ KeptIn(P) \subseteq 1..Len(t) /\ DOMAIN P = 1..Len(t)
         /\ Wanted(KeptIn(P), Len(t)) = KeptIn(P)
         /\ \A n \in KeptIn(P) : /\ Number(P, n) \in Nat
                                 /\ Number(P, n) < Cardinality(KeptIn(P))
                                 /\ (n - 1) * (ChunkSize - o) < Len(t)
<1>1. Len(t) \in Nat /\ DOMAIN t = 1..Len(t)
  BY DEF IsList
<1>2. DOMAIN P = 1..Len(t) /\ KeptIn(P) \subseteq 1..Len(t)
  BY <1>1 DEF Pieces, KeptIn
<1>3. Wanted(KeptIn(P), Len(t)) = KeptIn(P)
  BY <1>2 DEF Wanted
<1>4. \A n \in KeptIn(P) : Number(P, n) \in Nat /\ Number(P, n) < Cardinality(KeptIn(P))
  BY <1>1, <1>3, NumbersOfPieces
<1>5. ASSUME NEW n \in KeptIn(P) PROVE (n - 1) * (ChunkSize - o) < Len(t)
  <2>1. n \in 1..Len(t) /\ P[n] # << >>
    BY <1>2 DEF KeptIn
  <2>2. PICK from : from = (n - 1) * (ChunkSize - o)
    OBVIOUS
  <2>3. P[n] = Strip(Window(t, from))
    BY <1>1, <2>1, <2>2 DEF Pieces
  <2>4. from \in Nat
    BY <1>1, <2>1, <2>2, StepIsPositive
  <2>5. SUFFICES ASSUME from >= Len(t) PROVE FALSE
    BY <1>1, <2>2, <2>4
  <2>6. Window(t, from) = << >>
    <3>1. PICK last : last = WindowEnd(from, Len(t))
      OBVIOUS
    <3>2. last \in Int /\ last < from + 1 /\ from + 1 \in Int
      BY <1>1, <2>4, <2>5, <3>1, ChunkAssumption, EndIsInText
    <3>3. SubSeq(t, from + 1, last) = << >>
      BY <3>2, SubSeqEmpty
    <3>4. QED
      BY <3>1, <3>3 DEF Window
  <2>7. IsBlankText(<< >>) /\ IsList(<< >>)
    <3>1. << >> \in Seq({}) /\ DOMAIN << >> = {}
      OBVIOUS
    <3>2. QED
      BY <3>1 DEF IsBlankText, IsList
  <2>8. Strip(<< >>) = << >>
    BY <2>7, StripLeavesText
  <2>9. QED
    BY <2>1, <2>3, <2>6, <2>8
<1>6. QED
  BY <1>1, <1>2, <1>3, <1>4, <1>5

\* What the readings in D left is no other when more is read after them.
LEMMA ShelfStays ==
  ASSUME NEW o, NEW s, NEW rd, NEW D, NEW kept, Shelf(o, s, rd, D, kept),
         NEW len \in Nat, D \subseteq 1..len,
         NEW more, \A r \in D : more[r] = rd[r]
  PROVE  Shelf(o, s, more, D, kept)
<1>1. ASSUME NEW x PROVE Readings(more, D, x) = Readings(rd, D, x)
  BY DEF Readings
<1>2. ASSUME NEW x, Readings(rd, D, x) # {} PROVE Latest(o, more, D, x) = Latest(o, rd, D, x)
  <2>1. Readings(rd, D, x) \subseteq D
    BY DEF Readings
  <2>2. Max(Readings(rd, D, x)) \in Readings(rd, D, x)
    BY <1>2, <2>1, GreatestIndex
  <2>3. more[Max(Readings(rd, D, x))] = rd[Max(Readings(rd, D, x))]
    BY <2>1, <2>2
  <2>4. QED
    BY <1>1, <2>3 DEF Latest
<1>3. ASSUME NEW r \in D PROVE Holds(s, more[r][1][2], Latest(o, more, D, more[r][1][2]))
  <2>1. r \in Readings(rd, D, rd[r][1][2]) /\ more[r] = rd[r]
    BY DEF Readings
  <2>2. Latest(o, more, D, rd[r][1][2]) = Latest(o, rd, D, rd[r][1][2])
    BY <1>2, <2>1
  <2>3. QED
    BY <2>1, <2>2 DEF Shelf
<1>4. ASSUME NEW i \in DOMAIN s
      PROVE  \/ kept
             \/ Cardinality(Readings(more, D, s[i].id[1])) > 1
             \/ /\ Readings(more, D, s[i].id[1]) # {}
                /\ s[i].id[2] < Cardinality(KeptIn(Latest(o, more, D, s[i].id[1])))
  <2>1. PICK x : x = s[i].id[1]
    OBVIOUS
  <2>2. \/ kept
        \/ Cardinality(Readings(rd, D, x)) > 1
        \/ Readings(rd, D, x) # {} /\ s[i].id[2] < Cardinality(KeptIn(Latest(o, rd, D, x)))
    BY <2>1 DEF Shelf
  <2>3. /\ Readings(more, D, x) = Readings(rd, D, x)
        /\ Readings(rd, D, x) # {} => Latest(o, more, D, x) = Latest(o, rd, D, x)
    BY <1>1, <1>2
  <2>4. QED
    BY <2>1, <2>2, <2>3
<1>5. QED
  BY <1>3, <1>4 DEF Shelf

\* An upsert leaves ids that tell the entries apart.
LEMMA PutShaped ==
  ASSUME NEW s, Shaped(s), NEW ds, Shaped(ds), NEW p, p = Put(s, ds)
  PROVE  Shaped(p)
<1>1. /\ IsList(p)
      /\ \A i \in DOMAIN p : \/ \E n \in DOMAIN ds : p[i] = Entry(ds[n])
                             \/ \E j \in DOMAIN s : p[i] = s[j]
      /\ \A i, j \in DOMAIN p : p[i].id = p[j].id => i = j
  <2>1. /\ IsList(s) /\ \A i, j \in DOMAIN s : s[i].id = s[j].id => i = j
        /\ IsList(ds) /\ \A i, j \in DOMAIN ds : ds[i].id = ds[j].id => i = j
    BY DEF Shaped
  <2>2. QED
    BY <2>1, PutReplaces
<1>2. ASSUME NEW i \in DOMAIN p
      PROVE  /\ p[i].id = << p[i].id[1], p[i].id[2] >> /\ p[i].id[2] \in Nat
             /\ IsList(p[i].text)
  <2>1. CASE \E n \in DOMAIN ds : p[i] = Entry(ds[n])
    <3>1. PICK n \in DOMAIN ds : p[i] = Entry(ds[n])
      BY <2>1
    <3>2. p[i].id = ds[n].id /\ p[i].text = ds[n].text
      BY <3>1 DEF Entry
    <3>3. QED
      BY <3>2 DEF Shaped
  <2>2. CASE \E j \in DOMAIN s : p[i] = s[j]
    BY <2>2 DEF Shaped
  <2>3. QED
    BY <1>1, <2>1, <2>2
<1>3. QED
  BY <1>1, <1>2 DEF Shaped

\* After an upsert the store is what the readings so far and those of this
\* loader leave, if the documents are what was cut of the latter.
LEMMA ShelfGrows ==
  ASSUME NEW o, NEW s, Shaped(s), NEW ds, Shaped(ds), NEW rd, NEW D, NEW E, NEW kept,
         Shelf(o, s, rd, D, kept),
         NEW len \in Nat, D \subseteq 1..len, E \subseteq 1..len,
         \A d \in D, e \in E : d < e,
         \A e, f \in E : rd[e][1][2] = rd[f][1][2] => e = f,
         \A e \in E : DocsAre(ds, rd[e][1][2], Pieces(o, rd[e][2]), KeptIn(Pieces(o, rd[e][2]))),
         \A e \in E : \A n \in KeptIn(Pieces(o, rd[e][2])) :
           Number(Pieces(o, rd[e][2]), n) < Cardinality(KeptIn(Pieces(o, rd[e][2]))),
         \A i \in DOMAIN ds : \E e \in E : rd[e][1][2] = ds[i].id[1],
         NEW p, p = Put(s, ds)
  PROVE  Shelf(o, p, rd, D \cup E, kept)
<1> DEFINE F == D \cup E
<1>1. /\ \A n \in DOMAIN ds : \E i \in DOMAIN p : p[i] = Entry(ds[n])
      /\ \A j \in DOMAIN s : (\A n \in DOMAIN ds : ds[n].id # s[j].id)
                               => \E i \in DOMAIN p : p[i] = s[j]
      /\ \A i \in DOMAIN p :
           \/ \E n \in DOMAIN ds : p[i] = Entry(ds[n])
           \/ \E j \in DOMAIN s : p[i] = s[j] /\ \A n \in DOMAIN ds : ds[n].id # s[j].id
  <2>1. /\ IsList(s) /\ \A i, j \in DOMAIN s : s[i].id = s[j].id => i = j
        /\ IsList(ds) /\ \A i, j \in DOMAIN ds : ds[i].id = ds[j].id => i = j
    BY DEF Shaped
  <2>2. QED
    BY <2>1, PutReplaces
<1>2. \A d : Entry(d).id = d.id /\ Entry(d).text = d.text
  BY DEF Entry
<1>3. \A x : /\ Readings(rd, D, x) \subseteq Readings(rd, F, x)
             /\ Readings(rd, F, x) \subseteq 1..len
             /\ IsFiniteSet(Readings(rd, F, x))
  <2>1. TAKE x
  <2>2. Readings(rd, F, x) \subseteq 1..len /\ Readings(rd, D, x) \subseteq Readings(rd, F, x)
    BY DEF Readings
  <2>3. IsFiniteSet(1..len)
    BY FS_Interval
  <2>4. QED
    BY <2>2, <2>3, FS_Subset
\* A file this loader read: its reading is the latest.
<1>4. ASSUME NEW e \in E, NEW x, rd[e][1][2] = x
      PROVE  Readings(rd, F, x) # {} /\ Latest(o, rd, F, x) = Pieces(o, rd[e][2])
  <2>1. e \in Readings(rd, F, x) /\ e \in 1..len /\ e \in Nat
    <3>1. e \in 1..len
      OBVIOUS
    <3>2. QED
      BY <1>4, <3>1 DEF Readings
  <2>2. \A r \in Readings(rd, F, x) : r <= e
    <3>1. TAKE r \in Readings(rd, F, x)
    <3>2. r \in D \/ (r \in E /\ rd[r][1][2] = x)
      BY DEF Readings
    <3>3. r \in D => r < e
      OBVIOUS
    <3>4. r \in E /\ rd[r][1][2] = x => r = e
      BY <1>4
    <3>5. r \in Nat
      <4>1. r \in 1..len
        BY <1>3
      <4>2. QED
        BY <4>1
    <3>6. QED
      BY <2>1, <3>2, <3>3, <3>4, <3>5
  <2>3. /\ Max(Readings(rd, F, x)) \in Readings(rd, F, x)
        /\ \A r \in Readings(rd, F, x) : r <= Max(Readings(rd, F, x))
    BY <1>3, <2>1, GreatestIndex
  <2>4. Max(Readings(rd, F, x)) = e
    <3>1. PICK top : top = Max(Readings(rd, F, x))
      OBVIOUS
    <3>2. top \in Readings(rd, F, x) /\ e <= top
      BY <2>1, <2>3, <3>1
    <3>3. top \in 1..len
      BY <1>3, <3>2
    <3>4. top <= e /\ top \in Nat
      BY <2>2, <3>2, <3>3
    <3>5. QED
      BY <2>1, <3>1, <3>2, <3>4
  <2>5. QED
    BY <2>1, <2>4 DEF Latest
\* A file it did not read: the readings are those from before.
<1>5. ASSUME NEW x, \A e \in E : rd[e][1][2] # x
      PROVE  Readings(rd, F, x) = Readings(rd, D, x) /\ Latest(o, rd, F, x) = Latest(o, rd, D, x)
  <2>1. Readings(rd, F, x) = Readings(rd, D, x)
    BY <1>5 DEF Readings
  <2>2. QED
    BY <2>1 DEF Latest
<1>6. ASSUME NEW r \in F PROVE Holds(p, rd[r][1][2], Latest(o, rd, F, rd[r][1][2]))
  <2>1. PICK x : x = rd[r][1][2]
    OBVIOUS
  <2>2. CASE \E e \in E : rd[e][1][2] = x
    <3>1. PICK e \in E : rd[e][1][2] = x
      BY <2>2
    <3>2. PICK P : P = Pieces(o, rd[e][2])
      OBVIOUS
    <3>3. DocsAre(ds, x, P, KeptIn(P)) /\ Latest(o, rd, F, x) = P
      BY <1>4, <3>1, <3>2
    <3>4. ASSUME NEW n \in KeptIn(P)
          PROVE  \E i \in DOMAIN p :
                   p[i].id[1] = x /\ p[i].id[2] = Number(P, n) /\ p[i].text = P[n]
      <4>1. PICK k \in DOMAIN ds : /\ ds[k].id[1] = x /\ ds[k].id[2] = Number(P, n)
                                   /\ ds[k].text = P[n]
        BY <3>3 DEF DocsAre, Named
      <4>2. PICK i \in DOMAIN p : p[i] = Entry(ds[k])
        BY <1>1
      <4>3. p[i].id = ds[k].id /\ p[i].text = ds[k].text
        BY <1>2, <4>2
      <4>4. QED
        BY <4>1, <4>3
    <3>5. QED
      BY <2>1, <3>3, <3>4 DEF Holds
  <2>3. CASE \A e \in E : rd[e][1][2] # x
    <3>1. r \in D
      BY <2>1, <2>3
    <3>2. PICK P : P = Latest(o, rd, D, x)
      OBVIOUS
    <3>3. Holds(s, x, P) /\ Latest(o, rd, F, x) = P
      BY <1>5, <2>1, <2>3, <3>1, <3>2 DEF Shelf
    <3>4. ASSUME NEW n \in KeptIn(P)
          PROVE  \E i \in DOMAIN p :
                   p[i].id[1] = x /\ p[i].id[2] = Number(P, n) /\ p[i].text = P[n]
      <4>1. PICK j \in DOMAIN s : /\ s[j].id[1] = x /\ s[j].id[2] = Number(P, n)
                                  /\ s[j].text = P[n]
        BY <3>3 DEF Holds
      <4>2. \A k \in DOMAIN ds : ds[k].id # s[j].id
        <5>1. SUFFICES ASSUME NEW k \in DOMAIN ds, ds[k].id = s[j].id PROVE FALSE
          OBVIOUS
        <5>2. ds[k].id[1] = x
          BY <4>1, <5>1
        <5>3. QED
          BY <2>3, <5>2
      <4>3. PICK i \in DOMAIN p : p[i] = s[j]
        BY <1>1, <4>2
      <4>4. QED
        BY <4>1, <4>3
    <3>5. QED
      BY <2>1, <3>3, <3>4 DEF Holds
  <2>4. QED
    BY <2>2, <2>3
<1>7. ASSUME NEW i \in DOMAIN p
      PROVE  \/ kept
             \/ Cardinality(Readings(rd, F, p[i].id[1])) > 1
             \/ /\ Readings(rd, F, p[i].id[1]) # {}
                /\ p[i].id[2] < Cardinality(KeptIn(Latest(o, rd, F, p[i].id[1])))
  <2>1. PICK x : x = p[i].id[1]
    OBVIOUS
  <2>2. CASE \E n \in DOMAIN ds : p[i] = Entry(ds[n])
    <3>1. PICK n \in DOMAIN ds : p[i] = Entry(ds[n])
      BY <2>2
    <3>2. p[i].id = ds[n].id
      BY <1>2, <3>1
    <3>3. PICK e \in E : rd[e][1][2] = x
      BY <2>1, <3>2
    <3>4. PICK P : P = Pieces(o, rd[e][2])
      OBVIOUS
    <3>5. /\ DocsAre(ds, x, P, KeptIn(P)) /\ Latest(o, rd, F, x) = P
          /\ Readings(rd, F, x) # {}
          /\ \A k \in KeptIn(P) : Number(P, k) < Cardinality(KeptIn(P))
      BY <1>4, <3>3, <3>4
    <3>6. n \in Named(ds, x)
      BY <2>1, <3>2 DEF Named
    <3>7. PICK k \in KeptIn(P) : ds[n].id[2] = Number(P, k)
      BY <3>5, <3>6 DEF DocsAre
    <3>8. p[i].id[2] < Cardinality(KeptIn(P))
      BY <3>2, <3>5, <3>7
    <3>9. QED
      BY <2>1, <3>5, <3>8
  <2>3. CASE \E j \in DOMAIN s : p[i] = s[j] /\ \A n \in DOMAIN ds : ds[n].id # s[j].id
    <3>1. PICK j \in DOMAIN s : p[i] = s[j]
      BY <2>3
    <3>2. \/ kept
          \/ Cardinality(Readings(rd, D, x)) > 1
          \/ /\ Readings(rd, D, x) # {}
             /\ p[i].id[2] < Cardinality(KeptIn(Latest(o, rd, D, x)))
      BY <2>1, <3>1 DEF Shelf
    <3>3. IsFiniteSet(Readings(rd, D, x)) /\ Cardinality(Readings(rd, D, x)) \in Nat
      <4>1. IsFiniteSet(Readings(rd, D, x))
        BY <1>3, FS_Subset
      <4>2. QED
        BY <4>1, FS_CardinalityType
    <3>4. CASE Cardinality(Readings(rd, D, x)) > 1
      <4>1. Cardinality(Readings(rd, D, x)) <= Cardinality(Readings(rd, F, x))
        BY <1>3, FS_Subset
      <4>2. Cardinality(Readings(rd, F, x)) \in Nat
        BY <1>3, FS_CardinalityType
      <4>3. QED
        BY <2>1, <3>3, <3>4, <4>1, <4>2
    <3>5. CASE Readings(rd, D, x) # {} /\ \E e \in E : rd[e][1][2] = x
      <4>1. PICK e \in E : rd[e][1][2] = x
        BY <3>5
      <4>2. e \in Readings(rd, F, x) /\ e \notin Readings(rd, D, x)
        <5>1. e \notin D
          <6>1. SUFFICES ASSUME e \in D PROVE FALSE
            OBVIOUS
          <6>2. e < e /\ e \in Nat
            BY <6>1
          <6>3. QED
            BY <6>2
        <5>2. QED
          BY <4>1, <5>1 DEF Readings
      <4>3. Cardinality(Readings(rd, D, x) \cup {e}) = Cardinality(Readings(rd, D, x)) + 1
        BY <3>3, <4>2, FS_AddElement
      <4>4. Readings(rd, D, x) \cup {e} \subseteq Readings(rd, F, x)
        BY <1>3, <4>2
      <4>5. Cardinality(Readings(rd, D, x) \cup {e}) <= Cardinality(Readings(rd, F, x))
        BY <1>3, <4>4, FS_Subset
      <4>6. Cardinality(Readings(rd, D, x)) # 0
        BY <3>3, <3>5, FS_EmptySet
      <4>7. Cardinality(Readings(rd, F, x)) \in Nat
        BY <1>3, FS_CardinalityType
      <4>8. Cardinality(Readings(rd, F, x)) > 1
        BY <3>3, <4>3, <4>5, <4>6, <4>7
      <4>9. QED
        BY <2>1, <4>8
    <3>6. CASE \A e \in E : rd[e][1][2] # x
      <4>1. Readings(rd, F, x) = Readings(rd, D, x) /\ Latest(o, rd, F, x) = Latest(o, rd, D, x)
        BY <1>5, <3>6
      <4>2. QED
        BY <2>1, <3>2, <4>1
    <3>7. QED
      BY <2>1, <3>2, <3>4, <3>5, <3>6
  <2>4. QED
    BY <1>1, <2>2, <2>3
<1>8. QED
  BY <1>6, <1>7 DEF Shelf

---------------------------------------------------------------------------
(***************************************************************************)
(* The steps.                                                              *)
(***************************************************************************)

LEMMA IndexInit == Init => IndexInv
<1> SUFFICES ASSUME Init PROVE IndexInv
  OBVIOUS
<1>1. store = << >> /\ docs = << >> /\ read = << >> /\ pc = "idle"
  BY Zenon DEF Init
<1>2. Shaped(docs) /\ Shaped(store)
  BY <1>1, NothingShaped
<1>3. IsList(read) /\ DOMAIN read = {}
  <2>1. << >> \in Seq({}) /\ DOMAIN << >> = {}
    OBVIOUS
  <2>2. QED
    BY <1>1, <2>1 DEF IsList
<1>4. Reads
  BY <1>1, <1>3 DEF Reads
<1>5. Documented /\ Shelved
  BY <1>1 DEF Documented, Shelved
<1>6. QED
  BY <1>2, <1>4, <1>5 DEF IndexInv

\* A step that leaves the pass, or none of it begun.
LEMMA IndexLeaves ==
  ASSUME IndexInv, pc' \notin { "load", "file", "chunk", "ready" },
         store' = store, docs' \in { docs, << >> }, read' \in { read, << >> }
  PROVE  IndexInv'
<1>1. Shaped(docs') /\ Shaped(store')
  BY NothingShaped DEF IndexInv
<1>2. Reads'
  <2>1. CASE read' = read
    BY <2>1 DEF IndexInv, Reads
  <2>2. CASE read' = << >>
    <3>1. << >> \in Seq({}) /\ DOMAIN << >> = {}
      OBVIOUS
    <3>2. IsList(read') /\ DOMAIN read' = {}
      BY <2>2, <3>1 DEF IsList
    <3>3. QED
      BY <3>2 DEF Reads
  <2>3. QED
    BY <2>1, <2>2
<1>3. Documented' /\ Shelved'
  BY DEF Documented, Shelved
<1>4. QED
  BY <1>1, <1>2, <1>3 DEF IndexInv

\* What the store keeps between two readings and while a file is cut.
LEMMA ShelvedStays ==
  ASSUME Reads, Shelved, pc \in { "load", "file", "chunk" },
         pc' \in { "file", "chunk" }, loader' = loader, overlap' = overlap,
         store' = store, persistent' = persistent, loader \in Nat,
         NEW slot, NEW t, slot[1] = loader,
         read' = read \/ read' = Append(read, << slot, t >>)
  PROVE  Shelved'
<1>1. /\ \E S : read \in Seq(S)
      /\ \A r \in DOMAIN read : read[r][1][1] \in Nat
  BY DEF Reads, IsList
<1>2. Len(read) \in Nat /\ DOMAIN read = 1..Len(read)
  BY <1>1
<1>3. Upserted = { r \in DOMAIN read : read[r][1][1] < loader }
  BY DEF Upserted
<1>4. Shelf(overlap, store, read, Upserted, persistent)
  BY DEF Shelved
<1>5. CASE read' = read
  <2>1. Upserted' = Upserted
    BY <1>3, <1>5 DEF Upserted
  <2>2. QED
    BY <1>4, <1>5, <2>1 DEF Shelved
<1>6. CASE read' = Append(read, << slot, t >>)
  <2>1. /\ DOMAIN read' = 1..(Len(read) + 1) /\ read'[Len(read) + 1] = << slot, t >>
        /\ \A r \in 1..Len(read) : read'[r] = read[r]
    <3>1. PICK e : e = << slot, t >>
      OBVIOUS
    <3>2. QED
      BY <1>1, <1>6, <3>1, Appended
  <2>2. Upserted' = Upserted
    <3>1. Upserted' = { r \in DOMAIN read' : read'[r][1][1] < loader }
      BY DEF Upserted
    <3>2. ~ (read'[Len(read) + 1][1][1] < loader)
      BY <2>1
    <3>3. \A r \in DOMAIN read' : r \in DOMAIN read \/ r = Len(read) + 1
      BY <1>2, <2>1
    <3>4. \A r \in DOMAIN read : r \in DOMAIN read' /\ read'[r] = read[r]
      BY <1>2, <2>1
    <3>5. QED
      BY <1>3, <3>1, <3>2, <3>3, <3>4
  <2>3. PICK o, s, rd, D, kept, more, len :
          /\ o = overlap /\ s = store /\ rd = read /\ D = Upserted /\ kept = persistent
          /\ more = read' /\ len = Len(read)
    OBVIOUS
  <2>4. /\ Shelf(o, s, rd, D, kept) /\ len \in Nat /\ D \subseteq 1..len
        /\ \A r \in D : more[r] = rd[r]
    BY <1>2, <1>4, <2>1, <2>3 DEF Upserted
  <2>5. Shelf(o, s, more, D, kept)
    BY <2>4, ShelfStays
  <2>6. QED
    BY <2>2, <2>3, <2>5 DEF Shelved
<1>7. QED
  BY <1>5, <1>6

\* A step that changes the directories, or nothing.
LEMMA IndexRests ==
  ASSUME IndexInv,
         UNCHANGED << persistent, overlap, store, pc, loader, files, file, text, start,
                      docs, read >>
  PROVE  IndexInv'
<1>1. Shaped(docs)' /\ Shaped(store)'
  BY DEF IndexInv
<1>2. Reads'
  BY DEF IndexInv, Reads
<1>3. Documented'
  BY DEF IndexInv, Documented
<1>4. Shelved'
  <2>1. Upserted' = Upserted
    BY DEF Upserted
  <2>2. QED
    BY <2>1 DEF IndexInv, Shelved
<1>5. QED
  BY <1>1, <1>2, <1>3, <1>4 DEF IndexInv

\* The pieces that begin before the next window are the first m.
LEMMA KeptByRounds ==
  ASSUME NEW o \in Overlaps, NEW t, IsList(t), NEW P, P = Pieces(o, t), NEW m \in Nat,
         NEW at, at = m * (ChunkSize - o)
  PROVE  KeptBefore(P, o, at) = Wanted(KeptIn(P), m)
<1>1. (ChunkSize - o) \in Nat \ {0} /\ KeptIn(P) \subseteq 1..Len(t) /\ Len(t) \in Nat
  BY StepIsPositive, KeptPieces
<1>2. ASSUME NEW n \in KeptIn(P)
      PROVE  (n - 1) * (ChunkSize - o) < m * (ChunkSize - o) <=> n <= m
  <2>1. n \in Nat /\ 1 <= n
    BY <1>1
  <2>2. PICK w, k : w = ChunkSize - o /\ k = n - 1
    OBVIOUS
  <2>3. w \in Nat \ {0} /\ k \in Nat
    BY <1>1, <2>1, <2>2
  <2>4. CASE m = 0
    <3>1. k * w \in Nat /\ m * w = 0
      BY <2>3, <2>4
    <3>2. QED
      BY <2>1, <2>2, <2>4, <3>1
  <2>5. CASE m # 0
    <3>1. PICK l \in Nat : m = l + 1
      <4>1. m - 1 \in Nat /\ m = (m - 1) + 1
        BY <2>5
      <4>2. QED
        BY <4>1
    <3>2. /\ (l + 1) * w = l * w + w
          /\ k <= l => k * w <= l * w
          /\ k * w < (l + 1) * w => k <= l
      BY <2>3, <3>1, Multiples
    <3>3. k * w \in Nat /\ l * w \in Nat
      BY <2>3, <3>1
    <3>4. k * w < m * w <=> k <= l
      BY <2>3, <3>1, <3>2, <3>3
    <3>5. k <= l <=> n <= m
      BY <2>1, <2>2, <3>1
    <3>6. QED
      BY <2>2, <3>4, <3>5
  <2>6. QED
    BY <2>4, <2>5
<1>3. \A n : n \in KeptIn(P) => n \in Nat /\ 1 <= n
  BY <1>1
<1>4. QED
  BY <1>2, <1>3 DEF KeptBefore, Wanted

\* One round of _chunk_file.
LEMMA CutIndexes ==
  ASSUME CutInv, IndexInv, CutWindow
  PROVE  IndexInv'
<1>1. /\ pc = "chunk" /\ start < Len(text) /\ start' = start + Step
      /\ UNCHANGED << persistent, overlap, store, pc, loader, files, file, text, read >>
      /\ docs' = IF IsBlankText(Window(text, start)) THEN docs
                 ELSE Append(docs, Document(file, start))
  BY DEF CutWindow, setup
<1>2. /\ overlap \in Overlaps /\ IsList(text) /\ Len(text) \in Nat /\ DOMAIN text = 1..Len(text)
      /\ loader \in Nat
  BY LoadersAssumption DEF CutInv, Cutting, IsText, IsList
<1>3. PICK m \in Nat : start = m * Step
  BY DEF CutInv, Cutting
<1>4. Step \in Nat \ {0} /\ Step = ChunkSize - overlap
  BY <1>2, StepIsPositive DEF Step
<1>5. start' = (m + 1) * Step
  BY <1>1, <1>3, <1>4, Multiples
<1>6. PICK r0 \in DOMAIN read :
        read[r0][1][1] = loader /\ read[r0][1][2] = file /\ read[r0][2] = text
  BY <1>1 DEF IndexInv, Reads
<1>7. \A r \in DOMAIN read : read[r][1][1] = loader /\ read[r][1][2] = file => r = r0
  BY <1>1, <1>6 DEF IndexInv, Reads
<1>8. PICK P, K, o : P = Pieces(overlap, text) /\ K = KeptIn(P) /\ o = overlap
  OBVIOUS
<1>9. /\ KeptBefore(P, o, start) = Wanted(K, m)
      /\ KeptBefore(P, o, start') = Wanted(K, m + 1)
      /\ K \subseteq 1..Len(text) /\ DOMAIN P = 1..Len(text)
  <2>1. PICK t, at, next : t = text /\ at = start /\ next = start'
    OBVIOUS
  <2>2. /\ o \in Overlaps /\ IsList(t) /\ P = Pieces(o, t) /\ m + 1 \in Nat
        /\ at = m * (ChunkSize - o) /\ next = (m + 1) * (ChunkSize - o)
    BY <1>2, <1>3, <1>4, <1>5, <1>8, <2>1
  <2>3. KeptBefore(P, o, at) = Wanted(KeptIn(P), m)
    BY <2>2, KeptByRounds
  <2>4. KeptBefore(P, o, next) = Wanted(KeptIn(P), m + 1)
    BY <2>2, KeptByRounds
  <2>5. KeptIn(P) \subseteq 1..Len(t) /\ DOMAIN P = 1..Len(t)
    BY <2>2, KeptPieces
  <2>6. QED
    BY <1>8, <2>1, <2>3, <2>4, <2>5
<1>10. m + 1 \in 1..Len(text)
  <2>1. m <= m * Step
    BY <1>4
  <2>2. m * Step \in Nat
    BY <1>4
  <2>3. QED
    BY <1>1, <1>2, <1>3, <2>1, <2>2
<1>11. /\ P[m + 1] = Strip(Window(text, start)) /\ IsList(P[m + 1])
       /\ m + 1 \in K <=> ~ IsBlankText(Window(text, start))
  <2>1. P[m + 1] = Strip(Window(text, (m + 1 - 1) * (ChunkSize - overlap)))
    BY <1>2, <1>8, <1>10 DEF Pieces
  <2>2. (m + 1 - 1) * (ChunkSize - overlap) = start
    BY <1>3, <1>4
  <2>3. P[m + 1] = Strip(Window(text, start))
    BY <2>1, <2>2
  <2>4. start \in Nat
    BY DEF CutInv, Cutting
  <2>5. IsList(Window(text, start))
    BY <1>2, <2>4, WindowsAreLists
  <2>6. /\ IsList(Strip(Window(text, start)))
        /\ Strip(Window(text, start)) # << >> <=> ~ IsBlankText(Window(text, start))
    BY <2>5, StripLeavesText
  <2>7. m + 1 \in K <=> P[m + 1] # << >>
    BY <1>8, <1>9, <1>10 DEF KeptIn
  <2>8. QED
    BY <2>3, <2>6, <2>7
<1>12. /\ Shaped(docs) /\ Shaped(store) /\ Reads /\ Shelved
       /\ \A r \in DOMAIN read : read[r][1][1] = loader =>
            DocsAre(docs, read[r][1][2], Pieces(o, read[r][2]),
                    IF read[r][1][2] = file
                      THEN KeptBefore(Pieces(o, read[r][2]), o, start)
                      ELSE KeptIn(Pieces(o, read[r][2])))
       /\ \A i \in DOMAIN docs : \E r \in DOMAIN read :
            read[r][1][1] = loader /\ read[r][1][2] = docs[i].id[1]
  BY <1>1, <1>8 DEF IndexInv, Documented
<1>13. DocsAre(docs, file, P, Wanted(K, m))
  BY <1>6, <1>8, <1>9, <1>12
\* What is to be shown of the documents.
<1>14. /\ Shaped(docs')
       /\ DocsAre(docs', file, P, Wanted(K, m + 1))
       /\ \A r \in DOMAIN read : read[r][1][1] = loader /\ read[r][1][2] # file =>
            DocsAre(docs', read[r][1][2], Pieces(o, read[r][2]), KeptIn(Pieces(o, read[r][2])))
       /\ \A i \in DOMAIN docs' : \E r \in DOMAIN read :
            read[r][1][1] = loader /\ read[r][1][2] = docs'[i].id[1]
  <2>1. CASE m + 1 \notin K
    <3>1. docs' = docs
      BY <1>1, <1>11, <2>1
    <3>2. Wanted(K, m + 1) = Wanted(K, m)
      BY <2>1 DEF Wanted
    <3>3. QED
      BY <1>12, <1>13, <3>1, <3>2
  <2>2. CASE m + 1 \in K
    <3>1. PICK ds, d, name, more :
            ds = docs /\ d = Document(file, start) /\ name = file /\ more = docs'
      OBVIOUS
    <3>2. /\ more = Append(ds, d) /\ d.id = << name, Cardinality(Named(ds, name)) >>
          /\ d.text = P[m + 1] /\ IsList(d.text)
      BY <1>1, <1>11, <2>2, <3>1 DEF Document, DocsOf, Named
    <3>3. OneMore(ds, name, P, m, d, more)
      BY <1>8, <1>12, <1>13, <2>2, <3>1, <3>2 DEF OneMore
    <3>4. /\ Shaped(more)
          /\ DocsAre(more, name, P, Wanted(KeptIn(P), m + 1))
          /\ \A x, Q, U : x # name /\ DocsAre(ds, x, Q, U) => DocsAre(more, x, Q, U)
          /\ \A i \in DOMAIN more : (i \in DOMAIN ds /\ more[i] = ds[i]) \/ more[i] = d
      BY <3>3, OneMoreDocument
    <3>5. ASSUME NEW i \in DOMAIN more
          PROVE  \E r \in DOMAIN read :
                   read[r][1][1] = loader /\ read[r][1][2] = more[i].id[1]
      <4>1. d.id[1] = file
        BY <3>1, <3>2
      <4>2. QED
        BY <1>6, <1>12, <3>1, <3>4, <4>1
    <3>6. ASSUME NEW r \in DOMAIN read, read[r][1][1] = loader, read[r][1][2] # file
          PROVE  DocsAre(more, read[r][1][2], Pieces(o, read[r][2]),
                         KeptIn(Pieces(o, read[r][2])))
      <4>1. DocsAre(docs, read[r][1][2], Pieces(o, read[r][2]), KeptIn(Pieces(o, read[r][2])))
        BY <1>12, <3>6
      <4>2. PICK x, Q, U : x = read[r][1][2] /\ Q = Pieces(o, read[r][2]) /\ U = KeptIn(Q)
        OBVIOUS
      <4>3. x # name /\ DocsAre(ds, x, Q, U)
        BY <3>1, <3>6, <4>1, <4>2
      <4>4. DocsAre(more, x, Q, U)
        BY <3>4, <4>3
      <4>5. QED
        BY <4>2, <4>4
    <3>7. QED
      BY <1>8, <3>1, <3>4, <3>5, <3>6
  <2>3. QED
    BY <2>1, <2>2
<1>15. Documented'
  <2>1. ASSUME NEW r \in DOMAIN read, read[r][1][1] = loader
        PROVE  DocsAre(docs', read[r][1][2], Pieces(o, read[r][2]),
                       IF read[r][1][2] = file
                         THEN KeptBefore(Pieces(o, read[r][2]), o, start')
                         ELSE KeptIn(Pieces(o, read[r][2])))
    <3>1. CASE read[r][1][2] = file
      <4>1. r = r0 /\ Pieces(o, read[r][2]) = P
        BY <1>6, <1>7, <1>8, <2>1, <3>1
      <4>2. QED
        BY <1>9, <1>14, <3>1, <4>1
    <3>2. CASE read[r][1][2] # file
      BY <1>14, <2>1, <3>2
    <3>3. QED
      BY <3>1, <3>2
  <2>2. overlap' = o
    BY <1>1, <1>8
  <2>3. QED
    BY <1>1, <1>14, <2>1, <2>2 DEF Documented
<1>16. Reads'
  BY <1>1, <1>12 DEF Reads
<1>17. Shelved'
  <2>1. << loader >>[1] = loader
    OBVIOUS
  <2>2. QED
    BY <1>1, <1>2, <1>12, <2>1, ShelvedStays
<1>18. QED
  BY <1>1, <1>12, <1>14, <1>15, <1>16, <1>17 DEF IndexInv

\* The end of a file: every kept piece began before its end, so all are cut.
LEMMA DoneIndexes ==
  ASSUME CutInv, IndexInv, FileDone
  PROVE  IndexInv'
<1>1. /\ pc = "chunk" /\ start >= Len(text) /\ pc' = "file"
      /\ UNCHANGED << persistent, overlap, store, loader, files, file, text, start, docs, read >>
  BY DEF FileDone, setup, fileCut
<1>2. /\ overlap \in Overlaps /\ IsList(text) /\ loader \in Nat /\ start \in Nat
  BY LoadersAssumption DEF CutInv, Cutting, IsText, IsList
<1>3. PICK r0 \in DOMAIN read :
        read[r0][1][1] = loader /\ read[r0][1][2] = file /\ read[r0][2] = text
  BY <1>1 DEF IndexInv, Reads
<1>4. \A r \in DOMAIN read : read[r][1][1] = loader /\ read[r][1][2] = file => r = r0
  BY <1>1, <1>3 DEF IndexInv, Reads
<1>5. KeptBefore(Pieces(overlap, text), overlap, start) = KeptIn(Pieces(overlap, text))
  <2>1. PICK o, t, P, at : o = overlap /\ t = text /\ P = Pieces(overlap, text) /\ at = start
    OBVIOUS
  <2>2. o \in Overlaps /\ IsList(t) /\ P = Pieces(o, t) /\ at \in Nat /\ at >= Len(t)
    BY <1>1, <1>2, <2>1
  <2>3. /\ Len(t) \in Nat /\ KeptIn(P) \subseteq 1..Len(t)
        /\ \A n \in KeptIn(P) : (n - 1) * (ChunkSize - o) < Len(t)
    BY <2>2, KeptPieces
  <2>4. (ChunkSize - o) \in Nat
    BY <2>2, StepIsPositive
  <2>5. \A n \in KeptIn(P) : (n - 1) * (ChunkSize - o) < at
    <3>1. TAKE n \in KeptIn(P)
    <3>2. n - 1 \in Nat
      BY <2>3
    <3>3. PICK place : place = (n - 1) * (ChunkSize - o)
      OBVIOUS
    <3>4. place \in Nat
      BY <2>4, <3>2, <3>3
    <3>5. place < Len(t)
      BY <2>3, <3>3
    <3>6. QED
      BY <2>2, <2>3, <3>3, <3>4, <3>5
  <2>6. KeptBefore(P, o, at) = KeptIn(P)
    BY <2>5 DEF KeptBefore
  <2>7. QED
    BY <2>1, <2>6
<1>6. Documented'
  <2>1. ASSUME NEW r \in DOMAIN read, read[r][1][1] = loader
        PROVE  DocsAre(docs, read[r][1][2], Pieces(overlap, read[r][2]),
                       KeptIn(Pieces(overlap, read[r][2])))
    <3>1. CASE read[r][1][2] = file
      <4>1. read[r][2] = text
        BY <1>3, <1>4, <2>1, <3>1
      <4>2. DocsAre(docs, read[r][1][2], Pieces(overlap, read[r][2]),
                    KeptBefore(Pieces(overlap, read[r][2]), overlap, start))
        BY <1>1, <2>1, <3>1 DEF IndexInv, Documented
      <4>3. QED
        BY <1>5, <4>1, <4>2
    <3>2. CASE read[r][1][2] # file
      BY <1>1, <2>1, <3>2 DEF IndexInv, Documented
    <3>3. QED
      BY <3>1, <3>2
  <2>2. \A i \in DOMAIN docs : \E r \in DOMAIN read :
          read[r][1][1] = loader /\ read[r][1][2] = docs[i].id[1]
    BY <1>1 DEF IndexInv, Documented
  <2>3. QED
    BY <1>1, <2>1, <2>2 DEF Documented
<1>7. Reads'
  BY <1>1 DEF IndexInv, Reads
<1>8. Shelved'
  <2>1. /\ << loader >>[1] = loader
        /\ pc \in { "load", "file", "chunk" } /\ pc' \in { "file", "chunk" }
    BY <1>1
  <2>2. QED
    BY <1>1, <1>2, <2>1, ShelvedStays DEF IndexInv
<1>9. Shaped(docs)' /\ Shaped(store)'
  BY <1>1 DEF IndexInv
<1>10. QED
  BY <1>6, <1>7, <1>8, <1>9 DEF IndexInv

\* The loader's files are listed: nothing was read by it yet.
LEMMA ListIndexes ==
  ASSUME CutInv, IndexInv, ListFiles
  PROVE  IndexInv'
<1>1. /\ pc = "load" /\ UNCHANGED << persistent, overlap, store, loader, read >>
      /\ docs' = << >> /\ pc' \in { "file", "failed" }
  BY DEF ListFiles, Fail, setup
<1>2. CASE pc' = "failed"
  BY <1>1, <1>2, IndexLeaves
<1>3. CASE pc' = "file"
  <2>1. loader \in Nat /\ \A r \in DOMAIN read : read[r][1][1] < loader /\ read[r][1][1] \in Nat
    BY <1>1, LoadersAssumption DEF IndexInv, Reads, CutInv, Cutting
  <2>2. \A r \in DOMAIN read : read[r][1][1] # loader
    BY <2>1
  <2>3. DOMAIN docs' = {}
    BY <1>1
  <2>4. Documented'
    BY <1>1, <1>3, <2>2, <2>3 DEF Documented
  <2>5. Reads'
    BY <1>1, <1>3, <2>2 DEF IndexInv, Reads
  <2>6. Shelved'
    <3>1. << loader >>[1] = loader /\ pc \in { "load", "file", "chunk" }
          /\ pc' \in { "file", "chunk" }
      BY <1>1, <1>3
    <3>2. QED
      BY <1>1, <2>1, <3>1, ShelvedStays DEF IndexInv
  <2>7. Shaped(docs)' /\ Shaped(store)'
    BY <1>1, NothingShaped DEF IndexInv
  <2>8. QED
    BY <2>4, <2>5, <2>6, <2>7 DEF IndexInv
<1>4. QED
  BY <1>1, <1>2, <1>3

\* A pass begins, over an empty store or over what an earlier one left.
LEMMA BeginIndexes ==
  ASSUME IndexInv, Begin
  PROVE  IndexInv'
<1>1. /\ pc' = "load" /\ read' = << >> /\ docs' = docs /\ persistent' = persistent
      /\ store' = IF persistent THEN store ELSE << >>
  BY DEF Begin, StoreAtBegin, setup
<1>2. IsList(read') /\ DOMAIN read' = {}
  <2>1. << >> \in Seq({}) /\ DOMAIN << >> = {}
    OBVIOUS
  <2>2. QED
    BY <1>1, <2>1 DEF IsList
<1>3. Shaped(docs)' /\ Shaped(store)'
  BY <1>1, NothingShaped DEF IndexInv
<1>4. Reads'
  BY <1>1, <1>2 DEF Reads
<1>5. Documented'
  BY <1>1 DEF Documented
<1>6. Shelved'
  <2>1. Upserted' = {}
    BY <1>2 DEF Upserted
  <2>2. \A i \in DOMAIN store' : persistent'
    <3>1. CASE persistent
      BY <1>1, <3>1
    <3>2. CASE ~ persistent
      <4>1. DOMAIN store' = {}
        BY <1>1, <3>2
      <4>2. QED
        BY <4>1
    <3>3. QED
      BY <3>1, <3>2
  <2>3. QED
    BY <2>1, <2>2 DEF Shelved, Shelf
<1>7. QED
  BY <1>3, <1>4, <1>5, <1>6 DEF IndexInv

\* A file is read that was not read before, and nothing is cut of it yet.
LEMMA ReadIndexes ==
  ASSUME CutInv, IndexInv, ReadFile
  PROVE  IndexInv'
<1>1. PICK n \in files :
        LET slot == << loader, FilesOf[loader][n] >> IN
        \/ Fail
        \/ /\ disk[slot] # Absent
           /\ file' = slot[2] /\ text' = disk[slot] /\ start' = 0 /\ pc' = "chunk"
           /\ files' = files \ {n} /\ read' = Append(read, << slot, disk[slot] >>)
           /\ UNCHANGED << loader, docs >>
  BY Zenon DEF ReadFile
<1>2. pc = "file" /\ UNCHANGED << persistent, overlap, store >>
  BY DEF ReadFile, setup
<1>3. PICK name, slot : name = FilesOf[loader][n] /\ slot = << loader, name >>
  OBVIOUS
<1>4. CASE Fail
  <2>2. pc' = "failed" /\ docs' = << >> /\ read' = read
    BY <1>4 DEF Fail
  <2>3. QED
    BY <1>2, <2>2, IndexLeaves
<1>5. CASE ~Fail
  <2>1. PICK t : t = disk[slot]
    OBVIOUS
  <2>2. /\ file' = name /\ text' = t /\ start' = 0 /\ pc' = "chunk"
        /\ files' = files \ {n} /\ read' = Append(read, << slot, t >>)
        /\ t # Absent /\ UNCHANGED << loader, docs >>
    BY <1>1, <1>3, <1>5, <2>1
  <2>3. /\ loader \in 1..Loaders /\ loader \in Nat /\ overlap \in Overlaps
        /\ files \subseteq DOMAIN FilesOf[loader] /\ n \in DOMAIN FilesOf[loader]
        /\ \A i, j \in DOMAIN FilesOf[loader] :
             FilesOf[loader][i] = FilesOf[loader][j] => i = j
    BY <1>2, LoadersAssumption DEF CutInv, Cutting, IsInjective
  <2>4. IsList(t)
    <3>1. slot \in Slots
      BY <1>3, <2>3 DEF Slots
    <3>2. t \in Texts
      BY <2>1, <2>2, <3>1 DEF CutInv, Cutting
    <3>3. QED
      BY <3>2, TextsAreTexts DEF IsText, IsList
  <2>5. /\ \E S : read' \in Seq(S)
        /\ Len(read) \in Nat /\ DOMAIN read = 1..Len(read)
        /\ DOMAIN read' = 1..(Len(read) + 1)
        /\ read'[Len(read) + 1] = << slot, t >>
        /\ \A r \in 1..Len(read) : read'[r] = read[r]
    <3>1. \E S : read \in Seq(S)
      BY DEF IndexInv, Reads, IsList
    <3>2. PICK e : e = << slot, t >>
      OBVIOUS
    <3>3. read' = Append(read, e)
      BY <2>2, <3>2
    <3>4. /\ \E S : Append(read, e) \in Seq(S)
          /\ Len(read) \in Nat /\ DOMAIN read = 1..Len(read)
          /\ DOMAIN Append(read, e) = 1..(Len(read) + 1)
          /\ Append(read, e)[Len(read) + 1] = e
          /\ \A r \in 1..Len(read) : Append(read, e)[r] = read[r]
      BY <3>1, Appended
    <3>5. QED
      BY <3>2, <3>3, <3>4
  <2>6. PICK last : last = Len(read) + 1
    OBVIOUS
  <2>7. /\ read'[last][1][1] = loader /\ read'[last][1][2] = name /\ read'[last][2] = t
        /\ last \in DOMAIN read' /\ last \in Nat
        /\ \A r \in DOMAIN read : r < last /\ r \in DOMAIN read' /\ read'[r] = read[r]
        /\ \A r \in DOMAIN read' : r \in DOMAIN read \/ r = last
    BY <1>3, <2>5, <2>6
  <2>8. /\ \A r \in DOMAIN read : read[r][1][1] \in Nat /\ IsList(read[r][2])
        /\ \A q, r \in DOMAIN read : q < r => read[q][1][1] <= read[r][1][1]
        /\ \A q, r \in DOMAIN read :
             read[q][1][1] = read[r][1][1] /\ read[q][1][2] = read[r][1][2] => q = r
        /\ \A r \in DOMAIN read : read[r][1][1] <= loader
        /\ \A m \in files, r \in DOMAIN read :
             read[r][1][1] = loader => read[r][1][2] # FilesOf[loader][m]
    BY <1>2 DEF IndexInv, Reads
  <2>9. \A r \in DOMAIN read : read[r][1][1] = loader => read[r][1][2] # name
    BY <1>3, <2>8
  <2>10. Reads'
    <3>1. ASSUME NEW r \in DOMAIN read'
          PROVE  read'[r][1][1] \in Nat /\ IsList(read'[r][2]) /\ read'[r][1][1] <= loader
      <4>1. CASE r = last
        BY <2>3, <2>4, <2>7, <4>1
      <4>2. CASE r \in DOMAIN read
        BY <2>7, <2>8, <4>2
      <4>3. QED
        BY <2>7, <3>1, <4>1, <4>2
    <3>2. ASSUME NEW q \in DOMAIN read', NEW r \in DOMAIN read', q < r
          PROVE  read'[q][1][1] <= read'[r][1][1]
      <4>1. q \in DOMAIN read
        BY <2>5, <2>6, <2>7, <3>2
      <4>2. CASE r = last
        BY <2>7, <2>8, <4>1, <4>2
      <4>3. CASE r \in DOMAIN read
        BY <2>7, <2>8, <3>2, <4>1, <4>3
      <4>4. QED
        BY <2>7, <3>2, <4>2, <4>3
    <3>3. ASSUME NEW q \in DOMAIN read', NEW r \in DOMAIN read',
                 read'[q][1][1] = read'[r][1][1], read'[q][1][2] = read'[r][1][2]
          PROVE  q = r
      <4>1. CASE q = last /\ r = last
        BY <4>1
      <4>2. CASE q \in DOMAIN read /\ r \in DOMAIN read
        BY <2>7, <2>8, <3>3, <4>2
      <4>3. CASE q \in DOMAIN read /\ r = last
        BY <2>7, <2>9, <3>3, <4>3
      <4>4. CASE q = last /\ r \in DOMAIN read
        BY <2>7, <2>9, <3>3, <4>4
      <4>5. QED
        BY <2>7, <4>1, <4>2, <4>3, <4>4
    <3>4. ASSUME NEW m \in files', NEW r \in DOMAIN read', read'[r][1][1] = loader
          PROVE  read'[r][1][2] # FilesOf[loader][m]
      <4>1. m \in files /\ m # n /\ m \in DOMAIN FilesOf[loader]
        BY <2>2, <2>3
      <4>2. CASE r = last
        BY <1>3, <2>3, <2>7, <4>1, <4>2
      <4>3. CASE r \in DOMAIN read
        BY <2>7, <2>8, <3>4, <4>1, <4>3
      <4>4. QED
        BY <2>7, <4>2, <4>3
    <3>5. IsList(read')
      BY <2>5 DEF IsList
    <3>6. QED
      BY <2>2, <2>7, <3>1, <3>2, <3>3, <3>4, <3>5 DEF Reads
  <2>11. Documented'
    <3>1. /\ \A r \in DOMAIN read : read[r][1][1] = loader =>
               DocsAre(docs, read[r][1][2], Pieces(overlap, read[r][2]),
                       KeptIn(Pieces(overlap, read[r][2])))
          /\ \A i \in DOMAIN docs : \E r \in DOMAIN read :
               read[r][1][1] = loader /\ read[r][1][2] = docs[i].id[1]
      BY <1>2 DEF IndexInv, Documented
    <3>2. Named(docs, name) = {}
      BY <2>9, <3>1 DEF Named
    <3>3. KeptBefore(Pieces(overlap, t), overlap, 0) = {}
      <4>1. PICK o, P : o = overlap /\ P = Pieces(overlap, t)
        OBVIOUS
      <4>2. o \in Overlaps /\ P = Pieces(o, t) /\ 0 = 0 * (ChunkSize - o) /\ 0 \in Nat
        BY <2>3, <4>1, StepIsPositive
      <4>3. KeptBefore(P, o, 0) = Wanted(KeptIn(P), 0)
        BY <2>4, <4>2, KeptByRounds
      <4>4. Wanted(KeptIn(P), 0) = {}
        BY DEF Wanted
      <4>5. QED
        BY <4>1, <4>3, <4>4
    <3>4. DocsAre(docs, name, Pieces(overlap, t), {})
      BY <3>2, Zenon DEF DocsAre
    <3>5. ASSUME NEW r \in DOMAIN read', read'[r][1][1] = loader
          PROVE  DocsAre(docs, read'[r][1][2], Pieces(overlap, read'[r][2]),
                         IF read'[r][1][2] = name
                           THEN KeptBefore(Pieces(overlap, read'[r][2]), overlap, 0)
                           ELSE KeptIn(Pieces(overlap, read'[r][2])))
      <4>1. CASE r = last
        BY <2>7, <3>3, <3>4, <4>1
      <4>2. CASE r \in DOMAIN read
        <5>1. read'[r] = read[r] /\ read[r][1][1] = loader
          BY <2>7, <3>5, <4>2
        <5>2. read[r][1][2] # name
          BY <2>9, <4>2, <5>1
        <5>3. QED
          BY <3>1, <4>2, <5>1, <5>2
      <4>3. QED
        BY <2>7, <3>5, <4>1, <4>2
    <3>6. \A i \in DOMAIN docs : \E r \in DOMAIN read' :
            read'[r][1][1] = loader /\ read'[r][1][2] = docs[i].id[1]
      <4>1. TAKE i \in DOMAIN docs
      <4>2. PICK r \in DOMAIN read : read[r][1][1] = loader /\ read[r][1][2] = docs[i].id[1]
        BY <3>1
      <4>3. QED
        BY <2>7, <4>2
    <3>7. QED
      BY <1>2, <2>2, <3>5, <3>6 DEF Documented
  <2>12. Shelved'
    <3>1. slot[1] = loader
      BY <1>3
    <3>2. QED
      BY <1>2, <2>2, <2>3, <3>1, ShelvedStays DEF IndexInv
  <2>13. Shaped(docs)' /\ Shaped(store)'
    BY <1>2, <2>2 DEF IndexInv
  <2>14. QED
    BY <2>10, <2>11, <2>12, <2>13 DEF IndexInv
<1>6. QED
  BY <1>4, <1>5

\* The documents of a loader are stored, and the next loader has its turn.
LEMMA UpsertIndexes ==
  ASSUME CutInv, IndexInv, Upsert
  PROVE  IndexInv'
<1>1. /\ pc = "file" /\ UNCHANGED << persistent, overlap, read >> /\ docs' = << >>
      /\ \/ /\ store' = Put(store, docs) /\ pc' = NextLoader
            /\ loader' = Least(loader + 1, Loaders)
         \/ pc' = "failed" /\ store' = store
  BY DEF Upsert, Fail, setup
<1>2. CASE pc' = "failed" /\ store' = store
  BY <1>1, <1>2, IndexLeaves
<1>3. CASE /\ store' = Put(store, docs) /\ pc' = NextLoader
           /\ loader' = Least(loader + 1, Loaders)
  <2>1. loader \in Nat /\ Loaders \in Nat /\ loader <= Loaders /\ overlap \in Overlaps
    BY LoadersAssumption DEF CutInv, Cutting
  <2>2. \/ loader < Loaders /\ pc' = "load" /\ loader' = loader + 1
        \/ loader = Loaders /\ pc' = "ready" /\ loader' = loader
    BY <1>3, <2>1 DEF NextLoader, Least
  <2>3. /\ IsList(read)
        /\ \A r \in DOMAIN read : read[r][1][1] \in Nat /\ IsList(read[r][2])
        /\ \A q, r \in DOMAIN read : q < r => read[q][1][1] <= read[r][1][1]
        /\ \A q, r \in DOMAIN read :
             read[q][1][1] = read[r][1][1] /\ read[q][1][2] = read[r][1][2] => q = r
        /\ \A r \in DOMAIN read : read[r][1][1] <= loader
    BY <1>1 DEF IndexInv, Reads
  <2>4. PICK o, s, ds, rd, D, E, kept, len, p :
          /\ o = overlap /\ s = store /\ ds = docs /\ rd = read /\ D = Upserted
          /\ E = { r \in DOMAIN read : read[r][1][1] = loader }
          /\ kept = persistent /\ len = Len(read) /\ p = Put(store, docs)
    OBVIOUS
  <2>5. len \in Nat /\ DOMAIN read = 1..len
    BY <2>3, <2>4 DEF IsList
  <2>6. /\ D = { r \in 1..len : read[r][1][1] < loader }
        /\ E = { r \in 1..len : read[r][1][1] = loader }
    BY <1>1, <2>4, <2>5 DEF Upserted
  <2>7. /\ Shaped(s) /\ Shaped(ds) /\ p = Put(s, ds) /\ Shelf(o, s, rd, D, kept)
    BY <1>1, <2>4 DEF IndexInv, Shelved
  <2>8. \A d \in D, e \in E : d < e
    <3>1. TAKE d \in D, e \in E
    <3>2. d \in 1..len /\ e \in 1..len /\ read[d][1][1] < read[e][1][1]
      BY <2>6
    <3>3. read[d][1][1] \in Nat /\ read[e][1][1] \in Nat
      BY <2>3, <2>5, <3>2
    <3>4. SUFFICES ASSUME ~ (d < e) PROVE FALSE
      OBVIOUS
    <3>5. CASE e < d
      <4>1. read[e][1][1] <= read[d][1][1]
        BY <2>3, <2>5, <3>2, <3>5
      <4>2. QED
        BY <3>2, <3>3, <4>1
    <3>6. CASE e = d
      BY <3>2, <3>3, <3>6
    <3>7. QED
      BY <3>2, <3>4, <3>5, <3>6
  <2>9. \A e, f \in E : rd[e][1][2] = rd[f][1][2] => e = f
    BY <2>3, <2>4, <2>5, <2>6
  <2>10. /\ \A r \in DOMAIN read : read[r][1][1] = loader =>
              DocsAre(docs, read[r][1][2], Pieces(overlap, read[r][2]),
                      KeptIn(Pieces(overlap, read[r][2])))
         /\ \A i \in DOMAIN docs : \E r \in DOMAIN read :
              read[r][1][1] = loader /\ read[r][1][2] = docs[i].id[1]
    BY <1>1 DEF IndexInv, Documented
  <2>11. \A e \in E : DocsAre(ds, rd[e][1][2], Pieces(o, rd[e][2]), KeptIn(Pieces(o, rd[e][2])))
    BY <2>4, <2>10
  <2>12. \A i \in DOMAIN ds : \E e \in E : rd[e][1][2] = ds[i].id[1]
    BY <2>4, <2>10
  <2>13. \A e \in E : \A n \in KeptIn(Pieces(o, rd[e][2])) :
           Number(Pieces(o, rd[e][2]), n) < Cardinality(KeptIn(Pieces(o, rd[e][2])))
    <3>1. TAKE e \in E
    <3>2. PICK t, P : t = rd[e][2] /\ P = Pieces(o, t)
      OBVIOUS
    <3>3. o \in Overlaps /\ IsList(t)
      BY <2>1, <2>3, <2>4, <3>2
    <3>4. \A n \in KeptIn(P) : Number(P, n) < Cardinality(KeptIn(P))
      BY <3>2, <3>3, KeptPieces
    <3>5. QED
      BY <3>2, <3>4
  <2>14. D \subseteq 1..len /\ E \subseteq 1..len
    BY <2>6
  <2>15. Shelf(o, p, rd, D \cup E, kept) /\ Shaped(p)
    <3>1. Shelf(o, p, rd, D \cup E, kept)
      BY <2>5, <2>7, <2>8, <2>9, <2>11, <2>12, <2>13, <2>14, ShelfGrows
    <3>2. Shaped(p)
      BY <2>7, PutShaped
    <3>3. QED
      BY <3>1, <3>2
  <2>16. Upserted' = D \cup E
    <3>1. Upserted' = { r \in 1..len : pc' = "ready" \/ read[r][1][1] < loader' }
      BY <1>1, <2>5 DEF Upserted
    <3>2. \A r \in 1..len : read[r][1][1] \in Nat /\ read[r][1][1] <= loader
      BY <2>3, <2>5
    <3>3. \A r \in 1..len : read[r][1][1] < loader \/ read[r][1][1] = loader
      BY <2>1, <3>2
    <3>4. CASE pc' = "ready"
      <4>1. Upserted' = 1..len
        BY <3>1, <3>4
      <4>2. QED
        BY <2>6, <3>3, <4>1
    <3>5. CASE loader' = loader + 1 /\ pc' = "load"
      <4>1. \A r \in 1..len : read[r][1][1] < loader'
        BY <2>1, <3>2, <3>5
      <4>2. Upserted' = 1..len
        BY <3>1, <4>1
      <4>3. QED
        BY <2>6, <3>3, <4>2
    <3>6. QED
      BY <2>2, <3>4, <3>5
  <2>17. Shelved'
    <3>1. store' = p /\ read' = rd /\ persistent' = kept /\ overlap' = o
      BY <1>1, <1>3, <2>4
    <3>2. QED
      BY <2>15, <2>16, <3>1 DEF Shelved
  <2>18. Shaped(docs)' /\ Shaped(store)'
    BY <1>1, <1>3, <2>4, <2>15, NothingShaped
  <2>19. Reads'
    <3>1. \A r \in DOMAIN read : /\ read[r][1][1] <= loader'
                                 /\ pc' = "load" => read[r][1][1] < loader'
      BY <2>1, <2>2, <2>3
    <3>2. read' = read /\ pc' \in { "load", "ready" }
      BY <1>1, <2>2
    <3>3. QED
      BY <2>3, <3>1, <3>2 DEF Reads
  <2>20. Documented'
    BY <2>2 DEF Documented
  <2>21. QED
    BY <2>17, <2>18, <2>19, <2>20 DEF IndexInv
<1>4. QED
  BY <1>1, <1>2, <1>3

LEMMA IndexNext == CutInv /\ IndexInv /\ [Next]_vars => IndexInv'
<1> SUFFICES ASSUME CutInv, IndexInv, [Next]_vars PROVE IndexInv'
  OBVIOUS
<1>1. CASE Edit
  <2>1. UNCHANGED << persistent, overlap, store, pc, loader, files, file, text, start,
                     docs, read >>
    BY <1>1 DEF Edit, setup, fileCut
  <2>2. QED
    BY <2>1, IndexRests
<1>2. CASE Retrieve
  <2>1. pc' \in { "answered", "failed" } /\ UNCHANGED << store, docs, read >>
    BY <1>2 DEF Retrieve
  <2>2. QED
    BY <2>1, IndexLeaves
<1>3. CASE Finish
  <2>1. pc' = "idle" /\ read' = << >> /\ UNCHANGED << store, docs >>
    BY <1>3 DEF Finish
  <2>2. QED
    BY <2>1, IndexLeaves
<1>4. CASE UNCHANGED vars
  <2>1. UNCHANGED << persistent, overlap, store, pc, loader, files, file, text, start,
                     docs, read >>
    BY <1>4 DEF vars
  <2>2. QED
    BY <2>1, IndexRests
<1>5. QED
  BY <1>1, <1>2, <1>3, <1>4, BeginIndexes, ListIndexes, ReadIndexes, CutIndexes,
     DoneIndexes, UpsertIndexes DEF Next, Work

\* The chunks of a text, and the pieces of it that are kept, are the same.
LEMMA ChunksArePieces ==
  ASSUME NEW t, IsList(t)
  PROVE  /\ KeptIn(Pieces(overlap, t)) = Kept(t)
         /\ \A n \in Kept(t) : Pieces(overlap, t)[n] = Piece(t, n)
<1>1. DOMAIN Pieces(overlap, t) = DOMAIN t
  BY DEF Pieces
<1>2. \A n \in DOMAIN t : Pieces(overlap, t)[n] = Piece(t, n)
  BY DEF Pieces, Piece, Step
<1>3. QED
  BY <1>1, <1>2 DEF KeptIn, Kept

LEMMA ReadyShelf == IndexInv => LeftoversAreTails
<1> SUFFICES ASSUME IndexInv, pc = "ready" PROVE LeftoversAreTails
  BY DEF LeftoversAreTails
<1>1. /\ Shelf(overlap, store, read, DOMAIN read, persistent) /\ Shaped(store)
      /\ IsList(read) /\ \A r \in DOMAIN read : IsList(read[r][2])
  <2>1. Upserted = DOMAIN read
    BY DEF Upserted
  <2>2. QED
    BY <2>1 DEF IndexInv, Shelved, Reads
<1>2. Len(read) \in Nat /\ DOMAIN read = 1..Len(read)
  BY <1>1 DEF IsList
<1>3. \A x : Readings(read, DOMAIN read, x) = ReadFor(x)
  BY DEF Readings, ReadFor
\* The latest text of a file that was read.
<1>4. ASSUME NEW x, ReadFor(x) # {},
             NEW t, t = read[Max(ReadFor(x))][2], NEW P, P = Pieces(overlap, t)
      PROVE  /\ IsList(t) /\ Latest(overlap, read, DOMAIN read, x) = P /\ Current(x) = ChunksOf(t)
             /\ KeptIn(P) = Kept(t)
             /\ \A n \in Kept(t) : P[n] = Piece(t, n)
  <2>1. ReadFor(x) \subseteq 1..Len(read)
    BY <1>2 DEF ReadFor
  <2>2. Max(ReadFor(x)) \in DOMAIN read
    BY <1>2, <1>4, <2>1, GreatestIndex
  <2>3. IsList(t)
    BY <1>1, <1>4, <2>2
  <2>4. Latest(overlap, read, DOMAIN read, x) = P
    BY <1>3, <1>4 DEF Latest
  <2>5. QED
    BY <1>4, <2>3, <2>4, ChunksArePieces DEF Current
<1>5. ASSUME NEW r \in DOMAIN read, NEW x, x = read[r][1][2], NEW k \in DOMAIN Current(x)
      PROVE  \E i \in DOMAIN store :
               store[i].id = << x, k - 1 >> /\ store[i].text = Current(x)[k]
  <2>1. PICK t, P : t = read[Max(ReadFor(x))][2] /\ P = Pieces(overlap, t)
    OBVIOUS
  <2>2. r \in ReadFor(x)
    BY <1>5 DEF ReadFor
  <2>3. /\ IsList(t) /\ Latest(overlap, read, DOMAIN read, x) = P /\ Current(x) = ChunksOf(t)
        /\ KeptIn(P) = Kept(t)
        /\ \A n \in Kept(t) : P[n] = Piece(t, n)
    BY <1>4, <2>1, <2>2
  <2>4. PICK n \in Kept(t) :
          Cardinality(Wanted(Kept(t), n)) = k /\ Current(x)[k] = Piece(t, n)
    BY <1>5, <2>3, ChunksAreKept
  <2>5. n \in KeptIn(P) /\ Number(P, n) = k - 1 /\ P[n] = Current(x)[k]
    BY <2>3, <2>4 DEF Number
  <2>6. Holds(store, x, P)
    BY <1>1, <1>5, <2>3 DEF Shelf
  <2>7. PICK i \in DOMAIN store :
          store[i].id[1] = x /\ store[i].id[2] = Number(P, n) /\ store[i].text = P[n]
    BY <2>5, <2>6 DEF Holds
  <2>8. store[i].id = << store[i].id[1], store[i].id[2] >>
    BY <1>1 DEF Shaped
  <2>9. QED
    BY <2>5, <2>7, <2>8
<1>6. ASSUME NEW i \in DOMAIN store, NEW x, x = store[i].id[1]
      PROVE  IF ReadFor(x) = {} THEN persistent
             ELSE \/ store[i].id[2] < Len(Current(x))
                  \/ persistent \/ Cardinality(ReadFor(x)) > 1
  <2>1. \/ persistent
        \/ Cardinality(ReadFor(x)) > 1
        \/ /\ ReadFor(x) # {}
           /\ store[i].id[2] < Cardinality(KeptIn(Latest(overlap, read, DOMAIN read, x)))
    BY <1>1, <1>3, <1>6 DEF Shelf
  <2>2. CASE ReadFor(x) = {}
    <3>1. Cardinality(ReadFor(x)) = 0
      BY <2>2, FS_EmptySet
    <3>2. QED
      BY <2>1, <2>2, <3>1
  <2>3. CASE ReadFor(x) # {}
    <3>1. PICK t, P : t = read[Max(ReadFor(x))][2] /\ P = Pieces(overlap, t)
      OBVIOUS
    <3>2. /\ IsList(t) /\ Latest(overlap, read, DOMAIN read, x) = P /\ Current(x) = ChunksOf(t)
          /\ KeptIn(P) = Kept(t)
      BY <1>4, <2>3, <3>1
    <3>3. Len(Current(x)) = Cardinality(KeptIn(P))
      BY <3>2, ChunksAreKept
    <3>4. QED
      BY <2>1, <2>3, <3>2, <3>3
  <2>4. QED
    BY <2>2, <2>3
<1>7. ASSUME NEW r \in DOMAIN read
      PROVE  LET name == read[r][1][2] IN
             \A n \in DOMAIN Current(name) :
               \E i \in DOMAIN store :
                 store[i].id = << name, n - 1 >> /\ store[i].text = Current(name)[n]
  <2>1. PICK x : x = read[r][1][2]
    OBVIOUS
  <2>2. \A k \in DOMAIN Current(x) : \E i \in DOMAIN store :
          store[i].id = << x, k - 1 >> /\ store[i].text = Current(x)[k]
    BY <1>5, <2>1
  <2>3. QED
    BY <2>1, <2>2, Zenon
<1>8. ASSUME NEW i \in DOMAIN store
      PROVE  LET name == store[i].id[1] IN
             IF ReadFor(name) = {} THEN persistent
             ELSE \/ store[i].id[2] < Len(Current(name))
                  \/ persistent \/ Cardinality(ReadFor(name)) > 1
  <2>1. PICK x : x = store[i].id[1]
    OBVIOUS
  <2>2. IF ReadFor(x) = {} THEN persistent
        ELSE \/ store[i].id[2] < Len(Current(x))
             \/ persistent \/ Cardinality(ReadFor(x)) > 1
    BY <1>6, <2>1
  <2>3. QED
    BY <2>1, <2>2, Zenon
<1>9. QED
  BY <1>7, <1>8, Zenon DEF LeftoversAreTails

LEMMA IndexHolds == Spec => [](CutInv /\ IndexInv)
<1>1. Init => CutInv /\ IndexInv
  BY CutInit, IndexInit
<1>2. (CutInv /\ IndexInv) /\ [Next]_vars => (CutInv /\ IndexInv)'
  BY CutNext, IndexNext
<1>3. QED
  BY <1>1, <1>2, PTL DEF Spec

\* After a pass the store holds every chunk of the text last read for each
\* file, under its id, and what else it holds is left over from a longer text,
\* an earlier loader or, in a store that outlives the analysis, from before.
THEOREM PassesIndexWhatWasRead == Spec => []LeftoversAreTails
<1>1. QED
  BY IndexHolds, ReadyShelf, PTL

\* A retrieval is of the store as it is then, and no step but the end of the
\* analysis touches the answer or the store after it.
LEMMA AnswersAreBest ==
  ASSUME IndexInv, AnswerIsTopK, [Next]_vars
  PROVE  AnswerIsTopK'
<1>1. CASE Retrieve
  <2>1. CASE pc' # "answered"
    BY <2>1 DEF AnswerIsTopK
  <2>2. CASE pc' = "answered"
    <3>1. PICK query \in Queries, k \in Ks : \E got \in Answers(query, k) :
            answer' = [ query |-> query, k |-> k, chunks |-> got ]
      BY <1>1, <2>2 DEF Retrieve
    <3>2. PICK got \in Answers(query, k) :
            answer' = [ query |-> query, k |-> k, chunks |-> got ]
      BY <3>1
    <3>3. store' = store /\ chroma' = chroma /\ k \in Int
      BY <1>1, KsAssumption DEF Retrieve, setup
    <3>4. answer'.query = query /\ answer'.k = k /\ answer'.chunks = got
      BY <3>2
    <3>5. Scorable
      BY DEF IndexInv, Shaped, Scorable
    <3>6. Len(store) \in Nat /\ DOMAIN store = 1..Len(store)
      BY <3>5 DEF Scorable, IsList
    <3>7. CASE store = << >>
      <4>1. got = << >> /\ Len(got) = 0 /\ DOMAIN got = {} /\ Len(store) = 0 /\ DOMAIN store = {}
        BY <3>2, <3>7 DEF Answers
      <4>2. k >= 0 => Least(k, Len(store)) = 0
        BY <3>3, <4>1 DEF Least
      <4>3. QED
        BY <3>3, <3>4, <4>1, <4>2 DEF AnswerIsTopK
    <3>8. CASE store # << >> /\ chroma
      <4>1. got \in Searched(k)
        BY <3>2, <3>8 DEF Answers
      <4>2. /\ \A n \in DOMAIN got : \E i \in DOMAIN store : got[n] = store[i]
            /\ \A m, n \in DOMAIN got : got[m].id = got[n].id => m = n
            /\ k >= 0 => Len(got) <= k
        BY <3>3, <3>5, <4>1, SearchedAreEntries
      <4>3. QED
        BY <3>3, <3>4, <3>8, <4>2 DEF AnswerIsTopK
    <3>9. CASE store # << >> /\ ~chroma
      <4>1. got = Retrieved(query, k)
        BY <3>2, <3>9 DEF Answers
      <4>2. CASE query = Space
        <5>1. got = << >> /\ Len(got) = 0 /\ DOMAIN got = {}
          BY <4>1, <4>2 DEF Retrieved
        <5>2. QED
          BY <3>3, <3>4, <4>2, <5>1 DEF AnswerIsTopK
      <4>3. CASE query # Space
        <5>1. BestOf(got, query, k)
          BY <3>3, <3>5, <4>1, <4>3, RetrievedIsBest
        <5>2. k >= 0 => Len(got) <= k
          <6>1. Least(k, Len(store)) <= k
            BY <3>3, <3>6 DEF Least
          <6>2. QED
            BY <5>1, <6>1 DEF BestOf
        <5>3. QED
          BY <3>3, <3>4, <5>1, <5>2 DEF AnswerIsTopK, BestOf
      <4>4. QED
        BY <4>2, <4>3
    <3>10. QED
      BY <3>7, <3>8, <3>9
  <2>3. QED
    BY <2>1, <2>2
<1>2. CASE UNCHANGED << pc, store, answer, chroma >>
  BY <1>2 DEF AnswerIsTopK
<1>3. CASE pc' # "answered"
  BY <1>3 DEF AnswerIsTopK
<1>4. [Next]_vars => Retrieve \/ UNCHANGED << pc, store, answer, chroma >> \/ pc' # "answered"
  BY DEF Next, Work, Edit, Begin, ListFiles, Fail, ReadFile, CutWindow, FileDone, Upsert,
         NextLoader, Finish, setup, vars
<1>5. QED
  BY <1>1, <1>2, <1>3, <1>4

\* A retrieval returns entries of the store, each once and no more than k; the
\* memory store's are the k best, best first, or all when there are fewer.
THEOREM RetrievalsReturnTheBest == Spec => []AnswerIsTopK
<1>1. Init => AnswerIsTopK
  BY Zenon DEF Init, AnswerIsTopK
<1>2. IndexInv /\ AnswerIsTopK /\ [Next]_vars => AnswerIsTopK'
  BY AnswersAreBest
<1>3. QED
  BY <1>1, <1>2, IndexHolds, PTL DEF Spec
=============================================================================
