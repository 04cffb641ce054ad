--------------------------- MODULE AuditLogProofs ---------------------------
(***************************************************************************)
(* Proofs about AuditLog: a log always verifies itself, verify_chain finds *)
(* every alteration of one that did, and the file holds the events of each *)
(* run in order, so that what is missing shows, for any contents and       *)
(* length, whatever writes failed and however the runs interleave.         *)
(***************************************************************************)
EXTENDS AuditLog, FiniteSetTheorems, TLAPS

\* The next entry is an entry, and carries on a chain that verifies.
LEMMA NextEntryExtends ==
  ASSUME NEW events \in Seq(Entries), NEW content \in Contents
  PROVE  /\ NextEntry(events, content) \in Entries
         /\ VerifyChain(events) => VerifyChain(Append(events, NextEntry(events, content)))
<1> DEFINE n == Len(events)
           entry == NextEntry(events, content)
           longer == Append(events, entry)
<1>1. n \in Nat /\ Link(events) \in Hashes
  <2>1. CASE events = << >>
      BY <2>1 DEF Link, Genesis, Hashes
  <2>2. CASE events # << >>
    <3>1. n \in Nat /\ events[n] \in Entries
        BY <2>2
    <3> QED
        BY <2>2, <3>1 DEF Link, Entries
  <2> QED
      BY <2>1, <2>2
<1>2. entry.seq = n /\ entry.content = content /\ entry.prev = Link(events)
      /\ entry.hash = Hash(n, content, Link(events))
    BY DEF NextEntry, Entry
<1>3. Hash(n, content, Link(events)) \in Hashes
    BY <1>1 DEF Hash, Hashes
<1>4. entry \in Entries
    BY <1>1, <1>3 DEF NextEntry, Entry, Entries
<1>5. ASSUME VerifyChain(events) PROVE VerifyChain(longer)
  <2>1. /\ DOMAIN longer = 1 .. (n + 1)
        /\ longer[n + 1] = entry
        /\ \A i \in 1 .. n : longer[i] = events[i]
      BY <1>1, <1>4
  <2> SUFFICES ASSUME NEW i \in DOMAIN longer
               PROVE  /\ longer[i].seq = i - 1
                      /\ longer[i].prev = IF i = 1 THEN Genesis ELSE longer[i - 1].hash
                      /\ longer[i].hash = Hash(longer[i].seq, longer[i].content, longer[i].prev)
      BY DEF VerifyChain
  <2>2. CASE i = n + 1
    <3>1. Link(events) = IF i = 1 THEN Genesis ELSE longer[i - 1].hash
        BY <1>1, <2>1, <2>2 DEF Link
    <3>2. longer[i] = entry /\ i - 1 = n
        BY <1>1, <2>1, <2>2
    <3> HIDE DEF entry, longer, n
    <3> QED
        BY <1>2, <3>1, <3>2
  <2>3. CASE i # n + 1
    <3>1. i \in 1 .. n /\ i \in DOMAIN events /\ longer[i] = events[i]
          /\ (i # 1 => longer[i - 1] = events[i - 1])
        BY <1>1, <2>1, <2>3
    <3> HIDE DEF longer
    <3> QED
        BY <1>5, <3>1 DEF VerifyChain
  <2> QED
      BY <2>2, <2>3
<1> QED
    BY <1>4, <1>5

LEMMA LogInit == Init => TypeOK /\ MemoryVerifies
<1>1. DOMAIN << >> = {}
    OBVIOUS
<1>2. VerifyChain(<< >>)
    BY <1>1 DEF VerifyChain
<1>3. \A S : << >> \in Seq(S)
    OBVIOUS
<1> SUFFICES ASSUME Init PROVE TypeOK /\ MemoryVerifies
    OBVIOUS
<1>4. \A r \in Runs : memory[r] = << >>
    BY DEF Init
<1>5. memory \in [Runs -> Seq(Entries)]
    BY <1>3 DEF Init
<1>6. file \in Seq([run : Runs, entry : Entries \cup {Fragment}]) /\ torn \in BOOLEAN
    BY <1>3 DEF Init
<1>7. MemoryVerifies
    BY <1>2, <1>4, Zenon DEF MemoryVerifies
<1> QED
    BY <1>5, <1>6, <1>7 DEF TypeOK

LEMMA LogStep == TypeOK /\ MemoryVerifies /\ [Next]_vars => (TypeOK /\ MemoryVerifies)'
<1> SUFFICES ASSUME TypeOK, MemoryVerifies, [Next]_vars PROVE TypeOK' /\ MemoryVerifies'
    OBVIOUS
<1>1. ASSUME NEW r \in Runs, NEW content \in Contents, AppendEvent(r, content)
      PROVE  TypeOK' /\ MemoryVerifies'
  <2> DEFINE entry == NextEntry(memory[r], content)
  <2>1. /\ entry \in Entries
        /\ VerifyChain(memory[r]) => VerifyChain(Append(memory[r], entry))
      BY NextEntryExtends DEF TypeOK
  <2> HIDE DEF entry
  <2>2. /\ memory' = [memory EXCEPT ![r] = Append(@, entry)]
        /\ WriteLine(r, entry) \/ WriteFails(r)
      BY <1>1 DEF AppendEvent, entry
  <2>3. memory' \in [Runs -> Seq(Entries)]
      BY <2>1, <2>2 DEF TypeOK
  <2>4. torn' \in BOOLEAN
      BY <2>2 DEF TypeOK, WriteLine, WriteFails
  <2>5. file' \in Seq([run : Runs, entry : Entries \cup {Fragment}])
    <3> DEFINE Lines == [run : Runs, entry : Entries \cup {Fragment}]
    <3>1. Line(r, entry) \in Lines /\ Line(r, Fragment) \in Lines /\ file \in Seq(Lines)
        BY <2>1 DEF Line, TypeOK
    <3>2. file' = file \/ \E line \in Lines : file' = Append(file, line)
        BY <2>2, <3>1 DEF WriteLine, WriteFails
    <3> HIDE DEF Lines
    <3>3. file' \in Seq(Lines)
        BY <3>1, <3>2
    <3> QED
        BY <3>3 DEF Lines
  <2>6. MemoryVerifies'
      BY <2>1, <2>2 DEF TypeOK, MemoryVerifies
  <2> QED
      BY <2>3, <2>4, <2>5, <2>6 DEF TypeOK
<1>2. CASE UNCHANGED vars
    BY <1>2 DEF vars, TypeOK, MemoryVerifies
<1> QED
    BY <1>1, <1>2 DEF Next

\* Type correctness, for any runs, contents and number of events.
THEOREM LogTypeCorrectness == Spec => []TypeOK
<1>1. TypeOK /\ MemoryVerifies => TypeOK
    OBVIOUS
<1> QED
    BY <1>1, LogInit, LogStep, PTL DEF Spec

\* A log always verifies itself, also after writes that failed.
THEOREM LogVerifies == Spec => []MemoryVerifies
  BY LogInit, LogStep, PTL DEF Spec

\* Appending at the end of a sequence is an extension of it.
LEMMA AppendExtends ==
  \A S : \A s \in Seq(S), e \in S : IsPrefix(s, Append(s, e)) /\ IsPrefix(s, s)
  BY DEF IsPrefix

\* Neither a log nor the file is ever rewritten.
THEOREM LogIsAppendOnly == Spec => AppendOnly
<1> DEFINE Grows == IsPrefix(file, file') /\ \A r \in Runs : IsPrefix(memory[r], memory'[r])
<1>1. TypeOK /\ [Next]_vars => [Grows]_vars
  <2> SUFFICES ASSUME TypeOK, NEW r \in Runs, NEW content \in Contents, AppendEvent(r, content)
               PROVE  Grows
      BY DEF Next
  <2> DEFINE entry == NextEntry(memory[r], content)
             Lines == [run : Runs, entry : Entries \cup {Fragment}]
  <2>1. entry \in Entries
      BY NextEntryExtends DEF TypeOK
  <2> HIDE DEF entry
  <2>2. /\ memory' = [memory EXCEPT ![r] = Append(@, entry)]
        /\ WriteLine(r, entry) \/ WriteFails(r)
      BY DEF AppendEvent, entry
  <2>3. Line(r, entry) \in Lines /\ Line(r, Fragment) \in Lines /\ file \in Seq(Lines)
      BY <2>1 DEF Line, TypeOK
  <2>4. file' = file \/ \E line \in Lines : file' = Append(file, line)
      BY <2>2, <2>3 DEF WriteLine, WriteFails
  <2> HIDE DEF Lines
  <2>5. IsPrefix(file, file')
      BY <2>3, <2>4, AppendExtends
  <2>6. \A k \in Runs : IsPrefix(memory[k], memory'[k])
    <3> SUFFICES ASSUME NEW k \in Runs PROVE IsPrefix(memory[k], memory'[k])
        OBVIOUS
    <3>1. memory[k] \in Seq(Entries)
          /\ (memory'[k] = memory[k] \/ memory'[k] = Append(memory[k], entry))
        BY <2>2 DEF TypeOK
    <3> QED
        BY <2>1, <3>1, AppendExtends
  <2> QED
      BY <2>5, <2>6
<1> QED
    BY <1>1, LogTypeCorrectness, PTL DEF Spec, AppendOnly

----------------------------------------------------------------------------
(* verify_chain.                                                            *)

\* A hash stands for one payload only.
LEMMA HashInjective ==
  ASSUME NEW s \in Nat, NEW c \in Contents, NEW d \in Contents, NEW p \in Hashes,
         Hash(s, c, p) = Hash(s, d, p)
  PROVE  c = d
<1>1. Hash(s, c, p)[Len(p) + 1] = << s, c >> /\ Hash(s, d, p)[Len(p) + 1] = << s, d >>
    BY DEF Hash, Hashes
<1> QED
    BY <1>1

\* What verify_chain finds in any log that verified: a changed entry, and the
\* removal or exchange of entries that others follow.
LEMMA ChainBreaks ==
  ASSUME NEW events \in Seq(Entries), VerifyChain(events), NEW i \in DOMAIN events
  PROVE  /\ \A content \in Contents \ {events[i].content} :
              ~ VerifyChain([events EXCEPT ![i].content = content])
         /\ i < Len(events) => ~ VerifyChain(RemoveAt(events, i))
         /\ i < Len(events) =>
              ~ VerifyChain([events EXCEPT ![i] = events[i + 1], ![i + 1] = events[i]])
<1>1. i \in 1 .. Len(events) /\ Len(events) \in Nat /\ events[i] \in Entries
      /\ (i < Len(events) => events[i + 1] \in Entries /\ events[i + 1].seq = i)
    BY DEF VerifyChain
<1>2. ASSUME NEW content \in Contents \ {events[i].content}
      PROVE  ~ VerifyChain([events EXCEPT ![i].content = content])
  <2> DEFINE altered == [events EXCEPT ![i].content = content]
  <2>1. /\ altered[i].seq = events[i].seq /\ altered[i].prev = events[i].prev
        /\ altered[i].hash = events[i].hash /\ altered[i].content = content
        /\ i \in DOMAIN altered
      BY <1>1 DEF Entries
  <2> HIDE DEF altered
  <2>2. events[i].hash = Hash(events[i].seq, events[i].content, events[i].prev)
      BY DEF VerifyChain
  <2>3. ASSUME VerifyChain(altered) PROVE FALSE
    <3>1. events[i].hash = Hash(events[i].seq, content, events[i].prev)
        BY <2>1, <2>3 DEF VerifyChain
    <3> QED
        BY <1>1, <2>2, <3>1, HashInjective DEF Entries
  <2> QED
      BY <2>3 DEF altered
<1>3. ASSUME i < Len(events) PROVE ~ VerifyChain(RemoveAt(events, i))
  <2> DEFINE shorter == RemoveAt(events, i)
  <2>1. i \in DOMAIN shorter /\ shorter[i] = events[i + 1]
    <3> DEFINE before == SubSeq(events, 1, i - 1)
               after  == SubSeq(events, i + 1, Len(events))
    <3>1. /\ before \in Seq(Entries) /\ Len(before) = i - 1
          /\ after \in Seq(Entries) /\ Len(after) = Len(events) - i
          /\ after[1] = events[i + 1]
        BY <1>1, <1>3
    <3>2. shorter = before \o after
        BY DEF RemoveAt
    <3> HIDE DEF before, after, shorter
    <3> QED
        BY <1>1, <1>3, <3>1, <3>2
  <2> HIDE DEF shorter
  <2> QED
      BY <1>1, <1>3, <2>1 DEF VerifyChain, shorter
<1>4. ASSUME i < Len(events)
      PROVE  ~ VerifyChain([events EXCEPT ![i] = events[i + 1], ![i + 1] = events[i]])
  <2> DEFINE swapped == [events EXCEPT ![i] = events[i + 1], ![i + 1] = events[i]]
  <2>1. i \in DOMAIN swapped /\ swapped[i] = events[i + 1]
      BY <1>1, <1>4
  <2> HIDE DEF swapped
  <2> QED
      BY <1>1, <1>4, <2>1 DEF VerifyChain, swapped
<1> QED
    BY <1>2, <1>3, <1>4

\* Every log the program keeps has the property the documents promise.
THEOREM AlterationsShow == Spec => []AlterationShows
<1>1. TypeOK /\ MemoryVerifies => AlterationShows
  <2> SUFFICES ASSUME TypeOK, MemoryVerifies, NEW r \in Runs, NEW i \in DOMAIN memory[r]
               PROVE  /\ \A content \in Contents \ {memory[r][i].content} :
                           ~ VerifyChain([memory[r] EXCEPT ![i].content = content])
                      /\ i < Len(memory[r]) => ~ VerifyChain(RemoveAt(memory[r], i))
                      /\ i < Len(memory[r]) =>
                           ~ VerifyChain([memory[r] EXCEPT ![i] = memory[r][i + 1],
                                                           ![i + 1] = memory[r][i]])
      BY DEF AlterationShows
  <2>1. memory[r] \in Seq(Entries) /\ VerifyChain(memory[r])
      BY DEF TypeOK, MemoryVerifies
  <2> QED
      BY <2>1, ChainBreaks
<1> QED
    BY <1>1, LogTypeCorrectness, LogVerifies, PTL

----------------------------------------------------------------------------
(* The file.  Whatever was lost, the lines of a run are events of its log,  *)
(* in order, and each place among them is taken by exactly one line.        *)

Kept(r) ==
  \A i \in Held(r) : LET entry == file[i].entry IN
    entry.seq + 1 \in DOMAIN memory[r] /\ entry = memory[r][entry.seq + 1]

InOrder(r) == \A i, j \in Held(r) : i < j => file[i].entry.seq < file[j].entry.seq

Ranked(r) ==
  /\ IsFiniteSet(Held(r))
  /\ \A k \in 1 .. Cardinality(Held(r)) : \E i \in Held(r) : Cardinality(Before(r, i)) = k - 1

FileInv == \A r \in Runs : Kept(r) /\ InOrder(r) /\ Ranked(r)

Lines == [run : Runs, entry : Entries \cup {Fragment}]

LEMMA HeldType ==
  ASSUME TypeOK, NEW r, NEW i \in Held(r)
  PROVE  /\ i \in 1 .. Len(file) /\ i \in Nat /\ Len(file) \in Nat
         /\ file[i].entry \in Entries /\ file[i].entry.seq \in Nat
<1>1. file \in Seq([run : Runs, entry : Entries \cup {Fragment}])
    BY DEF TypeOK
<1>2. i \in DOMAIN file /\ file[i].entry # Fragment
    BY DEF Held
<1>3. i \in 1 .. Len(file) /\ file[i] \in Lines
  <2>1. file \in Seq(Lines)
      BY <1>1 DEF Lines
  <2> HIDE DEF Lines
  <2>2. DOMAIN file = 1 .. Len(file)
      BY <2>1
  <2>3. i \in 1 .. Len(file)
      BY <1>2, <2>2
  <2>4. file[i] \in Lines
      BY <2>1, <2>3
  <2> QED
      BY <2>3, <2>4
<1>4. file[i].entry \in Entries
    BY <1>2, <1>3 DEF Lines
<1> QED
    BY <1>1, <1>3, <1>4 DEF Entries

\* What one more line does to the lines of a run.
LEMMA HeldAppended ==
  ASSUME TypeOK, NEW line \in Lines, file' = Append(file, line), NEW n, n = Len(file), NEW r
  PROVE  /\ Held(r)' = IF line.run = r /\ line.entry # Fragment THEN Held(r) \cup {n + 1} ELSE Held(r)
         /\ file'[n + 1] = line /\ \A i \in Held(r) : file'[i] = file[i]
         /\ n + 1 \notin Held(r) /\ \A i \in Held(r) : i < n + 1 /\ i # n + 1
         /\ \A i \in Held(r) : Before(r, i)' = Before(r, i)
         /\ Before(r, n + 1)' = Held(r)
<1>1. n \in Nat /\ file \in Seq(Lines) /\ DOMAIN file = 1 .. n
    BY DEF TypeOK, Lines
<1>2. /\ DOMAIN Append(file, line) = 1 .. (n + 1) /\ Append(file, line)[n + 1] = line
      /\ \A i \in 1 .. n : Append(file, line)[i] = file[i]
  <2> HIDE DEF Lines
  <2> QED
      BY <1>1
<1>3. \A i : i \in 1 .. (n + 1) <=> (i \in 1 .. n \/ i = n + 1)
    BY <1>1
<1>4. Held(r)' = IF line.run = r /\ line.entry # Fragment THEN Held(r) \cup {n + 1} ELSE Held(r)
    BY <1>1, <1>2, <1>3 DEF Held
<1>5. Held(r) \subseteq 1 .. n
    BY <1>1 DEF Held
<1>6. n + 1 \notin Held(r) /\ \A i \in Held(r) : i < n + 1 /\ i # n + 1 /\ i \in Nat
    BY <1>1, <1>5
<1>7. \A i \in Held(r) : ~ (n + 1 < i)
    BY <1>1, <1>6
<1>8. ~ (n + 1 < n + 1)
    BY <1>1
<1>9. /\ \A i \in Held(r) : Before(r, i)' = Before(r, i)
      /\ Before(r, n + 1)' = Held(r)
    BY <1>4, <1>6, <1>7, <1>8 DEF Before
<1> QED
    BY <1>1, <1>2, <1>4, <1>5, <1>6, <1>9

LEMMA RankedAppended ==
  ASSUME TypeOK, NEW line \in Lines, file' = Append(file, line), NEW r, Ranked(r)
  PROVE  Ranked(r)'
<1>1. PICK n : n = Len(file)
    OBVIOUS
<1>2. CASE Held(r)' = Held(r)
    BY <1>1, <1>2, HeldAppended DEF Ranked
<1>3. CASE Held(r)' = Held(r) \cup {n + 1}
  <2>1. PICK m : m = Cardinality(Held(r)) /\ m \in Nat
      BY FS_CardinalityType DEF Ranked
  <2>2. IsFiniteSet(Held(r))' /\ Cardinality(Held(r))' = m + 1
      BY <1>1, <1>3, <2>1, HeldAppended, FS_AddElement DEF Ranked
  <2> SUFFICES ASSUME NEW k \in 1 .. (m + 1)
               PROVE  \E i \in Held(r)' : Cardinality(Before(r, i)') = k - 1
      BY <2>2 DEF Ranked
  <2>3. CASE k = m + 1
    <3>1. Cardinality(Before(r, n + 1)') = m /\ m = k - 1
        BY <1>1, <2>1, <2>3, HeldAppended
    <3> QED
        BY <1>3, <3>1
  <2>4. CASE k # m + 1
    <3>1. k \in 1 .. m
        BY <2>1, <2>4
    <3>2. PICK i \in Held(r) : Cardinality(Before(r, i)) = k - 1
        BY <2>1, <3>1 DEF Ranked
    <3>3. Cardinality(Before(r, i)') = k - 1
        BY <1>1, <3>2, HeldAppended
    <3> QED
        BY <1>3, <3>3
  <2> QED
      BY <2>3, <2>4
<1> QED
    BY <1>1, <1>2, <1>3, HeldAppended

LEMMA FileStep == TypeOK /\ FileInv /\ [Next]_vars => FileInv'
<1> SUFFICES ASSUME TypeOK, FileInv, [Next]_vars PROVE FileInv'
    OBVIOUS
<1>1. CASE UNCHANGED vars
    BY <1>1 DEF vars, FileInv, Kept, InOrder, Ranked, Held, Before
<1>2. ASSUME NEW w \in Runs, NEW content \in Contents, AppendEvent(w, content) PROVE FileInv'
  <2>1. PICK log : log = memory[w] /\ log \in Seq(Entries)
      BY DEF TypeOK
  <2>2. PICK entry : entry = NextEntry(memory[w], content)
      OBVIOUS
  <2>3. entry \in Entries /\ entry.seq = Len(log)
      BY <2>1, <2>2, NextEntryExtends DEF NextEntry, Entry
  <2>4. /\ memory' = [memory EXCEPT ![w] = Append(log, entry)]
        /\ WriteLine(w, entry) \/ WriteFails(w)
      BY <1>2, <2>1, <2>2 DEF AppendEvent
  <2>5. /\ \A r \in Runs : r # w => memory'[r] = memory[r]
        /\ memory'[w] = Append(log, entry)
      BY <2>4 DEF TypeOK
  <2>6. /\ DOMAIN Append(log, entry) = 1 .. (Len(log) + 1) /\ DOMAIN log = 1 .. Len(log)
        /\ Append(log, entry)[Len(log) + 1] = entry /\ Len(log) \in Nat
        /\ \A k \in DOMAIN log : k \in DOMAIN Append(log, entry) /\ Append(log, entry)[k] = log[k]
      BY <2>1, <2>3
  <2>7. \A r \in Runs : \A k \in DOMAIN memory[r] :
          k \in DOMAIN memory'[r] /\ memory'[r][k] = memory[r][k]
      BY <2>1, <2>5, <2>6
  <2>8. CASE file' = file
    <3> SUFFICES ASSUME NEW r \in Runs PROVE Kept(r)' /\ InOrder(r)' /\ Ranked(r)'
        BY DEF FileInv
    <3>1. Held(r)' = Held(r) /\ \A i : Before(r, i)' = Before(r, i)
        BY <2>8 DEF Held, Before
    <3>2. Kept(r)'
        BY <2>7, <2>8, <3>1 DEF FileInv, Kept
    <3>3. InOrder(r)' /\ Ranked(r)'
        BY <2>8, <3>1 DEF FileInv, InOrder, Ranked
    <3> QED
        BY <3>2, <3>3
  <2>9. CASE \E line \in Lines : file' = Append(file, line)
                                  /\ (line.entry # Fragment => line = Line(w, entry))
    <3>1. PICK line \in Lines : /\ file' = Append(file, line)
                                /\ line.entry # Fragment => line.run = w /\ line.entry = entry
        BY <2>9 DEF Line
    <3>2. PICK n : n = Len(file)
        OBVIOUS
    <3> SUFFICES ASSUME NEW r \in Runs PROVE Kept(r)' /\ InOrder(r)' /\ Ranked(r)'
        BY DEF FileInv
    <3>3. Kept(r) /\ InOrder(r) /\ Ranked(r)
        BY DEF FileInv
    <3>4. Ranked(r)'
        BY <3>1, <3>3, RankedAppended
    <3>5. /\ file'[n + 1] = line /\ \A i \in Held(r) : file'[i] = file[i]
          /\ \A i \in Held(r) : i < n + 1 /\ ~ (n + 1 < i)
          /\ ~ (n + 1 < n + 1)
        BY <3>1, <3>2, HeldAppended, HeldType DEF TypeOK
    <3>6. \A i \in Held(r) :
            /\ file[i].entry.seq + 1 \in DOMAIN memory'[r]
            /\ file[i].entry = memory'[r][file[i].entry.seq + 1]
        BY <2>7, <3>3 DEF Kept
    <3>7. CASE Held(r)' = Held(r)
        BY <3>3, <3>4, <3>5, <3>6, <3>7 DEF Kept, InOrder
    <3>8. CASE Held(r)' = Held(r) \cup {n + 1} /\ line.run = r /\ line.entry # Fragment
      <4>1. r = w /\ line.entry = entry
          BY <3>1, <3>8
      <4>2. Kept(r)'
          BY <2>3, <2>5, <2>6, <3>5, <3>6, <3>8, <4>1 DEF Kept
      <4>3. \A i \in Held(r) : file[i].entry.seq < entry.seq
          BY <2>1, <2>3, <2>6, <3>3, <4>1, HeldType DEF Kept
      <4>4. InOrder(r)'
          BY <3>3, <3>5, <3>8, <4>1, <4>3 DEF InOrder
      <4> QED
          BY <3>4, <4>2, <4>4
    <3> QED
        BY <3>1, <3>2, <3>7, <3>8, HeldAppended
  <2>10. Line(w, entry) \in Lines /\ Line(w, Fragment) \in Lines /\ Line(w, Fragment).entry = Fragment
      BY <2>3 DEF Line, Lines
  <2> QED
      BY <2>4, <2>8, <2>9, <2>10 DEF WriteLine, WriteFails
<1> QED
    BY <1>1, <1>2 DEF Next

LEMMA FileInit == Init => FileInv
<1> SUFFICES ASSUME Init, NEW r \in Runs PROVE Kept(r) /\ InOrder(r) /\ Ranked(r)
    BY DEF FileInv
<1>1. Held(r) = {}
    BY DEF Held, Init
<1> QED
    BY <1>1, FS_EmptySet DEF Kept, InOrder, Ranked

\* The k-th event a run has on file is that of one line, and later events are
\* on later lines.
LEMMA OnFileIs ==
  ASSUME TypeOK, NEW r \in Runs, Ranked(r)
  PROVE  /\ DOMAIN OnFile(r) = 1 .. Cardinality(Held(r)) /\ Cardinality(Held(r)) \in Nat
         /\ \A k \in DOMAIN OnFile(r) : LineOf(r, k) \in Held(r) /\ OnFile(r)[k] = file[LineOf(r, k)].entry
         /\ \A k, m \in DOMAIN OnFile(r) : k < m => LineOf(r, k) < LineOf(r, m)
<1>1. DOMAIN OnFile(r) = 1 .. Cardinality(Held(r)) /\ Cardinality(Held(r)) \in Nat
    BY FS_CardinalityType DEF OnFile, Ranked
<1>2. \A k \in DOMAIN OnFile(r) :
        LineOf(r, k) \in Held(r) /\ Cardinality(Before(r, LineOf(r, k))) = k - 1
    BY <1>1 DEF Ranked, LineOf
<1>3. ASSUME NEW k \in DOMAIN OnFile(r), NEW m \in DOMAIN OnFile(r), k < m
      PROVE  LineOf(r, k) < LineOf(r, m)
  <2>1. PICK i, j : i = LineOf(r, k) /\ j = LineOf(r, m)
      OBVIOUS
  <2>2. /\ i \in Held(r) /\ j \in Held(r) /\ i \in Nat /\ j \in Nat
        /\ Cardinality(Before(r, i)) = k - 1 /\ Cardinality(Before(r, j)) = m - 1
      BY <1>2, <2>1, HeldType
  <2>3. ASSUME ~ (i < j) PROVE FALSE
    <3>1. Before(r, j) \subseteq Before(r, i) /\ Before(r, i) \subseteq Held(r)
      <4>1. \A x \in Held(r) : x < j => x < i
        <5>1. \A x \in Held(r) : x \in Nat
            BY HeldType
        <5> QED
            BY <2>2, <2>3, <5>1
      <4> QED
          BY <4>1 DEF Before
    <3>2. IsFiniteSet(Before(r, i))
        BY <3>1, FS_Subset DEF Ranked
    <3>3. Cardinality(Before(r, j)) <= Cardinality(Before(r, i))
        BY <3>1, <3>2, FS_Subset
    <3> QED
        BY <1>1, <1>3, <2>2, <3>3
  <2> QED
      BY <2>1, <2>3
<1> QED
    BY <1>1, <1>2, <1>3 DEF OnFile

LEMMA FileFacts == TypeOK /\ MemoryVerifies /\ FileInv => FileFollowsMemory /\ GapShows
<1> SUFFICES ASSUME TypeOK, MemoryVerifies, FileInv, NEW r \in Runs
             PROVE  /\ \A i \in DOMAIN OnFile(r) : \E k \in DOMAIN memory[r] : OnFile(r)[i] = memory[r][k]
                    /\ \A i, j \in DOMAIN OnFile(r) : i < j => OnFile(r)[i].seq < OnFile(r)[j].seq
                    /\ VerifyChain(OnFile(r)) <=> IsPrefix(OnFile(r), memory[r])
    BY DEF FileFollowsMemory, GapShows
<1>1. Kept(r) /\ InOrder(r) /\ Ranked(r)
    BY DEF FileInv
<1>2. PICK lines : lines = OnFile(r)
    OBVIOUS
<1>3. PICK log : log = memory[r] /\ log \in Seq(Entries)
    BY DEF TypeOK
<1>4. PICK m \in Nat : DOMAIN lines = 1 .. m
    BY <1>1, <1>2, OnFileIs
<1>5. \A i \in 1 .. m : /\ lines[i] \in Entries /\ lines[i].seq + 1 \in DOMAIN log
                        /\ lines[i] = log[lines[i].seq + 1]
    BY <1>1, <1>2, <1>3, <1>4, OnFileIs, HeldType DEF Kept
<1>6. \A i, j \in 1 .. m : i < j => lines[i].seq < lines[j].seq
    BY <1>1, <1>2, <1>4, OnFileIs DEF InOrder
<1>7. VerifyChain(log)
    BY <1>3 DEF MemoryVerifies
<1>8. lines \in Seq(Entries) /\ Len(lines) = m
  <2>1. lines \in [1 .. m -> Entries]
      BY <1>2, <1>4, <1>5 DEF OnFile
  <2> QED
      BY <1>4, <2>1
<1>9. IsPrefix(lines, log) <=> m <= Len(log) /\ \A i \in 1 .. m : lines[i] = log[i]
  <2>1. Len(log) \in Nat /\ DOMAIN log = 1 .. Len(log)
      BY <1>3
  <2>2. ASSUME IsPrefix(lines, log) PROVE m <= Len(log) /\ \A i \in 1 .. m : lines[i] = log[i]
      BY <1>3, <1>8, <2>1, <2>2 DEF IsPrefix
  <2>3. ASSUME m <= Len(log), \A i \in 1 .. m : lines[i] = log[i] PROVE IsPrefix(lines, log)
      BY <1>3, <1>4, <1>8, <2>1, <2>3 DEF IsPrefix
  <2> QED
      BY <2>2, <2>3
<1>10. ASSUME VerifyChain(lines) PROVE IsPrefix(lines, log)
  <2>1. \A i \in 1 .. m : lines[i].seq + 1 = i /\ i \in DOMAIN log /\ lines[i] = log[i]
    <3>1. \A i \in 1 .. m : lines[i].seq = i - 1
        BY <1>4, <1>10 DEF VerifyChain
    <3> QED
        BY <1>5, <3>1
  <2>2. m <= Len(log)
    <3>1. m \in Nat /\ (m = 0 \/ m \in 1 .. m)
        BY <1>4
    <3>2. Len(log) \in Nat /\ DOMAIN log = 1 .. Len(log)
        BY <1>3
    <3>3. CASE m \in 1 .. m
      <4>1. m \in 1 .. Len(log)
          BY <2>1, <3>2, <3>3
      <4> QED
          BY <3>2, <4>1
    <3> QED
        BY <3>1, <3>2, <3>3
  <2> QED
      BY <1>9, <2>1, <2>2
<1>11. ASSUME IsPrefix(lines, log) PROVE VerifyChain(lines)
  <2>1. \A i \in 1 .. m : i \in DOMAIN log /\ lines[i] = log[i] /\ (i # 1 => lines[i - 1] = log[i - 1])
      BY <1>3, <1>9, <1>11
  <2> QED
      BY <1>4, <1>7, <2>1 DEF VerifyChain
<1> QED
    BY <1>2, <1>3, <1>4, <1>5, <1>6, <1>10, <1>11

LEMMA FileInvariant == Spec => []FileInv
<1>1. TypeOK /\ FileInv /\ [Next]_vars => FileInv'
    BY FileStep
<1> QED
    BY <1>1, FileInit, LogTypeCorrectness, PTL DEF Spec

\* The file keeps each run's events in the order they were made and invents
\* none, whatever writes failed and however the runs interleave (append).
THEOREM FileKeepsOrder == Spec => []FileFollowsMemory
<1>1. TypeOK /\ MemoryVerifies /\ FileInv => FileFollowsMemory
    BY FileFacts
<1> QED
    BY <1>1, LogTypeCorrectness, LogVerifies, FileInvariant, PTL

\* verify_chain accepts what the file holds of a run exactly when no event
\* before the last one there is missing.
THEOREM GapsShow == Spec => []GapShows
<1>1. TypeOK /\ MemoryVerifies /\ FileInv => GapShows
    BY FileFacts
<1> QED
    BY <1>1, LogTypeCorrectness, LogVerifies, FileInvariant, PTL
=============================================================================
