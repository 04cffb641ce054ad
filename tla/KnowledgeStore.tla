--------------------------- MODULE KnowledgeStore ---------------------------
(***************************************************************************)
(* The knowledge context: context/markdown_loader.py cuts files into       *)
(* chunks, app.index_context upserts them loader by loader at the start of *)
(* every analysis, and the store (context/memory_store.py, chroma_store.py)*)
(* answers retrievals.  Files are edited at any moment, and the embeddings *)
(* endpoint may fail.                                                      *)
(*                                                                         *)
(* A text is a sequence of characters; Space stands for all white space.   *)
(* A memory store, and a Chroma store without a path, are built anew by    *)
(* each analysis; a Chroma store with a path outlives it (`persistent`).   *)
(***************************************************************************)
EXTENDS Integers, Selections, SequencesExt

CONSTANTS
  ChunkSize,    \* chunk_size of the loaders
  Overlaps,     \* the chunk_overlap they may be configured with
  Space,
  Absent,       \* a file that does not exist
  Loaders,      \* number of configured loaders
  FilesOf,      \* function: loader -> the files its directory may hold, sorted
  Texts,        \* the contents of files
  Disks,        \* what the directories hold at first
  Queries,      \* what is retrieved: a character, or Space for no known word
  Ks,           \* the k a retrieval is asked with; a model's may be negative
  MaxEdits      \* bound on the edits of files

\* MarkdownContextLoader.__init__ refuses an overlap of a chunk or more, and
\* nothing else: neither a negative overlap nor, with one below it, a chunk size
\* that is zero or negative.
ASSUME ChunkAssumption ==
  ChunkSize \in Int /\ \A o \in Overlaps : o \in Int /\ o < ChunkSize

\* The files of a directory have different relative paths.
ASSUME LoadersAssumption ==
  /\ Loaders \in Nat \ {0} /\ DOMAIN FilesOf = 1..Loaders
  /\ \A l \in 1..Loaders : FilesOf[l] \in Seq(Range(FilesOf[l])) /\ IsInjective(FilesOf[l])

ASSUME KsAssumption == Ks \subseteq Int

ASSUME TextsAssumption == \A t \in Texts : t \in Seq(Range(t)) /\ t # Absent

VARIABLES
  chroma,      \* whether the store is Chroma's ...
  persistent,  \* ... and outlives an analysis
  overlap,     \* chunk_overlap
  disk,        \* the content of each file
  store,       \* the entries [id, text], in order of first insertion
  pc,          \* "idle", "load", "file", "chunk", "ready", "answered", "failed"
  loader,      \* the loader being indexed
  files,       \* the places in FilesOf[loader] of the files still to be read
  file,        \* the file being cut ...
  text, start, \* ... its text and the start of the next window
  docs,        \* the documents of this loader: [id, from, text]
  read,        \* history: the texts read in this pass, by loader and file
  answer,      \* the last retrieval: [query, k, chunks]
  edits

vars == << chroma, persistent, overlap, disk, store, pc, loader, files, file, text, start, docs,
           read, answer, edits >>
setup == << chroma, persistent, overlap >>
fileCut == << file, text, start >>

NoAnswer == [ query |-> Space, k |-> 0, chunks |-> << >> ]

Slots == UNION { { << l, FilesOf[l][i] >> : i \in DOMAIN FilesOf[l] } : l \in 1..Loaders }

ASSUME DisksAssumption == Disks \subseteq [ Slots -> Texts \cup { Absent } ]

Least(a, b) == IF a <= b THEN a ELSE b

\* Slip: the windows follow each other without the overlap and one apart.
StepApart == ChunkSize + 1

Step == ChunkSize - overlap

IsBlankText(t) == \A i \in DOMAIN t : t[i] = Space

\* str.strip().
Strip(t) ==
  LET kept == { i \in DOMAIN t : t[i] # Space } IN
  IF kept = {} THEN << >> ELSE SubSeq(t, Min(kept), Max(kept))

\* text[start : start + chunk_size]: past the end of the text the slice stops,
\* and a negative bound counts from there.
WindowEnd(from, length) ==
  IF from + ChunkSize >= 0 THEN Least(from + ChunkSize, length)
  ELSE length + from + ChunkSize

Window(t, from) == SubSeq(t, from + 1, WindowEnd(from, Len(t)))

\* The documents of one file among docs, and the id the next one gets: blank
\* windows are not counted.
DocsOf(name) == { i \in DOMAIN docs : docs[i].id[1] = name }

Document(name, from) ==
  [ id |-> << name, Cardinality(DocsOf(name)) >>, from |-> from,
    text |-> Strip(Window(text, from)) ]

\* The dictionary after self._entries[doc.id] = entry for each document: an
\* id already there is replaced in place, the others are appended.  Within one
\* loader ids are distinct.
Entry(d) == [ id |-> d.id, text |-> d.text ]

Put(s, ds) ==
  LET with(id) == { n \in DOMAIN ds : ds[n].id = id }
      unknown  == { n \in DOMAIN ds : \A i \in DOMAIN s : s[i].id # ds[n].id }
      new      == Selected(ds, unknown)
  IN  [ i \in DOMAIN s |->
          IF with(s[i].id) = {} THEN s[i] ELSE Entry(ds[CHOOSE n \in with(s[i].id) : TRUE]) ]
      \o [ n \in DOMAIN new |-> Entry(new[n]) ]

\* The similarity of a text to a query; a query without a known word has the
\* zero vector.
Score(t, query) == Cardinality({ i \in DOMAIN t : t[i] = query })

\* InMemoryContextStore.retrieve: a stable descending sort and scored[:k],
\* which for a negative k leaves out the last ones.  The place of an entry is
\* the number of those that sort before it.  Slip: ascending.
Worse(i, query) ==
  { j \in DOMAIN store :
      LET a == Score(store[j].text, query)  b == Score(store[i].text, query)
      IN  a < b \/ (a = b /\ j < i) }

RankWorstFirst(query) ==
  [ n \in DOMAIN store |->
      CHOOSE i \in DOMAIN store : Cardinality(Worse(i, query)) = n - 1 ]

Better(i, query) ==
  { j \in DOMAIN store :
      LET a == Score(store[j].text, query)  b == Score(store[i].text, query)
      IN  a > b \/ (a = b /\ j < i) }

Rank(query) ==
  [ n \in DOMAIN store |->
      CHOOSE i \in DOMAIN store : Cardinality(Better(i, query)) = n - 1 ]

Slice(k) == IF k >= 0 THEN Least(k, Len(store)) ELSE Max({ 0, Len(store) + k })

Retrieved(query, k) ==
  IF query = Space THEN << >>
  ELSE LET rank == Rank(query) IN [ n \in 1..Slice(k) |-> store[rank[n]] ]

\* ChromaContextStore.retrieve: whichever entries the approximate search comes
\* upon, at most k and each once (external); none is asked for when k < 1, which
\* Chroma refuses.
Searched(k) ==
  UNION { { [ n \in 1..m |-> store[place[n]] ] :
              place \in { f \in [ 1..m -> DOMAIN store ] : IsInjective(f) } } :
          m \in IF k < 1 THEN {} ELSE 0..Least(k, Len(store)) }

\* What retrieve may return.  An empty store embeds nothing.
Answers(query, k) ==
  IF store = << >> THEN { << >> } ELSE IF chroma THEN Searched(k) ELSE { Retrieved(query, k) }

---------------------------------------------------------------------------
Init ==
  /\ chroma \in BOOLEAN /\ persistent \in BOOLEAN /\ (persistent => chroma)
  /\ overlap \in Overlaps
  /\ disk \in Disks
  /\ store = << >> /\ pc = "idle" /\ loader = 1 /\ files = {}
  /\ file = Space /\ text = << >> /\ start = 0 /\ docs = << >> /\ read = << >>
  /\ answer = NoAnswer /\ edits = 0

\* Somebody writes, shortens or removes a file, whatever the program does.
Edit ==
  /\ edits < MaxEdits /\ edits' = edits + 1
  /\ \E slot \in Slots, t \in Texts \cup { Absent } : disk' = [ disk EXCEPT ![slot] = t ]
  /\ UNCHANGED << setup, store, pc, loader, files, fileCut, docs, read, answer >>

\* Slip: the store is built once and kept for the next analysis.
StoreKept == store

StoreAtBegin == IF persistent THEN store ELSE << >>

\* build_context_store and the first loader of index_context.
Begin ==
  /\ pc = "idle" /\ pc' = "load" /\ loader' = 1
  /\ store' = StoreAtBegin
  /\ read' = << >> /\ answer' = NoAnswer
  /\ UNCHANGED << setup, disk, files, fileCut, docs, edits >>

\* Slip: a pass that fails is started over.
FailAgain ==
  /\ pc' = "load" /\ loader' = 1 /\ read' = << >> /\ docs' = << >> /\ files' = {}
  /\ UNCHANGED fileCut

\* An exception leaves index_context, and run_analysis with it.
Fail ==
  /\ pc' = "failed" /\ docs' = << >> /\ files' = {}
  /\ UNCHANGED << loader, read, fileCut >>

\* load(): the files are listed before the first is read.  A loader without
\* a file may be without its directory, which raises.
ListFiles ==
  /\ pc = "load"
  /\ LET listed == { n \in DOMAIN FilesOf[loader] :
                       disk[<< loader, FilesOf[loader][n] >>] # Absent } IN
     \/ /\ pc' = "file" /\ docs' = << >> /\ files' = listed
        /\ UNCHANGED << loader, read, fileCut >>
     \/ listed = {} /\ Fail
  /\ UNCHANGED << setup, disk, store, answer, edits >>

\* The next file in order.  It may have gone since it was listed, or be
\* unreadable or no UTF-8.
ReadFile ==
  /\ pc = "file"
  /\ \E n \in files :
       /\ \A m \in files : n <= m
       /\ LET slot == << loader, FilesOf[loader][n] >> IN
          \/ Fail
          \/ /\ disk[slot] # Absent
             /\ file' = slot[2] /\ text' = disk[slot] /\ start' = 0 /\ pc' = "chunk"
             /\ files' = files \ {n} /\ read' = Append(read, << slot, disk[slot] >>)
             /\ UNCHANGED << loader, docs >>
  /\ UNCHANGED << setup, disk, store, answer, edits >>

\* _chunk_file: one round of its loop ...
CutWindow ==
  /\ pc = "chunk" /\ start < Len(text)
  /\ docs' = IF IsBlankText(Window(text, start)) THEN docs
             ELSE Append(docs, Document(file, start))
  /\ start' = start + Step
  /\ UNCHANGED << setup, disk, store, pc, loader, files, file, text, read, answer, edits >>

\* ... and its end.
FileDone ==
  /\ pc = "chunk" /\ start >= Len(text) /\ pc' = "file"
  /\ UNCHANGED << setup, disk, store, loader, files, fileCut, docs, read, answer, edits >>

NextLoader == IF loader < Loaders THEN "load" ELSE "ready"

\* upsert: embed (awaited, may fail), then store.  Nothing is embedded when
\* there is no document.
Upsert ==
  /\ pc = "file" /\ files = {}
  /\ \/ /\ store' = Put(store, docs)
        /\ pc' = NextLoader /\ loader' = Least(loader + 1, Loaders) /\ docs' = << >>
        /\ UNCHANGED << read, fileCut, files >>
     \/ docs # << >> /\ Fail /\ UNCHANGED store
  /\ UNCHANGED << setup, disk, answer, edits >>

\* retrieve, by the analyzer or by the model's search_knowledge, whose k nobody
\* checks.  It raises when the query cannot be embedded or Chroma refuses.
Retrieve ==
  /\ pc = "ready"
  /\ \/ \E query \in Queries, k \in Ks : \E chunks \in Answers(query, k) :
          answer' = [ query |-> query, k |-> k, chunks |-> chunks ] /\ pc' = "answered"
     \/ store # << >> /\ pc' = "failed" /\ UNCHANGED answer
  /\ UNCHANGED << setup, disk, store, loader, files, fileCut, docs, read, edits >>

\* The analysis ends; the next one starts from "idle".
Finish ==
  /\ pc \in { "ready", "answered", "failed" } /\ pc' = "idle"
  /\ loader' = 1 /\ read' = << >> /\ answer' = NoAnswer
  /\ UNCHANGED << setup, disk, store, files, fileCut, docs, edits >>

Work ==
  \/ Begin \/ ListFiles \/ ReadFile \/ CutWindow \/ FileDone \/ Upsert
  \/ Retrieve \/ Finish

Next == Edit \/ Work

Spec == Init /\ [][Next]_vars

\* The coroutine is always scheduled again; files are edited or not.
FairSpec == Spec /\ WF_vars(Work)

---------------------------------------------------------------------------
Ids == { store[i].id : i \in DOMAIN store }

TypeOK ==
  /\ overlap \in Overlaps
  /\ pc \in { "idle", "load", "file", "chunk", "ready", "answered", "failed" }
  /\ loader \in 1..Loaders /\ start \in Nat /\ edits \in 0..MaxEdits
  /\ \A i \in DOMAIN docs : docs[i].id[2] \in Nat /\ docs[i].text # << >>
  /\ \A i, j \in DOMAIN store : store[i].id = store[j].id => i = j

\* Character p of the text lies in the window from a place, and in some window.
InWindow(p, from) == from < p /\ p <= WindowEnd(from, Len(text))
Windowed(p) == \E n \in 0..p : InWindow(p, n * Step)

\* Every character that is not blank and lies before the next window is in a
\* document of the file, so none is lost to the index at a window's edge or
\* at the end of the file; with a negative overlap (and so with every chunk size
\* below one) what lies in no window is lost, and nothing else.
WindowsCoverText ==
  pc = "chunk" =>
    \A p \in 1..Least(start, Len(text)) :
      (text[p] # Space /\ (overlap >= 0 \/ Windowed(p))) =>
        \E i \in DOMAIN docs :
          docs[i].id[1] = file /\ InWindow(p, docs[i].from)

\* The chunks a text should have: its windows in order, without the blank
\* ones.  No window begins behind the text's last character.
Piece(t, n)   == Strip(Window(t, (n - 1) * Step))
Kept(t)       == { n \in DOMAIN t : Piece(t, n) # << >> }
ChunksOf(t)   == Selected([ n \in DOMAIN t |-> Piece(t, n) ], Kept(t))

\* The text last read for a file in this pass: the loaders' files share their
\* ids when they share a relative path, and the last loader wins.
ReadFor(name) == { i \in DOMAIN read : read[i][1][2] = name }
Current(name) == ChunksOf(read[Max(ReadFor(name))][2])

\* After an index pass the store holds every chunk of what was read last, under
\* its id and with its text.  What else it holds are leftovers: the tails of
\* files that became shorter or were read by an earlier loader under the same
\* path, and, in a store that outlives the analysis, files no longer there.
LeftoversAreTails ==
  pc = "ready" =>
    /\ \A r \in DOMAIN read :
         LET name == read[r][1][2] IN
         \A n \in DOMAIN Current(name) :
           \E i \in DOMAIN store :
             store[i].id = << name, n - 1 >> /\ store[i].text = Current(name)[n]
    /\ \A i \in DOMAIN store :
         LET name == store[i].id[1] IN
         IF ReadFor(name) = {} THEN persistent
         ELSE \/ store[i].id[2] < Len(Current(name))
              \/ persistent \/ Cardinality(ReadFor(name)) > 1

\* What a retrieval returns are entries of the store, each once and no more than
\* the k asked for.  Of the memory store they are the best ones, best first, and
\* as many as k and the store allow.  (For a negative k see UpToK.)
AnswerIsTopK ==
  pc = "answered" =>
    LET got == answer.chunks
        score(e) == Score(e.text, answer.query)
    IN  /\ \A n \in DOMAIN got : \E i \in DOMAIN store : got[n] = store[i]
        /\ \A m, n \in DOMAIN got : got[m].id = got[n].id => m = n
        /\ answer.k >= 0 => Len(got) <= answer.k
        /\ ~chroma /\ answer.query # Space =>
             /\ answer.k >= 0 => Len(got) = Least(answer.k, Len(store))
             /\ \A m, n \in DOMAIN got : m < n => score(got[m]) >= score(got[n])
             /\ \A i \in DOMAIN store :
                  \/ \E n \in DOMAIN got : got[n] = store[i]
                  \/ \A n \in DOMAIN got : score(got[n]) >= score(store[i])

\* interfaces/context_store.py:67: "Return up to k chunks", so none for a k below
\* one.  The model chooses k (tools.py:57).
UpToK == pc = "answered" => Len(answer.chunks) <= IF answer.k > 0 THEN answer.k ELSE 0

\* Every analysis gets through or fails, however the files change under it.
PassEnds == pc # "idle" ~> pc = "idle"
=============================================================================
