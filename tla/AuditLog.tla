------------------------------ MODULE AuditLog ------------------------------
(***************************************************************************)
(* AuditLog and verify_chain (actions/audit.py): a hash-chained list in    *)
(* memory, and a file of JSON lines it is copied to.                       *)
(*                                                                         *)
(* A member of Runs is one AuditLog object, that is one run of the         *)
(* program: they follow each other or overlap, and all append to the one   *)
(* file (build_action_surface gives every run the same default path).      *)
(* A run that ends or crashes takes no further step.                       *)
(*                                                                         *)
(* The hash commits to its payload and, through the previous hash, to all  *)
(* before it: it is modelled as that history, so that different payloads   *)
(* have different hashes.  What json.dumps makes of an event is read back  *)
(* as that event; a line cut short by a failing write is `Fragment`.       *)
(***************************************************************************)
EXTENDS Integers, Sequences, FiniteSets, SequencesExt

CONSTANTS
  Runs,       \* the AuditLog objects of one behaviour (a bound)
  Contents,   \* timestamp, type, proposal and details of an event
  Fragment,   \* a line of the file that is not an event
  MaxEvents   \* bound on the events of a run

ASSUME MaxEventsAssumption == MaxEvents \in Nat

VARIABLES
  memory,  \* run -> AuditLog._events
  file,    \* the lines of the file, with the run that wrote them
  torn     \* whether the file ends inside a line

vars == << memory, file, torn >>

----------------------------------------------------------------------------
(* The chain.                                                               *)

Hashes  == Seq(Nat \X Contents)
Genesis == << >>

\* _hash_payload
Hash(seq, content, prev) == Append(prev, << seq, content >>)

Entry(seq, content, prev) ==
  [seq |-> seq, content |-> content, prev |-> prev, hash |-> Hash(seq, content, prev)]

\* The hash the next event has to carry.  Slip: always that of the first event.
LinkToFirst(events) == IF events = << >> THEN Genesis ELSE events[1].hash
Link(events) == IF events = << >> THEN Genesis ELSE events[Len(events)].hash

\* Slip: every event is number 0.
NextEntryUnnumbered(events, content) == Entry(0, content, Link(events))
NextEntry(events, content) == Entry(Len(events), content, Link(events))

\* verify_chain.  Slips: only the hashes are looked at; they are not recomputed.
VerifyHashesOnly(events) ==
  \A i \in DOMAIN events :
    events[i].hash = Hash(events[i].seq, events[i].content, events[i].prev)
VerifyUnhashed(events) ==
  \A i \in DOMAIN events :
    /\ events[i].seq = i - 1
    /\ events[i].prev = IF i = 1 THEN Genesis ELSE events[i - 1].hash
VerifyChain(events) ==
  \A i \in DOMAIN events :
    /\ events[i].seq = i - 1
    /\ events[i].prev = IF i = 1 THEN Genesis ELSE events[i - 1].hash
    /\ events[i].hash = Hash(events[i].seq, events[i].content, events[i].prev)

Entries == [seq : Nat, content : Contents, prev : Hashes, hash : Hashes]

ASSUME FragmentAssumption == Fragment \notin Entries

----------------------------------------------------------------------------
Init ==
  /\ memory = [r \in Runs |-> << >>]
  /\ file = << >>
  /\ torn = FALSE

Line(r, entry) == [run |-> r, entry |-> entry]

\* A complete line reaches the file.  After a fragment it is glued to it and
\* lost with it.
WriteLine(r, entry) ==
  /\ file' = IF torn THEN file ELSE Append(file, Line(r, entry))
  /\ torn' = FALSE

\* The write raises: nothing reached the file, or a line without its end.
WriteFails(r) ==
  \/ UNCHANGED << file, torn >>
  \/ /\ torn' = TRUE
     /\ file' = IF torn THEN file ELSE Append(file, Line(r, Fragment))

\* append: the event is in memory before the file is opened, and stays there
\* when writing it raises.
AppendEvent(r, content) ==
  LET entry == NextEntry(memory[r], content) IN
  /\ Len(memory[r]) < MaxEvents
  /\ memory' = [memory EXCEPT ![r] = Append(@, entry)]
  /\ WriteLine(r, entry) \/ WriteFails(r)

Next == \E r \in Runs, content \in Contents : AppendEvent(r, content)

Spec == Init /\ [][Next]_vars

----------------------------------------------------------------------------
(* Properties.                                                              *)

\* What the file holds of a run: its k-th event is on the line that has k - 1
\* of the run's lines before it.
Held(r) == {i \in DOMAIN file : file[i].run = r /\ file[i].entry # Fragment}
Before(r, i) == {j \in Held(r) : j < i}
LineOf(r, k) == CHOOSE i \in Held(r) : Cardinality(Before(r, i)) = k - 1
OnFile(r) == [k \in 1 .. Cardinality(Held(r)) |-> file[LineOf(r, k)].entry]

\* Every variable has its type.
TypeOK ==
  /\ memory \in [Runs -> Seq(Entries)]
  /\ file \in Seq([run : Runs, entry : Entries \cup {Fragment}])
  /\ torn \in BOOLEAN

\* A log always verifies itself, whatever became of its writes.
MemoryVerifies == \A r \in Runs : VerifyChain(memory[r])

\* The file keeps each run's events in the order they were made, and invents
\* none.
FileFollowsMemory ==
  \A r \in Runs :
    /\ \A i \in DOMAIN OnFile(r) : \E k \in DOMAIN memory[r] : OnFile(r)[i] = memory[r][k]
    /\ \A i, j \in DOMAIN OnFile(r) : i < j => OnFile(r)[i].seq < OnFile(r)[j].seq

\* "What was attempted versus what actually completed": a lost write never
\* goes unnoticed once the run writes again.  A run's lines verify exactly
\* when they are its first events without a gap.
GapShows == \A r \in Runs : VerifyChain(OnFile(r)) <=> IsPrefix(OnFile(r), memory[r])

\* Nothing written is ever edited or removed, by any run.
AppendOnly == [][IsPrefix(file, file') /\ \A r \in Runs : IsPrefix(memory[r], memory'[r])]_vars

\* "Removing or altering any entry breaks the chain from that point forward":
\* changing any entry, and removing or exchanging entries that others follow,
\* is found by verify_chain.
AlterationShows ==
  \A r \in Runs : \A i \in DOMAIN memory[r] :
    /\ \A content \in Contents \ {memory[r][i].content} :
         ~ VerifyChain([memory[r] EXCEPT ![i].content = content])
    /\ i < Len(memory[r]) => ~ VerifyChain(RemoveAt(memory[r], i))
    /\ i < Len(memory[r]) =>
         ~ VerifyChain([memory[r] EXCEPT ![i] = memory[r][i + 1], ![i + 1] = memory[r][i]])

=============================================================================
