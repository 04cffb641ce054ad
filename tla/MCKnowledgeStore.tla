-------------------------- MODULE MCKnowledgeStore --------------------------
(***************************************************************************)
(* A small instance of KnowledgeStore: two loaders whose directories share *)
(* one relative path, texts of up to five characters in windows of three.  *)
(***************************************************************************)
EXTENDS KnowledgeStore

MCFilesOf == << << "index", "runbook" >>, << "runbook" >> >>

Long  == << Space, "b", "a", "a", "b" >>
Late  == << Space, Space, Space, Space, "b" >>
Short == << "a" >>

MCTexts == { Long, Late, Short }

MCDisks ==
  { [ slot \in Slots |-> IF slot = << 2, "runbook" >> THEN other ELSE Long ] :
      other \in { Absent, Short } }

\* Windows that overlap, and windows with a gap between them.
MCOverlaps == { 1, -1 }

\* A word of the texts, and a query without a known word.
MCQueries == { "a", Space }

\* A negative k, none, and fewer than a full store.
MCKs == { -1, 0, 2 }
=============================================================================
