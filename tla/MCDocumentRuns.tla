--------------------------- MODULE MCDocumentRuns ---------------------------
(* An instance of DocumentRuns for TLC. *)
EXTENDS DocumentRuns, TLC

Asked(d, u, f, n) == [docs |-> d, udt |-> u, files |-> f, detail |-> n]

\* A new SRS, a drawn document, a DB design, new and updated, and an ERD updated from a
\* given revision.
SomeRequests ==
  {Asked("SRS", "N", {"rfp"}, 0), Asked("ARCH", "N", {}, 0), Asked("DB", "N", {}, 0),
   Asked("DB", "Y", {"meeting"}, 0), Asked("ERD", "Y", {"meeting"}, 4)}

SomePrior == <<"SRS", "ERD", "DB", "ERD">>

Symmetry == Permutations(Workers)

=============================================================================
