------------------------ MODULE MCDocumentLifecycle -------------------------
EXTENDS DocumentPage, TLC

Symmetry == Permutations(Contents) \cup Permutations(Slots)
            \cup Permutations(Approvers) \cup Permutations(Users)

\* Bytes and ledger are altered and checked beside one request at a time, on
\* a document with one signature and one key.
CheckedInSmall ==
  \/ Altered = 0 /\ \A k \in Checkers : checks[k] = Idle
  \/ /\ Len(signatures) <= 1 /\ Len(keys) <= 1
     /\ Cardinality({s \in Slots : req[s] # Idle}) <= 1
=============================================================================
