---------------------------- MODULE MCEvidence ------------------------------
EXTENDS EvidencePage, TLC
Symmetry == Permutations(Slots) \cup Permutations(Artifacts) \cup Permutations(Users)
=============================================================================
