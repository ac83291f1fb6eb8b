--------------------------- MODULE MCEditDocuments ---------------------------
EXTENDS EditDocuments, TLC

Symmetry == Permutations(Tabs) \cup Permutations(Browsers) \cup Permutations(Docs) \cup Permutations(Keys)
=============================================================================
