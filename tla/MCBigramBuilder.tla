--------------------------- MODULE MCBigramBuilder ---------------------------
EXTENDS BigramBuilder, TLC

\* MinDensityPct of the consecutive index.
NoDensity == DefaultDensity

\* Threads and keys are interchangeable; items are too.
BuilderSymmetry == Permutations(Threads) \cup Permutations(Keys) \cup Permutations(Items)
=============================================================================
