----------------------------- MODULE MCPipeline -----------------------------
EXTENDS Pipeline, TLC

\* Workers run the same code.
WorkerSymmetry == Permutations(Workers)
=============================================================================
