-------------------------- MODULE MCAliasGraphTBAA --------------------------
EXTENDS AliasGraphTBAA, FiniteSets

CONSTANTS a, b, p, q, g, x, f, k, c, t1, t2, MaxCalls

INSTANCE AliasPrograms

\* The program Levels has pointer levels, as the theorems ask.
ASSUME LevelsHasLevels == Calls = Levels => Plain!Levelled(Level)

Bound == Cardinality(done) <= MaxCalls
=============================================================================
