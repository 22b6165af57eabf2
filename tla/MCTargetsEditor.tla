--------------------------- MODULE MCTargetsEditor ---------------------------
EXTENDS TargetsEditor, TLC
CONSTANTS a, g, h, p

\* The page that a load brings, at any time, has no target: `a' is known to the
\* page from an accepted save, with any hosts, until the next load.
NoTargets == [t \in {} |-> {}]
MCPages == {NoTargets}
=============================================================================
