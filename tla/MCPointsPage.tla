---------------------------- MODULE MCPointsPage ----------------------------
EXTENDS PointsPage

\* Everything on pages of one, or one tag.
MCQueries == {[match |-> Tag, size |-> 1], [match |-> {1}, size |-> 1]}
==============================================================================
