--------------------------- MODULE MCQuicrqAckHorizon ---------------------------
(* Model-checking instances of QuicrqAckHorizon.                          *)
EXTENDS QuicrqAckHorizon

\* Two groups: group 0 has an object of 2 units and one of 1 unit, group 1
\* one object of 1 unit.  Fragments of up to 2 units, repeats of 1 unit:
\* a lost 2-unit fragment is split when it is repeated.
MCMedia == << <<2, 1>>, <<1>> >>

\* One object of 3 units in a single group.
MCMediaOneObject == << <<3>> >>
=============================================================================
