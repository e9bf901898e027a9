--------------------------------- MODULE MCEdge ---------------------------------
(* Small instances of Edge. *)
EXTENDS Edge
CONSTANTS h1, h2, d1, d2, q1

\* On the lines that halve the map, just under them, on the lines of coarser
\* and finer cells, and beyond two edges of the map.
MCPoints == {<<0, 0>>, <<-1, -1>>, <<8, 16>>, <<Half, -Half - 1>>}
================================================================================
