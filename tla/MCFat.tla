--------------------------------- MODULE MCFat ---------------------------------
(***************************************************************************)
(* Instances of Fat for TLC.                                               *)
(***************************************************************************)
EXTENDS Fat

\* Two files of the root directory and one below the directory d.
MCPath == {<<"a">>, <<"b">>, <<"d", "a">>}

\* A text of one cell, and one that is a cell longer than a cluster.
MCText == {<<"x1">>, <<"y1", "y2", "y3", "y4", "y5">>}

\* The power may go, or a write fail, in any of the first four commands.
MCFaults == [cut |-> 4, error |-> 4]

\* No fault at all.
NoFaults == <<>>

MCMoves == {<<<<"a">>, <<"b">>>>}
===============================================================================
