----------------------------- MODULE MCFilesize -----------------------------
(* In a run of five ranks one has a parent and two children; in a run of   *)
(* four with two reductions a rank that is neither root nor leaf goes from *)
(* one to the other.  The code runs the reductions with acknowledgements;  *)
(* the handlers without are registered, and are run here too.              *)
EXTENDS Filesize

MCRuns == {<<5, TRUE, 1>>, <<4, TRUE, 2>>, <<3, TRUE, 2>>, <<4, FALSE, 1>>, <<3, FALSE, 2>>}

MCRaceRuns == {<<3, TRUE, 1>>}

\* Ranks times reductions of the runs that are followed beyond a race.
MaxRaced == 6

\* A run is followed until two handlers conclude one reduction: the properties
\* say nothing of what comes after.  The largest runs are followed until any
\* race goes wrong.
Followed == ~ ConcludedTwice /\ (races = {} \/ glb_ranks * times <= MaxRaced)
=============================================================================
