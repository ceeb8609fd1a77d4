------------------------------ MODULE MCUpdate ------------------------------
(* Update with a release and two of its pre-releases, the older of which    *)
(* has the higher number, and an edition whose second version has a file    *)
(* that the first and the third have not.  The last delta is a short cut,   *)
(* listed after the chain.                                                  *)
EXTENDS Update

Build(num, kind, pre, n) == [num |-> num, kind |-> kind, pre |-> pre, n |-> n]

MCVersion == [rc2 |-> Build(1, 0, 2, 2), beta3 |-> Build(1, 0, 1, 3), release |-> Build(1, 1, 0, 0)]
MCBuilds == DOMAIN MCVersion
MCNewest == "release"
MCFiles == {"a", "b"}
MCTree == << [a |-> 1, b |-> 0], [a |-> 1, b |-> 2], [a |-> 3, b |-> 0] >>
MCDeltas == << [from |-> 1, to |-> 2], [from |-> 2, to |-> 3], [from |-> 1, to |-> 3] >>
=============================================================================
