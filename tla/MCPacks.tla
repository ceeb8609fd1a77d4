------------------------------ MODULE MCPacks ------------------------------
(* Packs with two packs that share one package; node has an optional one   *)
(* that may be missing from the distro and depends on one of python's.      *)
EXTENDS Packs

MCPacks == {"node", "python"}
MCPackages == {"gcc", "npm", "python3"}
MCResolutions == [p \in MCPacks |-> IF p = "node" THEN {{"gcc", "npm"}, {"gcc"}}
                                                  ELSE {{"gcc", "python3"}}]
MCDepends == [q \in MCPackages |-> IF q = "npm" THEN {"python3"} ELSE {}]
MCRank == [p \in MCPacks |-> IF p = "node" THEN 1 ELSE 2]
MCCommands == {<<"node">>, <<"python">>, <<"python", "node">>, <<"node", "node">>}
=============================================================================
