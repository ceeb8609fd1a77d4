----------------------------- MODULE MCPacksTwo -----------------------------
(* Packs with a session in Termux and one inside the distro, and two packs *)
(* that share their package.                                               *)
EXTENDS Packs

MCPacks == {"node", "python"}
MCPackages == {"gcc"}
MCResolutions == [p \in MCPacks |-> {{"gcc"}}]
MCDepends == [q \in MCPackages |-> {}]
MCRank == [p \in MCPacks |-> IF p = "node" THEN 1 ELSE 2]
MCCommands == {<<"node">>, <<"python">>}
=============================================================================
