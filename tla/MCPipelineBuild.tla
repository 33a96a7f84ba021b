-------------------------- MODULE MCPipelineBuild --------------------------
(* An instance of PipelineBuild for TLC. *)
EXTENDS PipelineBuild, TLC

CONSTANTS b, g, t1, t2

Homes == g :> t1
NoHomes == <<>>
AddrSymmetry == Permutations(Addrs)
=============================================================================
