----------------------------- MODULE MCRouting -----------------------------
(***************************************************************************)
(* All topologies made of these lines: diamonds, a diamond with a tail, a  *)
(* triangle, trees, and unconnected ones, with the nodes in any order in   *)
(* which a file can name them first.                                       *)
(***************************************************************************)
EXTENDS Routing

MCLines ==
  {<<"sub1", "erot1">>, <<"erot1", "rrot1">>, <<"erot1", "rot1">>,
   <<"rrot1", "rot2">>, <<"rot2", "rot1">>, <<"rot1", "rrot1">>}
=============================================================================
