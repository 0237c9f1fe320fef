------------------------------ MODULE MCEscrow ------------------------------
(* Escrow with the symmetry of its users, and a view, for TLC.             *)
EXTENDS Escrow

Symmetry == Permutations(Users)

(* The place of a process without the locals that it will assign before it *)
(* reads them: the ask and the row until there is one in hand, the call    *)
(* and the setting of the collection until a block is begun.               *)
LivePlace(s) ==
  CASE s.pc \in {"next", "money"} ->
         [s EXCEPT !.managed = FALSE, !.at = 0, !.ask = 0, !.row = 0]
    [] s.pc \in {"scan", "register"} -> [s EXCEPT !.row = 0]
    [] OTHER -> s

\* States that differ in nothing else have the same steps and properties.
Live == <<outside, tables, removal, restarts, [n \in Networks |-> LivePlace(scanner[n])]>>
=============================================================================
