--------------------------- MODULE MCProfileBundle ---------------------------
(* A small instance of a bundle directory: packagings of one profile or of  *)
(* two, and two clients that import it, one of which also makes the other   *)
(* calls.                                                                   *)
EXTENDS ProfileBundle, TLC

CONSTANTS c1, c2   (* the clients *)

MCCalls      == c1 :> Operations @@ c2 :> {"import"}
MCSelections == {{"a"}, {"a", "b"}}

(* Bound: of the packager and the two clients, two are at work at a time. *)
TwoAtWork ==
  packer.pc # "idle" => Cardinality({c \in Clients : client[c].pc # "idle"}) <= 1
==============================================================================
