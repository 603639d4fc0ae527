------------------------------ MODULE MCServer ------------------------------
(* Small instances of Server for TLC. *)
EXTENDS Server

CONSTANTS c1, c2

(* A header of two bits announces no, one or too many bytes. *)
Kinds(b) == CASE b = <<0>> -> "select" [] b = <<1>> -> "exit" [] OTHER -> "invalid"

Bodies == {<<0>>, <<1>>}

(* One client sends two commands, one behind the other; the other waits. *)
Asked == [c \in Connection |-> IF c = c1 THEN 2 ELSE 0]
=============================================================================
