------------------------------- MODULE MCCore -------------------------------
(***************************************************************************)
(* Core with values for the constants that are no literals of a            *)
(* configuration: expressions and sequences for the ports in, out and virt.*)
(***************************************************************************)
EXTENDS Core

CONSTANTS in, out, virt

Dollar(p) == [negated |-> FALSE, args |-> {p}]
NOT(p)    == [negated |-> TRUE, args |-> {p}]
AND(p, q) == [negated |-> FALSE, args |-> {p, q}]

\* A chain from the input through either port to the other one, loops of two
\* ports, and a port that depends on itself.
MCExprs == {NOT(in), AND(in, virt), NOT(out), Dollar(virt)}

\* A sequence that is run twice.
MCSequences == {[values |-> <<1, 0>>, pos |-> 0, repeat |-> 2]}
=============================================================================
