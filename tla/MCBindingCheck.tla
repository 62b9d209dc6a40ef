--------------------------- MODULE MCBindingCheck ---------------------------
(* BindingCheck on a small instance.  A value that is converted to a       *)
(* number, one that is converted to a vector, one that comes through as    *)
(* a number without being one, and one that is nothing.                    *)
EXTENDS BindingCheck

MCNames  == {"a", "b", ""}
MCTypes  == {"number", "vector"}
MCValues == {[parses |-> {"number"}, fits |-> {"number"}],
             [parses |-> {"number", "vector"}, fits |-> {"vector"}],
             [parses |-> {}, fits |-> {}]}
=============================================================================
