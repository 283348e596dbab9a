-------------------------------- MODULE Nil --------------------------------
(* What stands for an absent value (Option::None, a key that a map does not *)
(* have) in the modules that are explored together.                         *)
CONSTANT None
=============================================================================
