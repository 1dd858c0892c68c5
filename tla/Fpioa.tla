-------------------------------- MODULE Fpioa ---------------------------------
(***************************************************************************)
(* The pin multiplexer (k210_fpioa.c): io[p] is the peripheral function    *)
(* that IO p carries.  A function drives at most one IO.                   *)
(***************************************************************************)

\* fpioa_set_function: every other IO that carried the function is reset.
fpioa_set_function(io, number, function, resv0) ==
  [p \in DOMAIN io |-> CASE p = number -> function
                         [] p # number /\ io[p] = function -> resv0
                         [] OTHER -> io[p]]
===============================================================================
