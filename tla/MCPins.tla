-------------------------------- MODULE MCPins --------------------------------
(* Threads, and the pins without interrupts, are interchangeable: none is      *)
(* named in the model, and every CHOOSE is over the positions of the table.    *)
EXTENDS Pins, TLC

PinSymmetry == Permutations(Pins \ IrqPins) \cup Permutations(Threads)
===============================================================================
