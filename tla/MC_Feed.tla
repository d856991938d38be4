------------------------------ MODULE MC_Feed ------------------------------
(***************************************************************************)
(* Finite instances of TickFeed: one underlying and one or two options.    *)
(***************************************************************************)
EXTENDS TickFeed

CONSTANTS index, call, put, c1, c2, job, noSocket

Index      == {index}
OneOption  == {call}
TwoOptions == {call, put}
TwoSockets == {c1, c2}
OneJob     == {job}
=============================================================================
