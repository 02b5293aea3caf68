-------------------------------- MODULE MCHeap --------------------------------
(***************************************************************************)
(* A heap of one page that may grow, in units small enough to explore.  As *)
(* in the code a header is no multiple of the granularity, and a request   *)
(* may be longer than what its own pages leave behind one header.          *)
(***************************************************************************)
EXTENDS Heap

SmallSizes == {0, 1, 3, 6, 9}

=============================================================================
