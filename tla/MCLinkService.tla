--------------------------- MODULE MCLinkService ---------------------------
(* One link whose buffer takes at most three bytes of waiting chunks of one, *)
(* two or four bytes: chunks larger than the buffer, exact fits, overflow    *)
(* and marking all happen.                                                   *)
EXTENDS LinkService

MCConfig == [capacity |-> 3, threshold |-> 2, delay |-> 1, propagation |-> 1]

=============================================================================
