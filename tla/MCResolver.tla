----------------------------- MODULE MCResolver -----------------------------
(* Instance of Resolver: two record types (A and AAAA by number), a search *)
(* list of two domains, two servers.                                       *)
EXTENDS Resolver

MCType     == {1, 28}
MCDomain   == 0..2
MCFamilies == {{1}, {1, 28}}
=============================================================================
