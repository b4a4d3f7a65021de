--------------------------- MODULE MCAddressSpace ---------------------------
(* AddressSpace for TLC.                                                    *)
EXTENDS AddressSpace
=============================================================================
