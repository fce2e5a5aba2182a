--------------------------- MODULE MCCryptoRunner ---------------------------
(* CryptoRunner on small instances; the sets are given in the .cfg files. *)
EXTENDS CryptoRunner
=============================================================================
