-------------------------------- MODULE MC_WAL --------------------------------
(***************************************************************************)
(* Model-checking instance of WAL: the clients and the owner of writeMu    *)
(* other than them are model values given in each .cfg, as are the        *)
(* bounds and the calls the clients make.                                  *)
(***************************************************************************)
EXTENDS WAL

=============================================================================
