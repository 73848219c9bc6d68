--------------------------- MODULE MCChainStorage ---------------------------
(* One chain file; the bound is set in the configuration.                  *)
EXTENDS ChainStorage

=============================================================================
