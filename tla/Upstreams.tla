----------------------------- MODULE Upstreams -----------------------------
(***************************************************************************)
(* What the components of the data plane mean by the same names.           *)
(***************************************************************************)
CONSTANTS
  Keys,    \* the stored credentials of one platform
  Rapis,   \* the models it serves
  NoKey
=============================================================================
