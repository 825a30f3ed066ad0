--------------------------- MODULE MCProvisioning ---------------------------
(***************************************************************************)
(* d1: a static OOB value the application knows; d2: a certificate, which  *)
(* gives the OOB public key and the static OOB value; d3: an OOB public    *)
(* key without a certificate and a static OOB value the application does   *)
(* not know, so that the key a certificate of d2 left behind is used; d4:  *)
(* a static OOB value the application has wrong.                           *)
(***************************************************************************)
EXTENDS Provisioning

CONSTANTS d1, d2, d3, d4

MCDevices   == {d1, d2, d3, d4}
MCCertified == {d2}
MCOobKey    == {d2, d3}
MCStaticOob == MCDevices
MCAuthValue == (d1 :> "right") @@ (d2 :> "null") @@ (d3 :> "null") @@ (d4 :> "wrong")
MCAutoUseNoOOB == {d3}
=============================================================================
