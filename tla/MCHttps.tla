-------------------------------- MODULE MCHttps --------------------------------
(* Model-checking instance of HttpsSwitch. *)
EXTENDS HttpsSwitch
=============================================================================
