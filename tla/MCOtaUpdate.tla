---------------------------- MODULE MCOtaUpdate -----------------------------
(* OtaUpdate; the configurations differ in the server and in the length of the image. *)
EXTENDS OtaUpdate
=============================================================================
