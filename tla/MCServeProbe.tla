----------------------------- MODULE MCServeProbe ------------------------------
(***************************************************************************)
(* ServeProbe with two label sets, as of two models behind one server.     *)
(***************************************************************************)
EXTENDS ServeProbe

MCLabels == <<"qwen", "llama">>
===============================================================================
