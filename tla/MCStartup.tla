----------------------------- MODULE MCStartup -----------------------------
(***************************************************************************)
(* Two clients on different nodes.                                         *)
(***************************************************************************)
EXTENDS Startup, TLC

MCNodeOf == "c0" :> 0 @@ "c1" :> 1
=============================================================================
