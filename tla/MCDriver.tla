------------------------------ MODULE MCDriver ------------------------------
(* Driver with two callbacks: the registry's has the larger events. *)
EXTENDS Driver, TLC

MCRegistrations == <<"process", "registry">>
MCRemovals == <<"registry", "process">>
MCSizeOf == ("process" :> 1) @@ ("registry" :> 2)
=============================================================================
