---------------------------- MODULE MCLifecycle -----------------------------
(* Lifecycle with the driver's five callbacks, in the orders of driver_entry and
   of driver_unload. *)
EXTENDS Lifecycle

MCRegistrations == <<"process", "image", "registry", "thread", "object">>
MCRemovals == <<"object", "thread", "registry", "image", "process">>
=============================================================================
