--------------------------------- MODULE VmSet ---------------------------------
(* The VMs of a run, for the modules of what their threads share: main       *)
(* starts one thread for each image.                                         *)
CONSTANTS
    VMs,
    None    \* no VM, no stream

ASSUME VmAssumption == None \notin VMs
=============================================================================
