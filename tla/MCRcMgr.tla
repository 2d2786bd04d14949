-------------------------------- MODULE MCRcMgr --------------------------------
(* Instances of RcMgr: small budgets with every remainder of the shares, on a *)
(* machine, on a machine with few descriptors and where none are counted.     *)
EXTENDS RcMgr

MCMachines == {[memory |-> 40, fds |-> 24], [memory |-> 7, fds |-> 3],
               [memory |-> 40, fds |-> 0]}
MCMaxMemory == 0..42
MCMaxFD == 0..21

================================================================================
