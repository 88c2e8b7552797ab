---------------------------- MODULE MCKernelLoop ----------------------------
(* Small instances of KernelLoop for TLC. *)
EXTENDS KernelLoop

MCLines == {"known", "persist"}
MCSurprises == [operator |-> {1}, devices |-> {2}]
MCActions == {"read"}
MCResults == {"ok", "timeout"}
=============================================================================
