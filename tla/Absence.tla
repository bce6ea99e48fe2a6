------------------------------- MODULE Absence -------------------------------
(* What stands for a missing row, a NULL column or a file that is not there,  *)
(* shared by the modules of the inventory, the storage and the webhooks.      *)
CONSTANT None
=============================================================================
