---------------------------- MODULE MC_Scheduler ----------------------------
(* Instances of the scheduler; each .cfg chooses the operations a program  *)
(* uses and the bounds.                                                    *)
EXTENDS Scheduler
=============================================================================
