-------------------------- MODULE MCSoakController --------------------------
(* Small instance of SoakController: see MCSoakController.cfg.                *)
EXTENDS SoakController
==============================================================================
