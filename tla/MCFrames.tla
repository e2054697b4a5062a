------------------------------ MODULE MCFrames ------------------------------
(***************************************************************************)
(* The frame loop over either backend, chosen once: the constants of the   *)
(* configuration are those of the desktop, Xr is the same loop over OpenXR. *)
(* NViews is 2 in both: a desktop has one image set, and the views past it  *)
(* are skipped.                                                            *)
(***************************************************************************)
EXTENDS MCDrawFrame

VARIABLE backend

Xr == INSTANCE DrawFrame WITH
        UsesImageAvailableSemaphore <- FALSE, MultiviewModes <- {TRUE, FALSE},
        Outcomes <- XrOutcomes

FramesVars == <<vars, backend>>

OnDesktop == backend = "desktop" /\ UNCHANGED backend
OnXr == backend = "openxr" /\ UNCHANGED backend

FramesInit ==
  \/ backend = "desktop" /\ Init
  \/ backend = "openxr" /\ Xr!Init

FramesNext ==
  \/ OnDesktop /\ Next
  \/ OnXr /\ Xr!Next

FramesSpec ==
  /\ FramesInit /\ [][FramesNext]_FramesVars
  /\ WF_FramesVars((OnDesktop /\ Progress) \/ (OnXr /\ Xr!Progress))
  /\ WF_FramesVars((OnDesktop /\ CompleteBatch) \/ (OnXr /\ Xr!CompleteBatch))
  /\ WF_FramesVars((OnDesktop /\ Display) \/ (OnXr /\ Xr!Display))
=============================================================================
