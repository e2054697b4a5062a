---------------------------- MODULE MCDrawFrame ----------------------------
(***************************************************************************)
(* Instances of DrawFrame for TLC: the results the two backends return.    *)
(***************************************************************************)
EXTENDS DrawFrame

\* DesktopBackend: the base preprocessFrame and postprocessFrame return Ok.
DesktopOutcomes ==
  [preprocess |-> {"Ok"},
   acquire |-> {"Ok", "Suboptimal", "SwapchainOutOfDate", "Fatal"},
   wait |-> {"Ok", "Fatal"},
   submit |-> {"Ok", "Fatal"},
   present |-> {"Ok", "Suboptimal", "SwapchainOutOfDate", "Fatal"},
   postprocess |-> {"Ok"}]

\* The same without a suboptimal acquire.
DesktopNoSuboptimal == [DesktopOutcomes EXCEPT !.acquire = @ \ {"Suboptimal"}]

\* XrDeviceBackend and XrSwapchainContext: every failed acquire is out of date.
XrOutcomes ==
  [preprocess |-> {"Ok", "NotReady", "Fatal"},
   acquire |-> {"Ok", "SwapchainOutOfDate"},
   wait |-> {"Ok", "Fatal"},
   submit |-> {"Ok", "Fatal"},
   present |-> {"Ok", "NotReady", "Fatal"},
   postprocess |-> {"Ok", "NotReady", "Fatal"}]
============================================================================
