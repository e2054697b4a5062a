---------------------------- MODULE MCLifecycle ----------------------------
(* The machines of the runs over Lifecycle. *)
EXTENDS Lifecycle

CONSTANTS d1, d2, p1

Family(graphics, present) == [graphics |-> graphics, present |-> present]
GpuOf(name, families, modes) ==
  [name |-> name, families |-> families, extensions |-> TRUE, modes |-> modes,
   anisotropy |-> TRUE]
One == <<Family(TRUE, TRUE)>>
Split == <<Family(TRUE, FALSE), Family(FALSE, TRUE)>>
Compute == <<Family(FALSE, FALSE)>>
Srgb(format) == [format |-> format, space |-> "srgb"]

Host ==
  [gpus |-> <<GpuOf(d1, One, {"fifo"})>>, formats |-> <<Srgb("bgraSrgb")>>,
   renderable |-> {"bgraSrgb", "bgraUnorm"}, samples |-> {1, 2, 4}, envSamples |-> 0, asked |-> 1,
   presentMode |-> "auto", minImages |-> 2, maxImages |-> 0, views |-> <<>>,
   sameSize |-> TRUE, multiview |-> FALSE, keepsPlatform |-> TRUE]

\* One sample or four, asked by the application or by the environment; a count
\* the device lacks; a second GPU that is the only suitable one; no GPU at all;
\* a surface with two images and no more; an engine that owns its platform.
Desktops ==
  {Host,
   [Host EXCEPT !.asked = 4, !.maxImages = 2, !.presentMode = "mailbox",
                !.formats = <<Srgb("other"), Srgb("rgbaUnorm")>>, !.keepsPlatform = FALSE],
   [Host EXCEPT !.asked = 4, !.samples = {1}, !.envSamples = 2,
                !.gpus = <<GpuOf(d1, Compute, {"fifo"}), GpuOf(d2, Split, {"fifo", "immediate"})>>],
   [Host EXCEPT !.gpus = <<GpuOf(d1, Compute, {"fifo"})>>]}

\* Two eyes in one layered swapchain or, of two sizes, apart; one eye; images the
\* runtime multisamples; a count of the application that is then ignored.
Headsets ==
  {[Host EXCEPT !.views = <<1, 1>>, !.multiview = TRUE, !.asked = 4],
   [Host EXCEPT !.views = <<2, 2>>, !.multiview = TRUE, !.sameSize = FALSE, !.asked = 4],
   [Host EXCEPT !.views = <<1>>, !.multiview = TRUE,
                !.gpus = <<GpuOf(d2, One, {})>>]}

\* A format that is only preferred in another color space comes first; the
\* runtime recommends other counts for the two eyes.
OddDesktops ==
  {[Host EXCEPT !.formats = <<[format |-> "rgbaSrgb", space |-> "wide"], Srgb("bgraSrgb")>>]}
OddHeadsets == {[Host EXCEPT !.views = <<1, 4>>]}

\* What is proved of regular machines is proved of the ones above, and the odd
\* ones are not regular.
ASSUME RegularMachines ==
  /\ \A h \in Desktops : RegularDesktop(h)
  /\ \A h \in Headsets : RegularHeadset(h)
  /\ \A h \in OddDesktops : ~RegularDesktop(h)
  /\ \A h \in OddHeadsets : ~RegularHeadset(h)
=============================================================================
