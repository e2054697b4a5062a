------------------------------ MODULE Targets ------------------------------
(***************************************************************************)
(* What evan renders into: the render pass, the framebuffers of the        *)
(* swapchain images and the pipelines are built in three places, each from *)
(* the machine and the settings.  The operators here are those choices;    *)
(* Lifecycle.tla makes them in the order of the code.                      *)
(*                                                                         *)
(* A host is a machine with its settings:                                  *)
(*   gpus     sequence of [families, extensions, modes, anisotropy]        *)
(*   formats  sequence of [format, space] the surface or runtime offers    *)
(*   samples  counts that color and depth attachments support              *)
(*   views    recommended sample count of each OpenXR view configuration   *)
(*   sameSize whether the widths and heights recommended for them agree    *)
(***************************************************************************)
EXTENDS Naturals, Sequences

PreferredFormats == {"rgbaSrgb", "rgbaUnorm", "bgraSrgb", "bgraUnorm"}
SampleCounts == {1, 2, 4}  \* kSupportedSampleCountMask
MaxMultiviewViews == 2

\* The first element of s that is in S; s has one.
FirstIn(s, S) ==
  s[CHOOSE i \in DOMAIN s : s[i] \in S /\ \A j \in 1 .. i - 1 : s[j] \notin S]
SomeIn(s, S) == \E i \in DOMAIN s : s[i] \in S

---------------------------------------------------------------------------
(* The device *)

\* The loop overwrites each index until both are known: the last family that
\* supports a queue among those it looks at.  0 stands for no value.
findQueueFamilies(families) ==
  LET Has(i, q) == \E j \in 1 .. i : families[j][q]
      Complete(i) == Has(i, "graphics") /\ Has(i, "present")
      n == IF \E i \in DOMAIN families : Complete(i)
           THEN CHOOSE i \in DOMAIN families : Complete(i) /\ ~Complete(i - 1)
           ELSE Len(families)
      Last(q) == IF Has(n, q)
                 THEN CHOOSE i \in 1 .. n : families[i][q] /\ \A j \in i + 1 .. n : ~families[j][q]
                 ELSE 0
  IN  [graphics |-> Last("graphics"), present |-> Last("present")]

isComplete(indices) == indices.graphics # 0 /\ indices.present # 0

isDeviceSuitable(gpu, formats) ==
  /\ isComplete(findQueueFamilies(gpu.families))
  /\ gpu.extensions
  /\ formats # <<>> /\ gpu.modes # {}
  /\ gpu.anisotropy

SuitableGpu(host, i) == isDeviceSuitable(host.gpus[i], host.formats)
HasGpu(host) == \E i \in DOMAIN host.gpus : SuitableGpu(host, i)
pickPhysicalDevice(host) ==
  CHOOSE i \in DOMAIN host.gpus :
    SuitableGpu(host, i) /\ \A j \in 1 .. i - 1 : ~SuitableGpu(host, j)

\* The environment wins over the caller; what is not supported keeps the count.
setMsaaSamples(current, asked, host) ==
  LET requested == IF host.envSamples \in SampleCounts THEN host.envSamples ELSE asked
  IN  IF requested \in SampleCounts \cap host.samples THEN requested ELSE current

---------------------------------------------------------------------------
(* Formats, modes and counts *)

FormatsOf(host) == [i \in DOMAIN host.formats |-> host.formats[i].format]

fallbackSwapchainFormat(host) ==
  IF "rgbaUnorm" \in host.renderable /\ "bgraUnorm" \notin host.renderable
  THEN "rgbaUnorm" ELSE "bgraUnorm"

\* For the render pass, and for the images of OpenXR: the color space is not looked at.
selectSwapchainFormat(host) ==
  LET formats == FormatsOf(host)
  IN  CASE SomeIn(formats, PreferredFormats) -> FirstIn(formats, PreferredFormats)
        [] SomeIn(formats, host.renderable) /\ ~SomeIn(formats, PreferredFormats)
             -> FirstIn(formats, host.renderable)
        [] OTHER -> fallbackSwapchainFormat(host)

\* For the images of the desktop: preferred and in the sRGB color space, or the first.
chooseSwapSurfaceFormat(host) ==
  LET good == [format : PreferredFormats, space : {"srgb"}]
  IN  IF SomeIn(host.formats, good) THEN FirstIn(host.formats, good).format
      ELSE host.formats[1].format

\* FIFO is the only mode every surface has.
chooseSwapPresentMode(host, modes) ==
  LET wanted == [fifo |-> <<>>, mailbox |-> <<"mailbox">>, immediate |-> <<"immediate">>,
                 auto |-> <<"mailbox", "immediate">>][host.presentMode]
  IN  IF SomeIn(wanted, modes) THEN FirstIn(wanted, modes) ELSE "fifo"

ImageCount(host) ==
  IF host.maxImages > 0 /\ host.minImages + 1 > host.maxImages
  THEN host.maxImages ELSE host.minImages + 1

desktopColorAttachmentMode(samples) == IF samples = 1 THEN "direct" ELSE "resolve"

\* The runtime's multisampled images win over the application's count.
selectMsaaSamples(host, requested) ==
  LET runtime == IF host.views = <<>> THEN 1 ELSE host.views[1]
  IN  IF runtime # 1 THEN [samples |-> runtime, mode |-> "runtime"]
      ELSE [samples |-> requested, mode |-> IF requested = 1 THEN "runtime" ELSE "resolve"]

viewConfigurationsShareLayout(host) ==
  host.views # <<>> /\ host.sameSize /\ \A i \in DOMAIN host.views : host.views[i] = host.views[1]

MultiviewWanted(host) ==
  /\ host.multiview /\ Len(host.views) \in 2 .. MaxMultiviewViews
  /\ viewConfigurationsShareLayout(host)

multiviewViewMask(n) == IF n \in 2 .. MaxMultiviewViews THEN 2 ^ n - 1 ELSE 0

---------------------------------------------------------------------------
(* Render pass and framebuffers: the attachments in their order *)

Color(format, samples) == [format |-> format, samples |-> samples]
Depth(samples) == [format |-> "depth", samples |-> samples]

createRenderPass(mode, format, samples, mask) ==
  [mask |-> mask, samples |-> samples,
   attachments |-> <<Color(format, samples), Depth(samples)>>
                   \o IF mode = "resolve" /\ samples # 1 THEN <<Color(format, 1)>> ELSE <<>>]

\* createColorResources when resolving, createDepthResources, createFramebuffers.
createFramebuffers(mode, format, imageSamples, samples, layers) ==
  [layers |-> layers,
   attachments |-> IF mode = "resolve"
                   THEN <<Color(format, samples), Depth(samples), Color(format, imageSamples)>>
                   ELSE <<Color(format, imageSamples), Depth(samples)>>]

DesktopRenderPass(host, samples) ==
  createRenderPass(desktopColorAttachmentMode(samples), selectSwapchainFormat(host), samples, 0)

\* Plausible bug: the images are always resolved into, with one sample too.
DesktopImageAlwaysResolved(host, samples) ==
  createFramebuffers("resolve", chooseSwapSurfaceFormat(host), 1, samples, 1)

DesktopImage(host, samples) ==
  createFramebuffers(desktopColorAttachmentMode(samples), chooseSwapSurfaceFormat(host), 1, samples, 1)

\* Plausible bug: the application's count is used although the runtime recommends another.
XrRenderPassAsked(host, requested, layered) ==
  createRenderPass(IF requested = 1 THEN "runtime" ELSE "resolve", selectSwapchainFormat(host),
                   requested, IF layered THEN multiviewViewMask(Len(host.views)) ELSE 0)

XrRenderPass(host, requested, layered) ==
  LET m == selectMsaaSamples(host, requested)
  IN  createRenderPass(m.mode, selectSwapchainFormat(host), m.samples,
                       IF layered THEN multiviewViewMask(Len(host.views)) ELSE 0)

\* One layered swapchain, or one per view; each asks for its view's count.
XrImage(host, requested, view, layers) ==
  LET m == selectMsaaSamples(host, requested)
  IN  createFramebuffers(m.mode, selectSwapchainFormat(host), host.views[view], m.samples, layers)

\* Vulkan's rules: the same attachments in the same order, and a layer for
\* every view of the mask.
Fits(framebuffer, renderPass) ==
  /\ framebuffer.attachments = renderPass.attachments
  /\ multiviewViewMask(framebuffer.layers) = renderPass.mask

---------------------------------------------------------------------------
(* The machines on which render pass and framebuffers agree *)

\* The choices of a format that ignore the color space and that look at it meet
\* when every preferred format is offered in sRGB, or none is offered and the
\* first one can be rendered to.
RegularFormats(h) ==
  /\ h.formats \in Seq([format : STRING, space : STRING]) /\ h.formats # <<>>
  /\ IF SomeIn(FormatsOf(h), PreferredFormats)
     THEN \A i \in DOMAIN h.formats : h.formats[i].format \in PreferredFormats => h.formats[i].space = "srgb"
     ELSE h.formats[1].format \in h.renderable

\* With what Vulkan promises: one sample, the FIFO mode, a maximum of images
\* that is not below the minimum.
RegularDesktop(h) ==
  /\ RegularFormats(h)
  /\ 1 \in h.samples
  /\ \A i \in DOMAIN h.gpus : h.gpus[i].modes # {} => "fifo" \in h.gpus[i].modes
  /\ h.presentMode \in {"fifo", "mailbox", "immediate", "auto"}
  /\ h.minImages \in Nat /\ h.maxImages \in Nat
  /\ h.maxImages # 0 => h.minImages <= h.maxImages

\* The runtime recommends one sample count for all views.
RegularHeadset(h) == \A i \in DOMAIN h.views : h.views[i] = h.views[1]

=============================================================================
