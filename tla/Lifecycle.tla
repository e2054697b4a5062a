----------------------------- MODULE Lifecycle -----------------------------
(***************************************************************************)
(* One application using evan, from main to exit, run after run: what the  *)
(* constructor of Engine builds and in which order, on a desktop and on an *)
(* OpenXR runtime, what a refused call leaves behind, what is rebuilt, and *)
(* the order in which ~Engine takes everything down and saves the pipeline *)
(* cache.  The process may be killed anywhere; the next run finds the      *)
(* cache files.                                                            *)
(*                                                                         *)
(* "live" holds the handles that exist.  A call that the machine refuses   *)
(* costs a fault: at most MaxFaults are modelled in one run.  A function   *)
(* that fails throws (the run is aborted) or only logs, and then its       *)
(* handles stay null; a null handle given to a call that does not check it *)
(* is undefined behaviour.                                                 *)
(***************************************************************************)
EXTENDS Targets, PipelineCache

CONSTANTS DesktopHosts, XrHosts,  \* machines with their settings
          MaxFaults               \* bound: refused calls of one run

ASSUME LifecycleAssumption ==
  /\ \E p \in Procs : Procs = {p}
  /\ \A h \in DesktopHosts \cup XrHosts :
       /\ h.gpus # <<>> /\ DOMAIN h.gpus = 1 .. Len(h.gpus) /\ Len(h.gpus) \in Nat
       /\ \A i \in DOMAIN h.gpus : h.gpus[i].name \in Devices
       /\ DOMAIN h.views = 1 .. Len(h.views) /\ Len(h.views) \in Nat

VARIABLES phase,      \* where the process is
          host,       \* the machine it runs on
          next,       \* the next step of the set-up
          todo,       \* what remains to be taken down, in order
          live,       \* the handles that exist
          faults,     \* refused calls so far
          msaa,       \* DeviceContext::_msaaSamples
          swapchains, \* the view and the layers of each swapchain
          renderPass, \* the render pass
          images,     \* the framebuffers of each swapchain
          samples     \* the sample count of the pipelines

built == <<msaa, swapchains, renderPass, images, samples>>
vars == <<phase, host, next, todo, live, faults, built, cacheVars>>

Self == CHOOSE p \in Procs : TRUE
Hosts == DesktopHosts \cup XrHosts
NoHost == [none |-> TRUE]
NoPass == [attachments |-> <<>>, samples |-> 0, mask |-> 0]
IsDesktop == host \in DesktopHosts

Persist == "persist"  \* stands for PipelineCache::persist in the order of ~Engine
Handles ==
  {"window", "resizeCallback", "instance", "surface", "physicalDevice", "device",
   "xrInstance", "system", "session", "space", "actions", "debugMessenger", "commandPool",
   "transfers", "pipelineCache", "swapchain", "targets", "renderPass", "shaders",
   "setLayout", "pipelineLayouts", "pipelines", "descriptorPool", "frames", "materials",
   "objects"}
Phases == {"off", "setUp", "up", "tearDown", "closed", "aborted", "undefined"}
Throws == "aborted"
Logged == "setUp"

TypeOK ==
  /\ phase \in Phases /\ host \in Hosts \cup {NoHost} /\ next \in 1 .. 25
  /\ live \subseteq Handles /\ faults \in 0 .. MaxFaults
  /\ \A i \in DOMAIN todo : todo[i] \subseteq Handles \cup {Persist}
  /\ msaa \in SampleCounts /\ samples \in SampleCounts \cup {0}
  /\ Len(images) <= Len(swapchains)
  /\ CacheTypeOK

---------------------------------------------------------------------------
(* The order of the set-up *)

DesktopBackend == <<"window", "createInstance", "createSurface", "pickPhysicalDevice",
                    "createLogicalDevice">>
XrDeviceBackend == <<"createXrInstance", "getSystem", "xrCreateInstance", "xrPickPhysicalDevice",
                     "xrCreateLogicalDevice", "createSession", "createVisualizedSpace",
                     "XrManageActions">>
DeviceContext == <<"setupDebugMessenger", "createCommandPool", "transferManager", "pipelineCache">>
DesktopSwapchainContext == <<"createRenderPass", "DesktopSwapchainImage", "setCallback">>
XrSwapchainContext == <<"createSwapchains", "xrCreateRenderPass", "buildSwapchainImages">>
Renderer == <<"createDescriptorSetLayout", "createGraphicsPipelines", "createDescriptorPool",
              "frames">>

\* The platform is made by the application, the rest by the constructor of Engine.
EngineOn(backend, swapchainContext) ==
  backend \o DeviceContext \o <<"setMsaaSamples">> \o swapchainContext
  \o <<"RessourceManager">> \o Renderer
DesktopEngine == EngineOn(DesktopBackend, DesktopSwapchainContext)
XrEngine == EngineOn(XrDeviceBackend, XrSwapchainContext)
Engine == IF IsDesktop THEN DesktopEngine ELSE XrEngine

Doing(step) == phase = "setUp" /\ next <= Len(Engine) /\ Engine[next] = step
Refused(n) == faults + n <= MaxFaults /\ faults' = faults + n
Continue == phase' = "setUp" /\ next' = next + 1
Make(S) == live' = live \cup S

---------------------------------------------------------------------------
(* A step of the set-up: "used" handles go to Vulkan unchecked; without the *)
(* "checked" ones the step fails, as it does after so many refusals.        *)

Undefined == phase' = "undefined" /\ UNCHANGED <<next, live, faults>>

Attempt(step, used, checked, makes, refusals, onFailure) ==
  /\ Doing(step)
  /\ \/ ~(used \subseteq live) /\ Undefined
     \/ used \cup checked \subseteq live /\ Continue /\ Make(makes) /\ UNCHANGED faults
     \/ /\ used \subseteq live
        /\ IF checked \subseteq live THEN Refused(refusals) ELSE UNCHANGED faults
        /\ phase' = onFailure /\ next' = next + 1
        /\ UNCHANGED live
  /\ UNCHANGED <<host, todo>>

Simple == UNCHANGED <<built, cacheVars>>

\* The platform's constructor: GLFW and the window.
Window == Attempt("window", {}, {}, {"window"}, 1, Throws) /\ Simple

\* An incompatible driver is asked again with portability enumeration.
DesktopCreateInstance ==
  \E refusals \in {1, 2} :
    Attempt("createInstance", {}, {}, {"instance"}, refusals, Throws) /\ Simple

createSurface ==
  Attempt("createSurface", {"instance", "window"}, {}, {"surface"}, 1, Throws) /\ Simple

DesktopPickPhysicalDevice ==
  /\ Doing("pickPhysicalDevice")
  /\ IF HasGpu(host) THEN Continue /\ Make({"physicalDevice"})
     ELSE phase' = Throws /\ UNCHANGED <<next, live>>
  /\ UNCHANGED <<host, todo, faults, built, cacheVars>>

\* Plausible bug: the failure is logged like those of the OpenXR backend.
DesktopCreateLogicalDeviceLogs ==
  Attempt("createLogicalDevice", {"physicalDevice"}, {}, {"device"}, 1, Logged) /\ Simple

\* With the graphics queue and the present queue of the families found.
DesktopCreateLogicalDevice ==
  Attempt("createLogicalDevice", {"physicalDevice"}, {}, {"device"}, 1, Throws) /\ Simple

\* Asked again without the AR extensions when one of them is not there.
createXrInstance ==
  \E refusals \in {1, 2} :
    Attempt("createXrInstance", {}, {}, {"xrInstance"}, refusals, Logged) /\ Simple

getSystem == Attempt("getSystem", {}, {"xrInstance"}, {"system"}, 1, Logged) /\ Simple

\* At the newest version the runtime supports, then at the oldest.
XrCreateInstance ==
  Attempt("xrCreateInstance", {}, {"xrInstance", "system"}, {"instance"}, 2, Logged) /\ Simple

XrPickPhysicalDevice ==
  Attempt("xrPickPhysicalDevice", {}, {"xrInstance", "instance"}, {"physicalDevice"}, 1, Logged)
  /\ Simple

XrCreateLogicalDevice ==
  Attempt("xrCreateLogicalDevice", {}, {"xrInstance", "physicalDevice"}, {"device"}, 1, Logged)
  /\ Simple

\* The queue families of the physical device are read before anything is checked.
createSession ==
  Attempt("createSession", {"physicalDevice"}, {"xrInstance", "system", "device"},
          {"session"}, 1, Logged) /\ Simple

\* The stage, else the local space.
createVisualizedSpace ==
  Attempt("createVisualizedSpace", {}, {"session"}, {"space"}, 2, Logged) /\ Simple

XrManageActions ==
  Attempt("XrManageActions", {}, {"xrInstance"}, {"actions"}, 1, Logged) /\ Simple

setupDebugMessenger ==
  Attempt("setupDebugMessenger", {"instance"}, {}, {"debugMessenger"}, 1, Logged) /\ Simple

\* createGraphicsQueue just before asks the device for its queue.
createCommandPool ==
  Attempt("createCommandPool", {"physicalDevice", "device"}, {}, {"commandPool"}, 1, Logged)
  /\ Simple

\* TransferManager::init; what the calls return is not looked at.
TransferManagerInit ==
  Attempt("transferManager", {"device"}, {}, {"transfers"}, 1, Logged) /\ Simple

Gpu == IF IsDesktop THEN host.gpus[pickPhysicalDevice(host)].name ELSE host.gpus[1].name

\* PipelineCache::init, with the blob of an earlier run when it fits.
PipelineCacheInit ==
  /\ Doing("pipelineCache") /\ Continue
  /\ \E persistent \in getPipelineCachePath, accepted, created \in BOOLEAN :
       /\ StartOn(Self, Gpu, persistent, accepted, created)
       /\ Make(IF created THEN {"pipelineCache"} ELSE {})
  /\ UNCHANGED <<host, todo, faults, built>>

\* The default first, then what the application asked for.
SetMsaaSamples ==
  /\ Doing("setMsaaSamples") /\ Continue
  /\ msaa' = setMsaaSamples(setMsaaSamples(1, 1, host), host.asked, host)
  /\ UNCHANGED <<host, todo, live, faults, swapchains, renderPass, images, samples, cacheVars>>

---------------------------------------------------------------------------
(* Render pass, swapchains and images *)

CreateRenderPass ==
  /\ \/ Doing("createRenderPass") /\ renderPass' = DesktopRenderPass(host, msaa)
     \/ /\ Doing("xrCreateRenderPass")
        /\ renderPass' = XrRenderPass(host, msaa, \E i \in DOMAIN swapchains : swapchains[i].layers > 1)
  /\ Attempt(Engine[next], {"physicalDevice", "device"}, {}, {"renderPass"}, 1, Logged)
  /\ UNCHANGED <<msaa, swapchains, images, samples, cacheVars>>

\* Depth images are transitioned with a command buffer of the pool, and the
\* framebuffers are made for the render pass.
TargetsUse == {"device", "physicalDevice", "commandPool", "renderPass"}

ImagesOf(chains) ==
  [i \in DOMAIN chains |->
     IF IsDesktop THEN DesktopImage(host, msaa)
     ELSE XrImage(host, msaa, chains[i].view, chains[i].layers)]

\* The swapchains that come out, with the calls refused for each: one for all
\* views, or one for each view that is left, in the order of the views.
XrChains(viewsRefused, layeredRefused) ==
  LET kept == DOMAIN host.views \ viewsRefused
  IN  IF MultiviewWanted(host) /\ ~layeredRefused
      THEN {<<[view |-> 1, layers |-> Len(host.views)]>>}
      ELSE {c \in [1 .. Cardinality(kept) -> [view : kept, layers : {1}]] :
              \A i, j \in DOMAIN c : i < j => c[i].view < c[j].view}

\* A layered swapchain for all views, else one per view; a view that is
\* refused is left out.  Without a session every call fails.
CreateSwapchains ==
  /\ Doing("createSwapchains") /\ Continue
  /\ IF "session" \in live
     THEN \E viewsRefused \in SUBSET DOMAIN host.views, layeredRefused \in BOOLEAN :
            /\ layeredRefused => MultiviewWanted(host)
            /\ MultiviewWanted(host) /\ ~layeredRefused => viewsRefused = {}
            /\ Refused(Cardinality(viewsRefused) + IF layeredRefused THEN 1 ELSE 0)
            /\ swapchains' \in XrChains(viewsRefused, layeredRefused)
     ELSE swapchains' = <<>> /\ UNCHANGED faults
  /\ Make(IF swapchains' = <<>> THEN {} ELSE {"swapchain"})
  /\ UNCHANGED <<host, todo, msaa, renderPass, images, samples, cacheVars>>

BuildSwapchainImages ==
  /\ Doing("buildSwapchainImages")
  /\ IF swapchains = <<>> \/ TargetsUse \subseteq live
     THEN /\ Continue /\ images' = ImagesOf(swapchains)
          /\ Make(IF swapchains = <<>> THEN {} ELSE {"targets"}) /\ UNCHANGED faults
     ELSE Undefined /\ UNCHANGED images
  /\ UNCHANGED <<host, todo, msaa, swapchains, renderPass, samples, cacheVars>>

DesktopChain == <<[view |-> 1, layers |-> 1]>>

\* Plausible bug: when the new swapchain is refused the old framebuffers stay in use.
CreateDesktopImageKeepsOld ==
  \/ Refused(1) /\ swapchains' = <<>> /\ live' = live \ {"swapchain"} /\ UNCHANGED <<images, phase>>
  \/ /\ TargetsUse \subseteq live
     /\ swapchains' = DesktopChain /\ images' = ImagesOf(DesktopChain)
     /\ Make({"swapchain", "targets"}) /\ UNCHANGED <<phase, faults>>
  \/ /\ ~(TargetsUse \subseteq live)
     /\ phase' = "undefined" /\ UNCHANGED <<swapchains, images, live, faults>>

\* A refused swapchain leaves an image without framebuffers.
CreateDesktopImage ==
  \/ Refused(1) /\ swapchains' = <<>> /\ images' = <<>>
     /\ live' = live \ {"swapchain", "targets"} /\ UNCHANGED phase
  \/ /\ TargetsUse \subseteq live
     /\ swapchains' = DesktopChain /\ images' = ImagesOf(DesktopChain)
     /\ Make({"swapchain", "targets"}) /\ UNCHANGED <<phase, faults>>
  \/ /\ ~(TargetsUse \subseteq live)
     /\ phase' = "undefined" /\ UNCHANGED <<swapchains, images, live, faults>>

DesktopSwapchainImage ==
  /\ Doing("DesktopSwapchainImage") /\ next' = next + 1
  /\ CreateDesktopImage
  /\ UNCHANGED <<host, todo, msaa, renderPass, samples, cacheVars>>

\* For the size of the framebuffer; it cannot fail.
SetCallback ==
  /\ Doing("setCallback") /\ Continue /\ Make({"resizeCallback"})
  /\ UNCHANGED <<host, todo, faults, built, cacheVars>>

---------------------------------------------------------------------------
(* Resources and renderer *)

RessourceManagerInit ==
  Attempt("RessourceManager", {"device"}, {}, {"shaders"}, 1, Logged) /\ Simple

createDescriptorSetLayout ==
  Attempt("createDescriptorSetLayout", {"device"}, {}, {"setLayout"}, 1, Logged) /\ Simple

\* A pipeline takes its stages from the modules of a shader, its layout from
\* the set layout, and is made for the render pass.
PipelinesUse == {"device", "shaders", "setLayout", "renderPass"}

\* The layouts stay when the pipelines are refused.
createGraphicsPipelines ==
  LET count == IF IsDesktop THEN msaa ELSE selectMsaaSamples(host, msaa).samples
  IN  /\ Doing("createGraphicsPipelines")
      /\ \/ ~(PipelinesUse \subseteq live) /\ Undefined /\ UNCHANGED samples
         \/ /\ PipelinesUse \subseteq live /\ Continue
            /\ \/ /\ Make({"pipelineLayouts", "pipelines"}) /\ samples' = count
                  /\ UNCHANGED faults
               \/ /\ Refused(1) /\ UNCHANGED samples
                  /\ Make({}) \/ Make({"pipelineLayouts"})
      /\ UNCHANGED <<host, todo, msaa, swapchains, renderPass, images, cacheVars>>

createDescriptorPool ==
  Attempt("createDescriptorPool", {"device"}, {}, {"descriptorPool"}, 1, Logged) /\ Simple

\* Command buffers, semaphores and fences, buffers of each frame in flight.
Frames ==
  Attempt("frames", {"device", "physicalDevice", "commandPool"}, {}, {"frames"}, 1, Logged)
  /\ Simple

SetUpDone ==
  /\ phase = "setUp" /\ next > Len(Engine) /\ phase' = "up"
  /\ UNCHANGED <<host, next, todo, live, faults, built, cacheVars>>

SetUp ==
  \/ Window \/ DesktopCreateInstance \/ createSurface \/ DesktopPickPhysicalDevice
  \/ DesktopCreateLogicalDevice
  \/ createXrInstance \/ getSystem \/ XrCreateInstance \/ XrPickPhysicalDevice
  \/ XrCreateLogicalDevice \/ createSession \/ createVisualizedSpace \/ XrManageActions
  \/ setupDebugMessenger \/ createCommandPool \/ TransferManagerInit \/ PipelineCacheInit
  \/ SetMsaaSamples \/ CreateRenderPass \/ CreateSwapchains \/ BuildSwapchainImages
  \/ DesktopSwapchainImage \/ SetCallback
  \/ RessourceManagerInit \/ createDescriptorSetLayout \/ createGraphicsPipelines
  \/ createDescriptorPool \/ Frames \/ SetUpDone

---------------------------------------------------------------------------
(* Running *)

\* The first objects and their materials: sets come from the pool and the layout.
AddObjects ==
  /\ phase = "up" /\ "objects" \notin live
  /\ IF {"descriptorPool", "setLayout", "transfers"} \subseteq live
     THEN Make({"materials", "objects"}) /\ UNCHANGED phase
     ELSE phase' = "undefined" /\ UNCHANGED live
  /\ UNCHANGED <<host, next, todo, faults, built, cacheVars>>

\* The new swapchain replaces the old one, which goes whatever happened.
DesktopRecreate ==
  /\ phase = "up" /\ IsDesktop
  /\ CreateDesktopImage
  /\ UNCHANGED <<host, next, todo, msaa, renderPass, samples, cacheVars>>

\* The old ones go first; the mode of the first creation is kept.
XrRecreate ==
  LET layered == renderPass.mask # 0
      Kept(refused) == IF layered /\ refused # {} THEN {<<>>} ELSE XrChains(refused, ~layered)
  IN  /\ phase = "up" /\ ~IsDesktop
      /\ IF "session" \in live
         THEN \E refused \in SUBSET DOMAIN host.views :
                /\ layered => refused \in {{}, {1}}
                /\ Refused(Cardinality(refused)) /\ swapchains' \in Kept(refused)
         ELSE swapchains' = <<>> /\ UNCHANGED faults
      /\ IF swapchains' = <<>> \/ TargetsUse \subseteq live
         THEN /\ images' = ImagesOf(swapchains') /\ UNCHANGED phase
              /\ live' = (live \ {"swapchain", "targets"})
                         \cup IF swapchains' = <<>> THEN {} ELSE {"swapchain", "targets"}
         ELSE phase' = "undefined" /\ UNCHANGED <<images, live>>
      /\ UNCHANGED <<host, next, todo, msaa, renderPass, samples, cacheVars>>

Running == AddObjects \/ DesktopRecreate \/ XrRecreate

---------------------------------------------------------------------------
(* The order of ~Engine: what each function takes down. *)

\* Plausible bug: without the device, cleanup returns before it releases anything.
DesktopImageCleanupNoDevice == <<>>
DesktopImageCleanup == <<{"swapchain"}, {"targets"}>>
XrImageCleanup == <<{"targets"}, {"swapchain"}>>

\* The render pass of OpenXR is not destroyed.
SwapchainContextDestroy ==
  IF IsDesktop THEN <<{"renderPass"}>> \o DesktopImageCleanup ELSE XrImageCleanup

RessourceManagerCleanup == <<{"materials"}, {"shaders"}>>
RendererDestroy == <<{"objects"}, {"descriptorPool"}, {"pipelines"}, {"pipelineLayouts"},
                     {"setLayout"}, {"frames"}>>
DeviceContextDestroy == <<{"transfers"}, {"commandPool"}, {"debugMessenger"}, {Persist},
                          {"pipelineCache"}>>

DesktopBackendDestroy == <<{"device", "physicalDevice"}, {"surface"}, {"instance"}>>

\* The spaces go with the session; the actions are a member, after the body.
XrBackendDestroy == <<{"device", "physicalDevice"}, {"session", "space"}, {"instance"},
                      {"xrInstance", "system"}, {"actions"}>>

\* Engine's members in the reverse of their order: the platform before the
\* swapchain context, whose destructor resets the callback of the window.
\* The window goes then if the engine held the last reference.
MembersDestroy ==
  IF host.keepsPlatform THEN <<{"resizeCallback"}, {"window"}>>
  ELSE <<{"window"}, {"resizeCallback"}>>

\* Plausible bug: the renderer goes before the resources that use its pool.
EngineDestroyRendererFirst ==
  SwapchainContextDestroy \o RendererDestroy \o RessourceManagerCleanup \o DeviceContextDestroy
  \o (IF IsDesktop THEN DesktopBackendDestroy \o MembersDestroy ELSE XrBackendDestroy)

EngineDestroy ==
  SwapchainContextDestroy \o RessourceManagerCleanup \o RendererDestroy \o DeviceContextDestroy
  \o (IF IsDesktop THEN DesktopBackendDestroy \o MembersDestroy ELSE XrBackendDestroy)

Close ==
  /\ phase = "up" /\ phase' = "tearDown" /\ todo' = EngineDestroy
  /\ swapchains' = <<>> /\ images' = <<>>
  /\ UNCHANGED <<host, next, live, faults, msaa, renderPass, samples, cacheVars>>

Release ==
  /\ phase = "tearDown" /\ todo # <<>> /\ Head(todo) # {Persist}
  /\ live' = live \ Head(todo) /\ todo' = Tail(todo)
  /\ UNCHANGED <<phase, host, next, faults, built, cacheVars>>

\* PipelineCache::persist writes the file call by call.
PersistCache ==
  /\ phase = "tearDown" /\ todo # <<>> /\ Head(todo) = {Persist}
  /\ \/ (persist(Self) \/ writeBlob(Self)) /\ UNCHANGED todo
     \/ (At(Self, "done") \/ At(Self, "persisted")) /\ todo' = Tail(todo) /\ UNCHANGED cacheVars
  /\ UNCHANGED <<phase, host, next, live, faults, built>>

Closed ==
  /\ phase = "tearDown" /\ todo = <<>> /\ phase' = "closed"
  /\ UNCHANGED <<host, next, todo, live, faults, built, cacheVars>>

---------------------------------------------------------------------------
(* The process *)

Init ==
  /\ phase = "off" /\ host = NoHost /\ next = 1 /\ todo = <<>> /\ live = {} /\ faults = 0
  /\ msaa = 1 /\ swapchains = <<>> /\ renderPass = NoPass /\ images = <<>> /\ samples = 0
  /\ CacheInit

Launch ==
  /\ phase = "off" /\ phase' = "setUp" /\ host' \in Hosts
  /\ UNCHANGED <<next, todo, live, faults, built, cacheVars>>

\* The process ends: by itself, by a crash, or killed wherever it is.
Exit ==
  /\ phase # "off" /\ phase' = "off" /\ host' = NoHost
  /\ next' = 1 /\ todo' = <<>> /\ live' = {} /\ faults' = 0 /\ msaa' = 1
  /\ swapchains' = <<>> /\ renderPass' = NoPass /\ images' = <<>> /\ samples' = 0
  /\ IF At(Self, "off") THEN UNCHANGED cacheVars ELSE Stop(Self)

Next == Launch \/ SetUp \/ Running \/ Close \/ Release \/ PersistCache \/ Closed \/ Exit

Spec == Init /\ [][Next]_vars

---------------------------------------------------------------------------
(* Correctness *)

\* What must exist as long as a handle does: Vulkan's and OpenXR's rules, and
\* the orders the comments of ~Engine, Renderer::destroy and ~DeviceContext give.
Parents(h) ==
  CASE h = "surface" -> {"instance", "window"}
    [] h \in {"physicalDevice", "debugMessenger"} -> {"instance"}
    [] h = "device" -> {"physicalDevice"}
    [] h = "system" -> {"xrInstance"}
    [] h = "session" -> {"xrInstance", "device"}
    [] h = "space" -> {"session"}
    [] h = "actions" -> {"xrInstance"}
    [] h = "swapchain" -> {"device"} \cup IF IsDesktop THEN {"surface"} ELSE {"session"}
    [] h = "targets" -> {"device"}
    [] h = "materials" -> {"device", "descriptorPool"}
    [] h = "pipelineLayouts" -> {"device", "setLayout"}
    [] h = "pipelines" -> {"device", "pipelineLayouts"}
    [] h = "frames" -> {"device", "commandPool"}
    [] h = "objects" -> {"device", "transfers"}
    [] h = "resizeCallback" -> {"window"}
    [] h \in {"window", "instance", "xrInstance"} -> {}
    [] OTHER -> {"device"}

\* The handles that ~Engine keeps longer than what they were made from, with
\* what goes before them: on every headset the device goes before the session
\* and before the render pass, which nothing destroys, and the OpenXR instance
\* before the actions; on a desktop where the engine holds the last reference to
\* the platform, the callback of a window that is gone is reset.
Outlived ==
  IF phase \notin {"tearDown", "closed"} THEN {}
  ELSE IF IsDesktop
       THEN IF host.keepsPlatform THEN {} ELSE {<<"resizeCallback", "window">>}
       ELSE {<<"session", "device">>, <<"renderPass", "device">>, <<"actions", "xrInstance">>}

\* Until ~Engine starts nothing outlives what it was made from, whatever calls were
\* refused; from then on to the end only the pairs of Outlived do, which are
\* wrong in the code, and no other (Engine.cpp:165, "before the renderer destroys
\* the descriptor pool"; Renderer.cpp:239; DesktopSwapchainImage.cpp:26).
ChildrenFirst ==
  \A h \in live : \A p \in Parents(h) : p \in live \/ <<h, p>> \in Outlived

\* An engine that came up releases everything it made; only the render pass of
\* OpenXR is left.
AllReleased == phase = "closed" => live \subseteq IF IsDesktop THEN {} ELSE {"renderPass"}

\* While the engine runs, the framebuffers, the render pass and the pipelines
\* agree: same attachments and layers, same sample count, one the device
\* supports; presentation asks for a mode and a number of images the surface has.
TargetsFit ==
  phase = "up" =>
    /\ \A i \in DOMAIN images : Fits(images[i], renderPass)
    /\ "pipelines" \in live => samples = renderPass.samples
    /\ IsDesktop => /\ msaa \in host.samples
                    /\ LET modes == host.gpus[pickPhysicalDevice(host)].modes
                       IN  chooseSwapPresentMode(host, modes) \in modes
                    /\ ImageCount(host) >= host.minImages
                    /\ host.maxImages # 0 => ImageCount(host) <= host.maxImages

\* A null handle reaches Vulkan only after the machine refused something, and
\* never an instance, a surface or a device of a desktop: those failures throw.
SetUpSafe ==
  phase = "undefined" =>
    /\ faults > 0
    /\ IsDesktop => {"instance", "surface", "device"} \subseteq live
=============================================================================
