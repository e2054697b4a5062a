----------------------------- MODULE Negotiation -----------------------------
(***************************************************************************)
(* What evan asks of an OpenXR runtime before its first frame, and what it *)
(* then relies on: the extensions of the instance, the view configuration, *)
(* the environment blend modes, the interaction profile and its bindings.  *)
(*                                                                         *)
(* The platform lists the extensions before there is an instance and the   *)
(* backend creates it later: the runtime may be another by then (updated,  *)
(* restarted, an API layer switched), at most MaxChanges times.  Each      *)
(* query may fail.                                                         *)
(*                                                                         *)
(* A runtime is [extensions, configurations, modes, profiles]: the set it  *)
(* offers, the view configurations in its order, the blend modes of each,  *)
(* and the actions each interaction profile has an input for.              *)
(***************************************************************************)
EXTENDS Naturals, Sequences, FiniteSets

CONSTANTS Runtimes,
          Options,    \* OpenXrOptions: [arEnabled, features, menu, candidates]
          Losses,     \* actions that the runtime may refuse to create together
          MaxChanges  \* bound: changes of the runtime during the set-up

VARIABLES runtime, options,
          step,        \* what the set-up does next
          changes,     \* changes of the runtime so far
          required,    \* the extensions the platform asks for
          enabled,     \* those of the instance, None without an instance
          refused,     \* the runtime refused the instance for another reason
          functions,   \* extensions whose function tables are complete
          available,   \* XrDeviceBackend::_availableXrExtensions
          system,      \* there is a system
          view,        \* _viewConfigurationType
          supported,   \* _supportedEnvironmentBlendModes
          detected,    \* the runtime reported them
          mode,        \* _environmentBlendMode
          actions,     \* the actions that exist
          suggested,   \* the bindings the runtime took for each profile
          shown        \* the mode of the last xrEndFrame, None before it

instanceVars == <<required, enabled, refused, functions, available>>
blendVars == <<view, supported, detected, mode>>
actionVars == <<actions, suggested>>
vars == <<runtime, options, step, changes, instanceVars, system, blendVars, actionVars, shown>>

None == {"none"}
Steps == <<"getRequiredInstanceExtensions", "createInstance", "retry", "cacheInstanceExtensions",
           "loadExtensionFunctions", "getSystem", "viewConfiguration", "blendModes",
           "createActions", "bindActionSets", "running">>
Doing(s) == step = s
Then(s) == step' = s

---------------------------------------------------------------------------
(* Names *)

baseline == {"vulkan"}
FeatureExtensions ==
  [passthrough |-> {"khrPassthrough", "fbPassthrough"}, handTracking |-> {"handTracking"},
   handMesh |-> {"handTracking", "handMesh"}, scene |-> {"scene"},
   anchors |-> {"spatialEntity", "spatialQuery", "spatialStorage"},
   depth |-> {"fbDepth", "khrDepth"}]
extensionsForFeatures(features) == UNION {FeatureExtensions[f] : f \in features}

\* Plausible bug: an extension is missing from the list of those to give up.
arExtensionNamesShort ==
  {"khrPassthrough", "fbPassthrough", "handTracking", "handMesh", "scene", "spatialEntity",
   "spatialQuery", "spatialStorage", "khrDepth"}

arExtensionNames ==
  {"khrPassthrough", "fbPassthrough", "handTracking", "handMesh", "scene", "spatialEntity",
   "spatialQuery", "spatialStorage", "fbDepth", "khrDepth"}
WithFunctions == arExtensionNames \ {"khrPassthrough", "fbDepth", "khrDepth"}

CoreActions == {"aim", "grip", "a", "b", "x", "y", "leftStick", "rightStick"}
MenuActions == {"menu", "system"}

BlendModes == {"opaque", "additive", "alpha"}
ViewConfigurations == {"mono", "stereo", "quad"}

SeqRange(s) == {s[i] : i \in DOMAIN s}

\* The blend modes are known for the configurations the runtime has.
IsRuntime(r) ==
  /\ DOMAIN r = {"extensions", "configurations", "modes", "profiles"}
  /\ r.configurations \in Seq(ViewConfigurations)
  /\ DOMAIN r.modes = SeqRange(r.configurations)
  /\ \A v \in DOMAIN r.modes : r.modes[v] \in Seq(BlendModes)

ASSUME NegotiationAssumption ==
  /\ MaxChanges \in Nat
  /\ \A r \in Runtimes : IsRuntime(r)
  /\ \A lost \in Losses : lost \subseteq CoreActions \cup MenuActions
                          /\ ("aim" \in lost => "grip" \in lost)
  /\ \A o \in Options : o.features \subseteq DOMAIN FeatureExtensions

---------------------------------------------------------------------------
(* The instance *)

\* The platform knows what the runtime offered when it looked; if that fails
\* it asks for the baseline.
composeRequiredInstanceExtensions(offered) ==
  baseline \cup IF options.arEnabled THEN extensionsForFeatures(options.features) \cap offered
                ELSE {}

getRequiredInstanceExtensions ==
  /\ Doing("getRequiredInstanceExtensions") /\ Then("createInstance")
  /\ \E offered \in {runtime.extensions, {}} : required' = composeRequiredInstanceExtensions(offered)
  /\ UNCHANGED <<runtime, options, changes, enabled, refused, functions, available, system,
                 blendVars, actionVars, shown>>

\* xrCreateInstance: an extension that is not there, another refusal, or done.
\* A runtime that answers an extension of AR with another error than
\* EXTENSION_NOT_PRESENT is not asked again: that is a refusal too.
Create(names, notPresent) ==
  \/ /\ names \subseteq runtime.extensions
     /\ enabled' = names /\ Then("cacheInstanceExtensions") /\ UNCHANGED refused
  \/ /\ ~(names \subseteq runtime.extensions) /\ Then(notPresent) /\ UNCHANGED <<enabled, refused>>
  \/ refused' = TRUE /\ Then("cacheInstanceExtensions") /\ UNCHANGED enabled

createXrInstance ==
  /\ Doing("createInstance") /\ Create(required, "retry")
  /\ UNCHANGED <<runtime, options, changes, required, functions, available, system, blendVars,
                 actionVars, shown>>

\* Without the AR extensions, when there were any.
retryXrInstance ==
  LET vrOnly == required \ arExtensionNames
  IN  /\ Doing("retry")
      /\ IF vrOnly # required THEN Create(vrOnly, "cacheInstanceExtensions")
         ELSE Then("cacheInstanceExtensions") /\ UNCHANGED <<enabled, refused>>
      /\ UNCHANGED <<runtime, options, changes, required, functions, available, system, blendVars,
                     actionVars, shown>>

\* Listed anew: what the runtime offers, not what the instance has.
cacheInstanceExtensions ==
  /\ Doing("cacheInstanceExtensions") /\ Then("loadExtensionFunctions")
  /\ available' \in {runtime.extensions, {}}
  /\ UNCHANGED <<runtime, options, changes, required, enabled, refused, functions, system,
                 blendVars, actionVars, shown>>

\* A runtime resolves the functions of the extensions its instance has.
loadInstanceFunctions ==
  /\ Doing("loadExtensionFunctions") /\ Then("getSystem")
  /\ functions' = IF enabled = None THEN {} ELSE enabled \cap WithFunctions
  /\ UNCHANGED <<runtime, options, changes, required, enabled, refused, available, system,
                 blendVars, actionVars, shown>>

---------------------------------------------------------------------------
(* System, views, blend modes *)

getSystem ==
  /\ Doing("getSystem") /\ Then("viewConfiguration")
  /\ system' \in {FALSE, enabled # None}
  /\ UNCHANGED <<runtime, options, changes, instanceVars, blendVars, actionVars, shown>>

selectViewConfigurationType(configurations) ==
  CASE "stereo" \in SeqRange(configurations) -> "stereo"
    [] "mono" \in SeqRange(configurations) /\ "stereo" \notin SeqRange(configurations) -> "mono"
    [] OTHER -> configurations[1]

\* The default stays when nothing can be listed.
SelectView ==
  /\ Doing("viewConfiguration") /\ Then("blendModes")
  /\ \/ system /\ runtime.configurations # <<>>
        /\ view' = selectViewConfigurationType(runtime.configurations)
     \/ UNCHANGED view
  /\ UNCHANGED <<runtime, options, changes, instanceVars, system, supported, detected, mode,
                 actionVars, shown>>

selectDefaultEnvironmentBlendMode(modes) ==
  IF "opaque" \in SeqRange(modes) THEN "opaque" ELSE modes[1]

\* Plausible bug: the modes are those of another view configuration.
detectEnvironmentBlendModesOfFirst ==
  LET first == IF runtime.configurations = <<>> THEN view ELSE runtime.configurations[1]
  IN  /\ Doing("blendModes") /\ Then("createActions")
      /\ \/ /\ system /\ first \in DOMAIN runtime.modes /\ runtime.modes[first] # <<>>
            /\ supported' = SeqRange(runtime.modes[first]) /\ detected' = TRUE
            /\ mode' = selectDefaultEnvironmentBlendMode(runtime.modes[first])
         \/ supported' = {"opaque"} /\ mode' = "opaque" /\ UNCHANGED detected
      /\ UNCHANGED <<runtime, options, changes, instanceVars, system, view, actionVars, shown>>

\* Those of the view configuration; opaque alone when they cannot be listed.
detectEnvironmentBlendModes ==
  /\ Doing("blendModes") /\ Then("createActions")
  /\ \/ /\ system /\ view \in DOMAIN runtime.modes /\ runtime.modes[view] # <<>>
        /\ supported' = SeqRange(runtime.modes[view]) /\ detected' = TRUE
        /\ mode' = selectDefaultEnvironmentBlendMode(runtime.modes[view])
     \/ supported' = {"opaque"} /\ mode' = "opaque" /\ UNCHANGED detected
  /\ UNCHANGED <<runtime, options, changes, instanceVars, system, view, actionVars, shown>>

\* The application may ask for any mode at any time.
setEnvironmentBlendMode(asked) ==
  /\ Doing("running")
  /\ mode' = IF asked \in supported THEN asked ELSE mode
  /\ UNCHANGED <<runtime, options, step, changes, instanceVars, system, view, supported, detected,
                 actionVars, shown>>

\* Both calls of xrEndFrame; no session, no frame.
EndFrame ==
  /\ Doing("running") /\ system
  /\ shown' = {mode}
  /\ UNCHANGED <<runtime, options, step, changes, instanceVars, system, blendVars, actionVars>>

---------------------------------------------------------------------------
(* Interaction profile *)

\* An action that is refused stays null; grip comes after aim.
createActions ==
  /\ Doing("createActions") /\ Then("bindActionSets")
  /\ \E lost \in Losses :
       actions' = IF enabled = None THEN {} ELSE (CoreActions \cup MenuActions) \ lost
  /\ UNCHANGED <<runtime, options, changes, instanceVars, system, blendVars, suggested, shown>>

\* xrSuggestInteractionProfileBindings: all of them or none.  A profile that the
\* runtime refuses for any other reason is one it does not have.
Accepts(profile, bindings) ==
  /\ bindings \subseteq actions
  /\ profile \in DOMAIN runtime.profiles /\ bindings \subseteq runtime.profiles[profile]

\* Plausible bug: the second suggestion is the first again.
TakenFromTwice(profile) ==
  LET bindings == IF options.menu THEN CoreActions \cup MenuActions ELSE CoreActions
  IN  IF Accepts(profile, bindings) THEN bindings ELSE {}

\* What a profile ends up with: everything, else the core bindings, else nothing.
TakenFrom(profile) ==
  LET all == IF options.menu THEN CoreActions \cup MenuActions ELSE CoreActions
  IN  CASE Accepts(profile, all) -> all
        [] ~Accepts(profile, all) /\ Accepts(profile, CoreActions) -> CoreActions
        [] OTHER -> {}

\* The first candidate that takes the bindings ends the search.
bindActionSets ==
  LET c == options.candidates
      First(i) == TakenFrom(c[i]) # {} /\ \A j \in 1 .. i - 1 : TakenFrom(c[j]) = {}
  IN  /\ Doing("bindActionSets") /\ Then("running")
      /\ suggested' = [p \in SeqRange(c) |->
                         IF \E i \in DOMAIN c : c[i] = p /\ First(i) THEN TakenFrom(p) ELSE {}]
      /\ UNCHANGED <<runtime, options, changes, instanceVars, system, blendVars, actions, shown>>

---------------------------------------------------------------------------
(* The specification *)

\* An optional extension comes or goes before the backend has listed them.
RuntimeChanges ==
  /\ step \in {"createInstance", "retry", "cacheInstanceExtensions"} /\ changes < MaxChanges
  /\ changes' = changes + 1
  /\ \E e \in extensionsForFeatures(DOMAIN FeatureExtensions) :
       runtime' = [runtime EXCEPT !.extensions = IF e \in @ THEN @ \ {e} ELSE @ \cup {e}]
  /\ UNCHANGED <<options, step, instanceVars, system, blendVars, actionVars, shown>>

Init ==
  /\ runtime \in Runtimes /\ options \in Options
  /\ step = "getRequiredInstanceExtensions" /\ changes = 0
  /\ required = {} /\ enabled = None /\ refused = FALSE /\ functions = {} /\ available = {}
  /\ system = FALSE
  /\ view = "stereo" /\ supported = {} /\ detected = FALSE /\ mode = "opaque"
  /\ actions = {} /\ suggested = [p \in SeqRange(options.candidates) |-> {}]
  /\ shown = None

Next ==
  \/ getRequiredInstanceExtensions \/ createXrInstance \/ retryXrInstance
  \/ cacheInstanceExtensions \/ loadInstanceFunctions \/ getSystem \/ SelectView
  \/ detectEnvironmentBlendModes \/ createActions \/ bindActionSets
  \/ \E asked \in BlendModes : setEnvironmentBlendMode(asked)
  \/ EndFrame \/ RuntimeChanges

Spec == Init /\ [][Next]_vars

TypeOK ==
  /\ step \in SeqRange(Steps) /\ changes \in 0 .. MaxChanges
  /\ required \subseteq baseline \cup arExtensionNames
  /\ enabled = None \/ enabled \subseteq required
  /\ functions \subseteq WithFunctions
  /\ refused \in BOOLEAN /\ system \in BOOLEAN /\ detected \in BOOLEAN
  /\ view \in ViewConfigurations /\ supported \subseteq BlendModes /\ mode \in BlendModes
  /\ \A p \in DOMAIN suggested : suggested[p] \subseteq actions
  /\ shown = None \/ \E m \in BlendModes : shown = {m}

---------------------------------------------------------------------------
(* Correctness *)

\* "Unsupported extensions are filtered out instead of failing instance
\* creation" (OpenXrOptions.hpp:108): wanting AR never costs the VR session.
\* Whatever features are asked for, and whatever extensions come or go between
\* the list and the call, the instance fails only for another reason: without
\* the baseline, or by an error other than EXTENSION_NOT_PRESENT, which the code
\* does not answer with a retry even when an extension of AR is its cause.
VrKept ==
  step \notin {"getRequiredInstanceExtensions", "createInstance", "retry"} /\ enabled = None =>
    refused \/ ~(baseline \subseteq runtime.extensions)

\* A frame is ended with a mode the runtime supports for the view configuration
\* the session runs with, whatever the application asked for, as far as the
\* runtime reported its modes.
BlendShown ==
  shown # None /\ detected =>
    view \in DOMAIN runtime.modes /\ shown \subseteq SeqRange(runtime.modes[view])

\* The optional bindings never cost the core ones, nor the preferred profile:
\* the first candidate that can take every core action has them, and no other
\* profile has any, as long as the actions themselves could be created.
ProfileChosen ==
  step = "running" /\ CoreActions \subseteq actions =>
    LET c == options.candidates
        Fits(i) == c[i] \in DOMAIN runtime.profiles /\ CoreActions \subseteq runtime.profiles[c[i]]
        First(i) == Fits(i) /\ \A j \in 1 .. i - 1 : ~Fits(j)
    IN  \A i \in DOMAIN c :
          /\ First(i) => CoreActions \subseteq suggested[c[i]]
          /\ suggested[c[i]] # {} => \E j \in DOMAIN c : c[j] = c[i] /\ First(j)
=============================================================================
