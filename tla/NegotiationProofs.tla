-------------------------- MODULE NegotiationProofs --------------------------
(***************************************************************************)
(* Wanting AR never costs the instance, and frames are ended with modes    *)
(* the runtime supports: for any runtimes and options and any number of    *)
(* changes of the runtime while evan negotiates with it.                   *)
(***************************************************************************)
EXTENDS Negotiation, TLAPS

\* The extensions of features are among those the retry gives up, and the
\* baseline is not.
LEMMA Optional ==
  /\ \A F \in SUBSET DOMAIN FeatureExtensions : extensionsForFeatures(F) \subseteq arExtensionNames
  /\ baseline \cap arExtensionNames = {}
<1>1. ASSUME NEW f \in DOMAIN FeatureExtensions
      PROVE  FeatureExtensions[f] \subseteq arExtensionNames
  <2>1. f \in {"passthrough", "handTracking", "handMesh", "scene", "anchors", "depth"}
    BY DEF FeatureExtensions
  <2> QED BY <2>1 DEF FeatureExtensions, arExtensionNames
<1>2. \A F \in SUBSET DOMAIN FeatureExtensions : extensionsForFeatures(F) \subseteq arExtensionNames
  BY <1>1, Zenon DEF extensionsForFeatures
<1>3. baseline \cap arExtensionNames = {}
  BY DEF baseline, arExtensionNames
<1> QED BY <1>2, <1>3

---------------------------------------------------------------------------
(* The instance *)

Before == {"getRequiredInstanceExtensions", "createInstance", "retry"}

\* What the platform asked for, and why there is no instance: at the retry an
\* extension was missing, one of the baseline if nothing else was asked for.
InstanceInv ==
  /\ IsRuntime(runtime)
  /\ options.features \subseteq DOMAIN FeatureExtensions
  /\ required \subseteq baseline \cup arExtensionNames
  /\ step # "getRequiredInstanceExtensions" => baseline \subseteq required
  /\ step = "retry" /\ required = baseline => ~(baseline \subseteq runtime.extensions)
  /\ step \notin Before /\ enabled = None => refused \/ ~(baseline \subseteq runtime.extensions)

\* A change of the runtime touches only optional extensions.
LEMMA ChangeKeeps ==
  ASSUME IsRuntime(runtime), RuntimeChanges
  PROVE  /\ IsRuntime(runtime')
         /\ runtime'.modes = runtime.modes
         /\ runtime'.configurations = runtime.configurations
         /\ baseline \subseteq runtime'.extensions <=> baseline \subseteq runtime.extensions
<1>1. PICK e \in extensionsForFeatures(DOMAIN FeatureExtensions) :
        runtime' = [runtime EXCEPT !.extensions = IF e \in @ THEN @ \ {e} ELSE @ \cup {e}]
  BY DEF RuntimeChanges
<1>2. e \notin baseline
  BY Optional, Zenon
<1>3. /\ DOMAIN runtime' = DOMAIN runtime
      /\ runtime'.modes = runtime.modes
      /\ runtime'.configurations = runtime.configurations
      /\ runtime'.extensions = IF e \in runtime.extensions THEN runtime.extensions \ {e}
                               ELSE runtime.extensions \cup {e}
  BY <1>1 DEF IsRuntime
<1>4. IsRuntime(runtime')
  BY <1>3 DEF IsRuntime
<1> QED BY <1>2, <1>3, <1>4

LEMMA InstanceInit == Init => InstanceInv
<1> SUFFICES ASSUME Init PROVE InstanceInv
  OBVIOUS
<1>1. IsRuntime(runtime) /\ options.features \subseteq DOMAIN FeatureExtensions
  BY NegotiationAssumption DEF Init
<1> QED BY <1>1 DEF Init, InstanceInv, Before

LEMMA InstanceStep == InstanceInv /\ [Next]_vars => InstanceInv'
<1> SUFFICES ASSUME InstanceInv, [Next]_vars PROVE InstanceInv'
  OBVIOUS
<1> USE DEF InstanceInv
<1>1. CASE getRequiredInstanceExtensions
  <2>1. PICK offered : required' = composeRequiredInstanceExtensions(offered)
    BY <1>1 DEF getRequiredInstanceExtensions
  <2>2. /\ required' \subseteq baseline \cup arExtensionNames
        /\ baseline \subseteq required'
    BY <2>1, Optional, Zenon DEF composeRequiredInstanceExtensions
  <2>3. step' = "createInstance" /\ UNCHANGED <<runtime, options>>
    BY <1>1 DEF getRequiredInstanceExtensions, Then
  <2> QED BY <2>2, <2>3 DEF Before
<1>2. CASE createXrInstance
  <2>1. /\ UNCHANGED <<runtime, options, required>>
        /\ step = "createInstance"
        /\ Create(required, "retry")
    BY <1>2 DEF createXrInstance, Doing
  <2>2. CASE enabled' = required /\ step' = "cacheInstanceExtensions"
    <3>1. "vulkan" \in required
      BY <2>1 DEF baseline
    <3>2. required # None
      BY <3>1 DEF None
    <3> QED BY <2>1, <2>2, <3>2
  <2>3. CASE ~(required \subseteq runtime.extensions) /\ step' = "retry"
    BY <2>1, <2>3 DEF Before
  <2>4. CASE refused' = TRUE /\ step' = "cacheInstanceExtensions"
    BY <2>1, <2>4
  <2> QED BY <2>1, <2>2, <2>3, <2>4 DEF Create, Then
<1>3. CASE retryXrInstance
  <2> DEFINE vrOnly == required \ arExtensionNames
  <2>1. /\ UNCHANGED <<runtime, options, required>>
        /\ step = "retry"
        /\ vrOnly # required => Create(vrOnly, "cacheInstanceExtensions")
        /\ vrOnly = required => step' = "cacheInstanceExtensions" /\ UNCHANGED <<enabled, refused>>
    BY <1>3 DEF retryXrInstance, Doing, Then
  <2>2. vrOnly = baseline
    BY <2>1, Optional
  <2>3. baseline # None
    BY DEF baseline, None
  <2>4. step' = "cacheInstanceExtensions"
    BY <2>1 DEF Create, Then
  <2>5. enabled' = None => refused' \/ ~(baseline \subseteq runtime.extensions)
    <3>1. CASE vrOnly = required
      BY <2>1, <2>2, <3>1
    <3>2. CASE vrOnly # required
      BY <2>1, <2>2, <2>3, <3>2 DEF Create
    <3> QED BY <3>1, <3>2
  <2> QED BY <2>1, <2>4, <2>5
<1>4. CASE RuntimeChanges
  <2>1. UNCHANGED <<options, step, required, enabled, refused>>
    BY <1>4 DEF RuntimeChanges, instanceVars
  <2> QED BY <1>4, <2>1, ChangeKeeps
<1>5. CASE cacheInstanceExtensions \/ loadInstanceFunctions \/ getSystem \/ SelectView
           \/ detectEnvironmentBlendModes \/ createActions \/ bindActionSets
           \/ (\E asked \in BlendModes : setEnvironmentBlendMode(asked)) \/ EndFrame
  <2>1. /\ UNCHANGED <<runtime, options, required, enabled, refused>>
        /\ step \notin Before /\ step' \notin Before
    BY <1>5 DEF cacheInstanceExtensions, loadInstanceFunctions, getSystem, SelectView,
         detectEnvironmentBlendModes, createActions, bindActionSets, setEnvironmentBlendMode,
         EndFrame, Doing, Then, Before, instanceVars
  <2> QED BY <2>1 DEF Before
<1>6. CASE UNCHANGED vars
  BY <1>6 DEF vars, instanceVars
<1> QED BY <1>1, <1>2, <1>3, <1>4, <1>5, <1>6 DEF Next

\* For any runtimes, options and number of changes, the AR options never cost
\* the instance: it is missing only if the runtime refused it for another
\* reason or lacks the baseline (createXrInstance and its retry).
THEOREM VrKeptAlways == Spec => []VrKept
<1>1. InstanceInv => VrKept
  BY DEF InstanceInv, VrKept, Before
<1> QED BY <1>1, InstanceInit, InstanceStep, PTL DEF Spec

---------------------------------------------------------------------------
(* Blend modes *)

BlendInv ==
  /\ IsRuntime(runtime)
  /\ step \in {"getRequiredInstanceExtensions", "createInstance", "retry",
               "cacheInstanceExtensions", "loadExtensionFunctions", "getSystem",
               "viewConfiguration", "blendModes"} => ~detected /\ shown = None
  /\ detected => /\ view \in DOMAIN runtime.modes
                 /\ supported = SeqRange(runtime.modes[view])
                 /\ mode \in supported
                 /\ shown = None \/ shown \subseteq supported

\* The default is one of the modes of a list that is not empty.
LEMMA DefaultSupported ==
  ASSUME NEW modes \in Seq(BlendModes), modes # <<>>
  PROVE  selectDefaultEnvironmentBlendMode(modes) \in SeqRange(modes)
BY DEF selectDefaultEnvironmentBlendMode, SeqRange

LEMMA BlendInit == Init => BlendInv
BY NegotiationAssumption DEF Init, BlendInv

LEMMA BlendStep == BlendInv /\ [Next]_vars => BlendInv'
<1> SUFFICES ASSUME BlendInv, [Next]_vars PROVE BlendInv'
  OBVIOUS
<1> USE DEF BlendInv
<1>1. CASE \/ getRequiredInstanceExtensions \/ createXrInstance \/ retryXrInstance
           \/ cacheInstanceExtensions \/ loadInstanceFunctions \/ getSystem
  <2>1. UNCHANGED <<runtime, blendVars, shown>>
    BY <1>1 DEF getRequiredInstanceExtensions, createXrInstance, retryXrInstance,
         cacheInstanceExtensions, loadInstanceFunctions, getSystem
  <2>2. step \in {"getRequiredInstanceExtensions", "createInstance", "retry",
                  "cacheInstanceExtensions", "loadExtensionFunctions", "getSystem"}
    BY <1>1 DEF getRequiredInstanceExtensions, createXrInstance, retryXrInstance,
         cacheInstanceExtensions, loadInstanceFunctions, getSystem, Doing
  <2> QED BY <2>1, <2>2 DEF blendVars
<1>2. CASE SelectView
  BY <1>2 DEF SelectView, Doing, Then
<1>3. CASE detectEnvironmentBlendModes
  <2>1. /\ UNCHANGED <<runtime, view, shown>> /\ step' = "createActions" /\ shown = None
        /\ ~detected
    BY <1>3 DEF detectEnvironmentBlendModes, Doing, Then
  <2>2. CASE detected'
    <3>1. /\ view \in DOMAIN runtime.modes /\ runtime.modes[view] # <<>>
          /\ supported' = SeqRange(runtime.modes[view])
          /\ mode' = selectDefaultEnvironmentBlendMode(runtime.modes[view])
      BY <1>3, <2>1, <2>2 DEF detectEnvironmentBlendModes
    <3>2. mode' \in SeqRange(runtime.modes[view])
      BY <3>1, DefaultSupported DEF IsRuntime
    <3> QED BY <2>1, <3>1, <3>2
  <2> QED BY <2>1, <2>2
<1>4. CASE \E asked \in BlendModes : setEnvironmentBlendMode(asked)
  BY <1>4 DEF setEnvironmentBlendMode, Doing
<1>5. CASE EndFrame
  BY <1>5 DEF EndFrame, blendVars, Doing
<1>6. CASE createActions \/ bindActionSets
  BY <1>6 DEF createActions, bindActionSets, blendVars, Doing, Then
<1>7. CASE RuntimeChanges
  <2>1. UNCHANGED <<step, blendVars, shown>>
    BY <1>7 DEF RuntimeChanges
  <2> QED BY <1>7, <2>1, ChangeKeeps DEF blendVars
<1>8. CASE UNCHANGED vars
  BY <1>8 DEF vars, blendVars
<1> QED BY <1>1, <1>2, <1>3, <1>4, <1>5, <1>6, <1>7, <1>8 DEF Next

\* For any runtime and whatever the application asks for, every frame is ended
\* with a mode the runtime reported for the view configuration in use.
THEOREM BlendShownAlways == Spec => []BlendShown
<1>1. BlendInv => BlendShown
  BY DEF BlendInv, BlendShown
<1> QED BY <1>1, BlendInit, BlendStep, PTL DEF Spec
---------------------------------------------------------------------------
(* Interaction profile *)

\* A profile the runtime can give every core action.
CoreFits(p) == p \in DOMAIN runtime.profiles /\ CoreActions \subseteq runtime.profiles[p]

\* What bindActionSets leaves: the bindings of the first candidate that took any.
Taken ==
  LET c == options.candidates
      First(i) == TakenFrom(c[i]) # {} /\ \A j \in 1 .. i - 1 : TakenFrom(c[j]) = {}
  IN  [p \in SeqRange(c) |->
         IF \E i \in DOMAIN c : c[i] = p /\ First(i) THEN TakenFrom(p) ELSE {}]

\* The runtime, the actions and the options no longer change once it runs.
ProfileInv == step = "running" => suggested = Taken

\* Both suggestions hold the core bindings, and the second holds no other: a
\* profile ends up with nothing exactly when it lacks an input for one of them.
LEMMA TakenFromCore ==
  ASSUME CoreActions \subseteq actions, NEW p
  PROVE  /\ TakenFrom(p) # {} <=> CoreFits(p)
         /\ CoreFits(p) => CoreActions \subseteq TakenFrom(p)
<1> DEFINE all == IF options.menu THEN CoreActions \cup MenuActions ELSE CoreActions
<1>1. CoreActions \subseteq all /\ CoreActions # {}
  BY DEF CoreActions
<1>2. Accepts(p, CoreActions) <=> CoreFits(p)
  BY DEF Accepts, CoreFits
<1>3. Accepts(p, all) => CoreFits(p)
  BY <1>1 DEF Accepts, CoreFits
<1>4. TakenFrom(p) = CASE Accepts(p, all) -> all
                       [] ~Accepts(p, all) /\ Accepts(p, CoreActions) -> CoreActions
                       [] OTHER -> {}
  BY DEF TakenFrom
<1> HIDE DEF all
<1>5. CASE Accepts(p, all)
  BY <1>1, <1>3, <1>4, <1>5
<1>6. CASE ~Accepts(p, all)
  BY <1>1, <1>2, <1>4, <1>6
<1> QED BY <1>5, <1>6

LEMMA ProfileStep == ProfileInv /\ [Next]_vars => ProfileInv'
<1> SUFFICES ASSUME ProfileInv, [Next]_vars, step' = "running"
             PROVE  suggested' = Taken'
  BY DEF ProfileInv
<1>1. CASE bindActionSets
  <2>1. suggested' = Taken
    BY <1>1 DEF bindActionSets, Taken
  <2>2. UNCHANGED <<runtime, options, actions>>
    BY <1>1 DEF bindActionSets
  <2> QED BY <2>1, <2>2 DEF Taken, TakenFrom, Accepts
<1>2. CASE (\E asked \in BlendModes : setEnvironmentBlendMode(asked)) \/ EndFrame \/ UNCHANGED vars
  <2>1. UNCHANGED <<runtime, options, step, actions, suggested>>
    BY <1>2 DEF setEnvironmentBlendMode, EndFrame, vars, actionVars
  <2> QED BY <2>1 DEF ProfileInv, Taken, TakenFrom, Accepts
<1>3. CASE \/ getRequiredInstanceExtensions \/ createXrInstance \/ retryXrInstance
           \/ cacheInstanceExtensions \/ loadInstanceFunctions \/ getSystem \/ SelectView
           \/ detectEnvironmentBlendModes \/ createActions \/ RuntimeChanges
  BY <1>3 DEF getRequiredInstanceExtensions, createXrInstance, retryXrInstance, Create,
       cacheInstanceExtensions, loadInstanceFunctions, getSystem, SelectView,
       detectEnvironmentBlendModes, createActions, RuntimeChanges, Doing, Then
<1> QED BY <1>1, <1>2, <1>3 DEF Next

LEMMA ProfileInvImplies == ProfileInv => ProfileChosen
<1> SUFFICES ASSUME ProfileInv, step = "running", CoreActions \subseteq actions
             PROVE  LET c == options.candidates
                        First(i) == CoreFits(c[i]) /\ \A j \in 1 .. i - 1 : ~CoreFits(c[j])
                    IN  \A i \in DOMAIN c :
                          /\ First(i) => CoreActions \subseteq suggested[c[i]]
                          /\ suggested[c[i]] # {} => \E j \in DOMAIN c : c[j] = c[i] /\ First(j)
  BY DEF ProfileChosen, CoreFits
<1> DEFINE c == options.candidates
           First(i) == CoreFits(c[i]) /\ \A j \in 1 .. i - 1 : ~CoreFits(c[j])
<1> SUFFICES ASSUME NEW i \in DOMAIN c
             PROVE  /\ First(i) => CoreActions \subseteq suggested[c[i]]
                    /\ suggested[c[i]] # {} => \E j \in DOMAIN c : c[j] = c[i] /\ First(j)
  OBVIOUS
<1>1. \A j : First(j) <=> TakenFrom(c[j]) # {} /\ \A n \in 1 .. j - 1 : TakenFrom(c[n]) = {}
  BY TakenFromCore
<1>2. c[i] \in SeqRange(c)
  BY DEF SeqRange
<1>3. suggested = Taken
  BY DEF ProfileInv
<1>4. suggested[c[i]] = IF \E j \in DOMAIN c : c[j] = c[i] /\ First(j) THEN TakenFrom(c[i]) ELSE {}
  BY <1>1, <1>2, <1>3 DEF Taken
<1> HIDE DEF c
<1>5. First(i) => CoreActions \subseteq TakenFrom(c[i])
  BY TakenFromCore
<1> HIDE DEF First
<1> QED BY <1>4, <1>5

\* For any runtime, candidates and options, the bindings of menu and system cost
\* neither the core bindings nor the preferred profile: the first candidate that
\* takes every core action has them and the others have none (bindActionSets).
THEOREM ProfileChosenAlways == Spec => []ProfileChosen
<1>1. Init => ProfileInv
  BY DEF Init, ProfileInv
<1> QED BY <1>1, ProfileStep, ProfileInvImplies, PTL DEF Spec
=============================================================================
