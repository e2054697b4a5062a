--------------------------- MODULE LifecycleProofs ---------------------------
(***************************************************************************)
(* The proofs about Lifecycle.                                             *)
(*                                                                         *)
(* 1. The cache (IInv): whatever the process that uses it is killed        *)
(*    between, for any number of pieces and any devices, the file is       *)
(*    absent or whole.  Every step of the process of Lifecycle is a step   *)
(*    of PipelineCache or leaves the cache alone, so this holds of it too. *)
(* 2. The handles (HandlesInv): what each passed step of the set-up has    *)
(*    surely made, and what the destruction still has to take down, in an  *)
(*    order in which children come first.                                  *)
(* 3. The targets (TargetsInv): what the render pass, the framebuffers and *)
(*    the pipelines were made from, step by step.                          *)
(***************************************************************************)
EXTENDS Lifecycle, TLAPS, WellFoundedInduction, NaturalsInduction, FiniteSetTheorems

---------------------------------------------------------------------------
(* The cache: one process uses the directory *)

State == [pc : Pcs, device : Devices \cup {NoDevice}, given : Contents \cup {NoFile},
          handle : BOOLEAN, persistent : BOOLEAN, next : 1 .. Full + 1,
          at : {"tmp", "file", "gone"}]

WholeOf(d) == [i \in Pieces |-> d]
Written(n, d) == [i \in Pieces |-> IF i < n THEN d ELSE NoDevice]

\* What the temporary file holds at each point of writeBlob.
Temporary(p) ==
  LET r == proc[p]
  IN  /\ r.pc # "off" => r.device \in Devices
      /\ r.pc = "write" => r.at = "tmp" /\ r.next \in 1 .. Full /\ tmp = Written(r.next, r.device)
      /\ r.pc = "close" => r.at = "tmp" /\ tmp = WholeOf(r.device)
      /\ r.pc \in {"rename", "removeOld", "renameAgain"} /\ tmp # NoFile =>
           lost \/ tmp = WholeOf(r.device)

IInv ==
  /\ CacheTypeOK /\ CacheWhole /\ GivenFits
  /\ \A p \in Procs : Temporary(p)

LEMMA Constants ==
  /\ Full \in Nat /\ Full >= 2 /\ NoDevice \notin Devices
  /\ Empty \in Contents /\ Empty = Written(1, NoDevice)
  /\ \A d \in Devices : WholeOf(d) \in Contents /\ Whole(WholeOf(d)) /\ Written(Full + 1, d) = WholeOf(d)
  /\ \A d \in Devices : Written(1, d) = Empty
  /\ \A c \in Contents : c # NoFile
<1>1. Full \in Nat /\ Full >= 2 /\ NoDevice \notin Devices
  BY CacheAssumption
<1>2. 1 \in Pieces
  BY <1>1 DEF Pieces
<1>3. Empty \in Contents /\ Empty = Written(1, NoDevice)
  BY <1>1 DEF Empty, Contents, Written, Pieces
<1>4. ASSUME NEW d \in Devices
      PROVE  /\ WholeOf(d) \in Contents /\ Whole(WholeOf(d))
             /\ Written(Full + 1, d) = WholeOf(d) /\ Written(1, d) = Empty
  BY <1>1 DEF WholeOf, Contents, Whole, Written, Pieces, Empty
<1>5. ASSUME NEW c \in Contents PROVE c # NoFile
  <2>1. DOMAIN c = Pieces /\ DOMAIN NoFile = {}
    BY DEF Contents, NoFile
  <2> QED BY <1>2, <2>1
<1> QED BY <1>1, <1>3, <1>4, <1>5

LEMMA InitInv == CacheInit => IInv
<1> SUFFICES ASSUME CacheInit PROVE IInv
  OBVIOUS
<1>1. Off \in State
  BY Constants DEF Off, State, Pcs
<1>2. CacheTypeOK
  BY <1>1 DEF CacheInit, CacheTypeOK, State
<1>3. \A p \in Procs : proc[p] = Off
  BY DEF CacheInit
<1>4. \A p \in Procs : proc[p].pc = "off" /\ proc[p].given = NoFile
  BY <1>3 DEF Off
<1> QED BY <1>2, <1>4 DEF IInv, CacheInit, CacheWhole, GivenFits, Temporary

\* A blob that starts with a device is all of that device.
LEMMA ReusedFits ==
  ASSUME IInv, NEW d \in Devices, NEW persistent, Reusable(d, persistent)
  PROVE  lost \/ file = WholeOf(d)
<1> SUFFICES ASSUME ~lost PROVE file = WholeOf(d)
  OBVIOUS
<1>1. file # NoFile /\ file[1] = d
  BY DEF Reusable, isBlobCompatible
<1>2. PICK e \in Devices : file = [i \in Pieces |-> e]
  BY <1>1 DEF IInv, CacheWhole, Whole
<1>3. 1 \in Pieces
  BY Constants DEF Pieces
<1>4. file[1] = e
  BY <1>2, <1>3
<1> QED BY <1>1, <1>2, <1>4 DEF WholeOf

\* A piece put into the temporary file extends what was written.
LEMMA PieceExtends ==
  ASSUME NEW n \in 1 .. Full, NEW d \in Devices
  PROVE  /\ [Written(n, d) EXCEPT ![n] = d] = Written(n + 1, d)
         /\ Written(n + 1, d) \in Contents
<1>1. \A i \in Pieces : i < n + 1 <=> i < n \/ i = n
  BY Constants DEF Pieces
<1>2. [Written(n, d) EXCEPT ![n] = d]
        = [i \in Pieces |-> IF i = n THEN d ELSE IF i < n THEN d ELSE NoDevice]
  BY DEF Written
<1>3. @ = Written(n + 1, d)
  BY <1>1 DEF Written
<1>4. Written(n + 1, d) \in Contents
  BY DEF Written, Contents
<1> QED BY <1>2, <1>3, <1>4

---------------------------------------------------------------------------
(* One process, whose state is r before a step and s after it. *)

LEMMA OneProcess ==
  ASSUME NEW p, Procs = {p}, IInv,
         file' \in Contents \cup {NoFile}, tmp' \in Contents \cup {NoFile}, lost' \in BOOLEAN,
         NEW s \in State, proc' = [q \in Procs |-> s],
         CacheWhole',
         s.given # NoFile => lost' \/ s.given = WholeOf(s.device),
         s.pc # "off" => s.device \in Devices,
         s.pc = "write" => s.at = "tmp" /\ s.next \in 1 .. Full /\ tmp' = Written(s.next, s.device),
         s.pc = "close" => s.at = "tmp" /\ tmp' = WholeOf(s.device),
         s.pc \in {"rename", "removeOld", "renameAgain"} /\ tmp' # NoFile =>
           lost' \/ tmp' = WholeOf(s.device)
  PROVE  IInv'
<1>1. \A q \in Procs : proc'[q] = s
  OBVIOUS
<1>2. CacheTypeOK'
  BY DEF CacheTypeOK, State
<1>3. GivenFits'
  BY <1>1 DEF GivenFits, WholeOf
<1>4. \A q \in Procs : Temporary(q)'
  BY <1>1 DEF Temporary
<1> QED BY <1>2, <1>3, <1>4 DEF IInv

LEMMA StepInv ==
  ASSUME NEW p, Procs = {p}
  PROVE  IInv /\ [CacheNext]_cacheVars => IInv'
<1> SUFFICES ASSUME IInv, [CacheNext]_cacheVars PROVE IInv'
  OBVIOUS
<1> DEFINE r == proc[p]
<1>r. /\ r \in State /\ proc = [q \in Procs |-> r] /\ p \in Procs
      /\ file \in Contents \cup {NoFile} /\ tmp \in Contents \cup {NoFile} /\ lost \in BOOLEAN
      /\ CacheWhole
      /\ r.given # NoFile => lost \/ r.given = WholeOf(r.device)
      /\ r.pc # "off" => r.device \in Devices
      /\ r.pc = "write" => r.at = "tmp" /\ r.next \in 1 .. Full /\ tmp = Written(r.next, r.device)
      /\ r.pc = "close" => r.at = "tmp" /\ tmp = WholeOf(r.device)
      /\ r.pc \in {"rename", "removeOld", "renameAgain"} /\ tmp # NoFile =>
           lost \/ tmp = WholeOf(r.device)
  BY DEF IInv, CacheTypeOK, State, GivenFits, WholeOf, Temporary
<1> HIDE DEF r
\* A step that only moves to a point of the code where nothing is claimed of
\* the temporary file.
<1>g. ASSUME NEW pc \in {"open", "done", "removeTmp", "removeOld"}, Goto(p, pc),
             UNCHANGED <<file, lost>>, tmp' = tmp, r.pc # "off",
             pc = "removeOld" => r.pc = "rename"
      PROVE  IInv'
  <2> DEFINE s == [r EXCEPT !.pc = pc]
  <2>1. s \in State /\ proc' = [q \in Procs |-> s]
    BY <1>r, <1>g DEF Goto, State, Pcs, r
  <2>2. s.pc = pc /\ s.device = r.device /\ s.given = r.given
    BY <1>r DEF State
  <2> HIDE DEF s
  <2>3. CacheWhole'
    BY <1>r, <1>g DEF CacheWhole
  <2> QED BY <1>r, <1>g, <2>1, <2>2, <2>3, OneProcess
<1>1. CASE Start(p)
  <2>1. PICK d \in Devices, persistent \in getPipelineCachePath, accepted \in BOOLEAN,
             created \in BOOLEAN : StartOn(p, d, persistent, accepted, created)
    BY <1>1 DEF Start
  <2> DEFINE given == IF accepted THEN file ELSE NoFile
             s == [pc |-> "running", device |-> d, given |-> given, handle |-> created,
                   persistent |-> persistent, next |-> 1, at |-> "gone"]
  <2>0. given \in Contents \cup {NoFile}
    BY <1>r
  <2> HIDE DEF given
  <2>2. /\ proc' = [q \in Procs |-> s] /\ UNCHANGED <<file, tmp, lost>>
        /\ accepted => Reusable(d, persistent)
    <3>1. proc' = [proc EXCEPT ![p] = s]
      BY <2>1 DEF StartOn, given
    <3> HIDE DEF s
    <3> QED BY <1>r, <2>1, <3>1 DEF StartOn
  <2>3. s \in State /\ s.pc = "running" /\ s.device = d /\ s.given = given
    <3>1. 1 \in 1 .. Full + 1 /\ "running" \in Pcs /\ d \in Devices \cup {NoDevice}
          /\ persistent \in BOOLEAN /\ created \in BOOLEAN
      BY <2>1, Constants DEF Pcs, getPipelineCachePath
    <3> QED BY <2>0, <3>1, Zenon DEF State
  <2> HIDE DEF s
  <2>4. s.given # NoFile => lost \/ s.given = WholeOf(s.device)
    BY <2>2, <2>3, ReusedFits DEF given
  <2>5. CacheWhole'
    BY <1>r, <2>2 DEF CacheWhole
  <2> QED BY <1>r, <2>2, <2>3, <2>4, <2>5, OneProcess
<1>2. CASE persist(p)
  <2>1. r.pc # "off" /\ UNCHANGED <<file, tmp, lost>>
    BY <1>2 DEF persist, At, r
  <2> QED BY <1>2, <1>g, <2>1 DEF persist
<1>3. CASE OpenTemporary(p)
  <2>1. r.pc = "open" /\ UNCHANGED <<file, lost>>
    BY <1>3 DEF OpenTemporary, At, r
  <2>2. CASE Goto(p, "done") /\ UNCHANGED tmp
    BY <2>1, <2>2, <1>g
  <2>3. CASE tmp' = Empty
             /\ proc' = [proc EXCEPT ![p] = [@ EXCEPT !.pc = "write", !.next = 1, !.at = "tmp"]]
    <3> DEFINE s == [r EXCEPT !.pc = "write", !.next = 1, !.at = "tmp"]
    <3>0. 1 \in 1 .. Full + 1 /\ proc[p] = r
      BY Constants DEF r
    <3>1. s \in State /\ proc' = [q \in Procs |-> s]
      <4>1. s \in State
        BY <1>r, <3>0 DEF State, Pcs
      <4>2. proc' = [proc EXCEPT ![p] = s]
        BY <2>3, <3>0
      <4> HIDE DEF s
      <4> QED BY <1>r, <4>1, <4>2
    <3>2. /\ s.pc = "write" /\ s.next = 1 /\ s.at = "tmp"
          /\ s.device = r.device /\ s.given = r.given
      BY <1>r DEF State
    <3> HIDE DEF s
    <3>3. tmp' = Written(1, s.device) /\ tmp' \in Contents
      BY <1>r, <2>1, <2>3, <3>2, Constants
    <3>4. CacheWhole'
      BY <1>r, <2>1 DEF CacheWhole
    <3>5. s.device \in Devices /\ s.next \in 1 .. Full
      BY <1>r, <2>1, <3>2, Constants
    <3>6. s.given # NoFile => lost' \/ s.given = WholeOf(s.device)
      BY <1>r, <2>1, <3>2
    <3> QED BY <1>r, <2>1, <3>1, <3>2, <3>3, <3>4, <3>5, <3>6, OneProcess
  <2> QED BY <1>3, <2>2, <2>3 DEF OpenTemporary
<1>4. CASE WritePiece(p)
  <2>1. r.pc = "write" /\ lost' = lost
    BY <1>4 DEF WritePiece, At, r
  <2>2. CASE Goto(p, "removeTmp") /\ UNCHANGED <<file, tmp>>
    BY <2>1, <2>2, <1>g
  <2>3. CASE /\ Put(p, r.next, r.device)
             /\ proc' = [proc EXCEPT ![p] =
                  [@ EXCEPT !.next = r.next + 1, !.pc = IF r.next = Full THEN "close" ELSE "write"]]
    <3> DEFINE pc == IF r.next = Full THEN "close" ELSE "write"
               s == [r EXCEPT !.next = r.next + 1, !.pc = pc]
    <3>1. r.next \in 1 .. Full /\ r.device \in Devices /\ r.at = "tmp"
      BY <1>r, <2>1
    <3>0. r.next + 1 \in 1 .. Full + 1 /\ proc[p] = r /\ pc \in Pcs
      BY <3>1, Constants DEF Pcs, r
    <3>a. pc = IF r.next = Full THEN "close" ELSE "write"
      OBVIOUS
    <3>b. proc' = [proc EXCEPT ![p] = s]
      BY <2>3, <3>0
    <3> HIDE DEF pc
    <3>2. s \in State /\ proc' = [q \in Procs |-> s]
      <4>1. s \in State
        BY <1>r, <3>0 DEF State
      <4> HIDE DEF s
      <4> QED BY <1>r, <3>b, <4>1
    <3>3. /\ s.pc = pc /\ s.next = r.next + 1
          /\ s.at = "tmp" /\ s.device = r.device /\ s.given = r.given
      BY <1>r, <3>1 DEF State
    <3>4. /\ file' = file
          /\ tmp' = [Written(r.next, r.device) EXCEPT ![r.next] = r.device]
      BY <1>r, <2>1, <2>3, <3>1 DEF Put, r
    <3> HIDE DEF s
    <3>5. tmp' = Written(s.next, s.device) /\ tmp' \in Contents
      BY <3>1, <3>3, <3>4, PieceExtends
    <3>6. s.pc = "close" => tmp' = WholeOf(s.device)
      BY <3>1, <3>3, <3>5, <3>a, Constants
    <3>7. s.pc = "write" => s.next \in 1 .. Full
      BY <3>1, <3>3, <3>a, Constants
    <3>8. CacheWhole'
      BY <1>r, <2>1, <3>4 DEF CacheWhole
    <3> QED BY <1>r, <2>1, <3>1, <3>2, <3>3, <3>4, <3>5, <3>6, <3>7, <3>8, <3>a, OneProcess
  <2> QED BY <1>4, <2>2, <2>3 DEF WritePiece, r
<1>5. CASE CloseTemporary(p)
  <2> DEFINE s == [r EXCEPT !.pc = "rename"]
  <2>1. r.pc = "close" /\ s \in State /\ proc' = [q \in Procs |-> s]
    BY <1>r, <1>5 DEF CloseTemporary, At, Goto, State, Pcs, r
  <2>2. s.pc = "rename" /\ s.device = r.device /\ s.given = r.given
    BY <1>r DEF State
  <2>3. tmp = WholeOf(r.device) /\ r.device \in Devices /\ r.at = "tmp"
    BY <1>r, <2>1
  <2>4. /\ file' = file
        /\ \/ tmp' = tmp /\ lost' = lost
           \/ tmp' = [tmp EXCEPT ![Full] = NoDevice] /\ lost' = TRUE
    BY <1>5, <2>3 DEF CloseTemporary, Put, r
  <2>5. tmp' \in Contents \cup {NoFile}
    BY <1>r, <2>3, <2>4, Constants DEF Contents, WholeOf
  <2> HIDE DEF s
  <2>6. CacheWhole' /\ lost' \in BOOLEAN
    BY <1>r, <2>4 DEF CacheWhole
  <2>7. /\ s.given # NoFile => lost' \/ s.given = WholeOf(s.device)
        /\ lost' \/ tmp' = WholeOf(s.device)
    BY <1>r, <2>2, <2>3, <2>4
  <2> QED BY <1>r, <2>1, <2>2, <2>3, <2>4, <2>5, <2>6, <2>7, OneProcess
\* The temporary file becomes the file, or the rename is refused.
<1>n. ASSUME NEW refused \in {"removeOld", "removeTmp"}, Rename(p, refused), UNCHANGED lost,
             r.pc \in {"rename", "renameAgain"}, refused = "removeOld" => r.pc = "rename"
      PROVE  IInv'
  <2>1. CASE Goto(p, refused) /\ UNCHANGED <<file, tmp>>
    BY <1>n, <2>1, <1>g
  <2>2. CASE /\ tmp # NoFile /\ file' = tmp /\ tmp' = NoFile
             /\ proc' = Following(p, "persisted", Moved("tmp", "file"))
    <3> DEFINE at == Moved("tmp", "file")[p]
               s == [[r EXCEPT !.at = at] EXCEPT !.pc = "persisted"]
    <3>1. at \in {"tmp", "file", "gone"}
      BY <1>r DEF Moved, State, r
    <3> HIDE DEF at
    <3>2. proc' = [q \in Procs |-> [r EXCEPT !.at = at, !.pc = "persisted"]]
      BY <1>r, <2>2 DEF Following, at, r
    <3>3. s \in State /\ proc' = [q \in Procs |-> s]
      BY <1>r, <3>1, <3>2 DEF State, Pcs
    <3>4. s.pc = "persisted" /\ s.device = r.device /\ s.given = r.given
      BY <1>r DEF State
    <3> HIDE DEF s
    <3>5. lost \/ tmp = WholeOf(r.device)
      BY <1>r, <1>n, <2>2
    <3>6. CacheWhole'
      BY <1>r, <1>n, <2>2, <3>5, Constants DEF CacheWhole
    <3> QED BY <1>r, <1>n, <2>2, <3>3, <3>4, <3>6, OneProcess
  <2> QED BY <1>n, <2>1, <2>2 DEF Rename
<1>6. CASE RenameOver(p)
  BY <1>6, <1>n DEF RenameOver, At, r
<1>7. CASE RemoveOld(p)
  <2> DEFINE at == Moved("file", "gone")[p]
             s == [[r EXCEPT !.at = at] EXCEPT !.pc = "renameAgain"]
  <2>0. /\ r.pc = "removeOld" /\ file' = NoFile /\ UNCHANGED <<tmp, lost>>
        /\ proc' = Following(p, "renameAgain", Moved("file", "gone"))
    BY <1>7 DEF RemoveOld, At, r
  <2>1. at \in {"tmp", "file", "gone"}
    BY <1>r DEF Moved, State, r
  <2> HIDE DEF at
  <2>2. proc' = [q \in Procs |-> [r EXCEPT !.at = at, !.pc = "renameAgain"]]
    BY <1>r, <2>0 DEF Following, at, r
  <2>3. s \in State /\ proc' = [q \in Procs |-> s]
    BY <1>r, <2>1, <2>2 DEF State, Pcs
  <2>4. s.pc = "renameAgain" /\ s.device = r.device /\ s.given = r.given
    BY <1>r DEF State
  <2> HIDE DEF s
  <2>5. CacheWhole'
    BY <2>0 DEF CacheWhole
  <2> QED BY <1>r, <2>0, <2>3, <2>4, <2>5, OneProcess
<1>8. CASE RenameAgain(p)
  BY <1>8, <1>n DEF RenameAgain, At, r
<1>9. CASE RemoveTemporary(p)
  <2> DEFINE at == Moved("tmp", "gone")[p]
             s == [[r EXCEPT !.at = at] EXCEPT !.pc = "done"]
  <2>0. /\ r.pc = "removeTmp" /\ tmp' = NoFile /\ UNCHANGED <<file, lost>>
        /\ proc' = Following(p, "done", Moved("tmp", "gone"))
    BY <1>9 DEF RemoveTemporary, At, r
  <2>1. at \in {"tmp", "file", "gone"}
    BY <1>r DEF Moved, State, r
  <2> HIDE DEF at
  <2>2. proc' = [q \in Procs |-> [r EXCEPT !.at = at, !.pc = "done"]]
    BY <1>r, <2>0 DEF Following, at, r
  <2>3. s \in State /\ proc' = [q \in Procs |-> s]
    BY <1>r, <2>1, <2>2 DEF State, Pcs
  <2>4. s.pc = "done" /\ s.device = r.device /\ s.given = r.given
    BY <1>r DEF State
  <2> HIDE DEF s
  <2>5. CacheWhole'
    BY <1>r, <2>0 DEF CacheWhole
  <2> QED BY <1>r, <2>0, <2>3, <2>4, <2>5, OneProcess
<1>10. CASE Stop(p)
  <2>1. proc' = [q \in Procs |-> Off] /\ UNCHANGED <<file, tmp, lost>>
    BY <1>r, <1>10 DEF Stop
  <2>2. Off \in State /\ Off.pc = "off" /\ Off.given = NoFile
    BY Constants DEF Off, State, Pcs
  <2>3. CacheWhole'
    BY <1>r, <2>1 DEF CacheWhole
  <2> QED BY <1>r, <2>1, <2>2, <2>3, OneProcess
<1>11. CASE UNCHANGED cacheVars
  BY <1>11 DEF cacheVars, IInv, CacheTypeOK, CacheWhole, GivenFits, Temporary
<1> QED
  BY <1>1, <1>2, <1>3, <1>4, <1>5, <1>6, <1>7, <1>8, <1>9, <1>10, <1>11 DEF CacheNext, writeBlob

---------------------------------------------------------------------------

\* When one process uses the directory, the cache file is absent or whole at
\* every moment (unless closing the stream lost data unseen), for any devices
\* and any number of pieces, wherever the process is killed (writeBlob).
THEOREM CacheWholeAlways ==
  ASSUME NEW p, Procs = {p} PROVE CacheSpec => []CacheWhole
<1>1. IInv => CacheWhole
  BY DEF IInv
<1> QED BY <1>1, InitInv, StepInv, PTL DEF CacheSpec

\* Under the same assumption the driver is only given a complete blob of the
\* device it runs on (loadBlob, isBlobCompatible).
THEOREM GivenFitsAlways ==
  ASSUME NEW p, Procs = {p} PROVE CacheSpec => []GivenFits
<1>1. IInv => GivenFits
  BY DEF IInv
<1> QED BY <1>1, InitInv, StepInv, PTL DEF CacheSpec

---------------------------------------------------------------------------
(* The process *)

LEMMA SelfOnly == Procs = {Self}
<1>1. PICK p \in Procs : Procs = {p}
  BY LifecycleAssumption
<1>2. Self \in Procs
  BY <1>1 DEF Self
<1> QED BY <1>1, <1>2

---------------------------------------------------------------------------
(* The steps of the set-up by their place *)

\* The names of the steps in the order in which the constructors take them.
DesktopSteps ==
  <<"window", "createInstance", "createSurface", "pickPhysicalDevice", "createLogicalDevice",
    "setupDebugMessenger", "createCommandPool", "transferManager", "pipelineCache",
    "setMsaaSamples", "createRenderPass", "DesktopSwapchainImage", "setCallback",
    "RessourceManager", "createDescriptorSetLayout", "createGraphicsPipelines",
    "createDescriptorPool", "frames">>
XrSteps ==
  <<"createXrInstance", "getSystem", "xrCreateInstance", "xrPickPhysicalDevice",
    "xrCreateLogicalDevice", "createSession", "createVisualizedSpace", "XrManageActions",
    "setupDebugMessenger", "createCommandPool", "transferManager", "pipelineCache",
    "setMsaaSamples", "createSwapchains", "xrCreateRenderPass", "buildSwapchainImages",
    "RessourceManager", "createDescriptorSetLayout", "createGraphicsPipelines",
    "createDescriptorPool", "frames">>
StepNames == {DesktopSteps[i] : i \in 1 .. 18} \cup {XrSteps[i] : i \in 1 .. 21}

\* Appending what comes next makes a longer prefix.
LEMMA PrefixGrows ==
  ASSUME NEW S, NEW w \in Seq(S), NEW n \in Nat, NEW m \in Nat, n + m <= Len(w),
         NEW b \in Seq(S), Len(b) = m, \A i \in 1 .. m : b[i] = w[n + i]
  PROVE  SubSeq(w, 1, n) \o b = SubSeq(w, 1, n + m)
OBVIOUS

\* Where the elements of a concatenation come from.
LEMMA ConcatAt ==
  ASSUME NEW S, NEW a \in Seq(S), NEW b \in Seq(S)
  PROVE  /\ a \o b \in Seq(S) /\ Len(a \o b) = Len(a) + Len(b)
         /\ \A i \in 1 .. Len(a) + Len(b) : (a \o b)[i] = IF i <= Len(a) THEN a[i] ELSE b[i - Len(a)]
OBVIOUS

\* The longest prefix is the sequence.
LEMMA WholePrefix ==
  ASSUME NEW S, NEW w \in Seq(S)
  PROVE  SubSeq(w, 1, Len(w)) = w
OBVIOUS

\* The constructors, each calling the next, take these steps.
LEMMA DesktopEngineSteps == DesktopEngine = DesktopSteps
<1> DEFINE P(n) == SubSeq(DesktopSteps, 1, n)
           Follows(s, n, m) == s \in Seq(StepNames) /\ Len(s) = m
                               /\ \A i \in 1 .. m : s[i] = DesktopSteps[n + i]
           Msaa == <<"setMsaaSamples">>
           Resources == <<"RessourceManager">>
<1>1. DesktopSteps \in Seq(StepNames) /\ Len(DesktopSteps) = 18
  BY DEF DesktopSteps, StepNames
<1>2. DesktopBackend = P(5)
  BY DEF DesktopBackend, DesktopSteps
<1>3. /\ Follows(DeviceContext, 5, 4) /\ Follows(Msaa, 9, 1) /\ Follows(DesktopSwapchainContext, 10, 3)
      /\ Follows(Resources, 13, 1) /\ Follows(Renderer, 14, 4)
  BY DEF DeviceContext, DesktopSwapchainContext, Renderer, DesktopSteps, StepNames
<1>4. DesktopEngine = DesktopBackend \o DeviceContext \o Msaa \o DesktopSwapchainContext
                      \o Resources \o Renderer
  BY DEF DesktopEngine, EngineOn
<1>5. ASSUME NEW n \in Nat, NEW m \in Nat, n + m <= 18, NEW s, Follows(s, n, m)
      PROVE  P(n) \o s = P(n + m)
  BY <1>1, <1>5, PrefixGrows
<1> HIDE DEF P, Follows, Msaa, Resources
<1>6. P(5) \o DeviceContext = P(9)
  BY <1>3, <1>5
<1>7. P(9) \o Msaa = P(10)
  BY <1>3, <1>5
<1>8. P(10) \o DesktopSwapchainContext = P(13)
  BY <1>3, <1>5
<1>9. P(13) \o Resources = P(14)
  BY <1>3, <1>5
<1>10. P(14) \o Renderer = P(18)
  BY <1>3, <1>5
<1>11. P(18) = DesktopSteps
  BY <1>1, WholePrefix DEF P
<1> QED BY <1>2, <1>4, <1>6, <1>7, <1>8, <1>9, <1>10, <1>11

LEMMA XrEngineSteps == XrEngine = XrSteps
<1> DEFINE P(n) == SubSeq(XrSteps, 1, n)
           Follows(s, n, m) == s \in Seq(StepNames) /\ Len(s) = m
                               /\ \A i \in 1 .. m : s[i] = XrSteps[n + i]
           Msaa == <<"setMsaaSamples">>
           Resources == <<"RessourceManager">>
<1>1. XrSteps \in Seq(StepNames) /\ Len(XrSteps) = 21
  BY DEF XrSteps, StepNames
<1>2. XrDeviceBackend = P(8)
  BY DEF XrDeviceBackend, XrSteps
<1>3. /\ Follows(DeviceContext, 8, 4) /\ Follows(Msaa, 12, 1) /\ Follows(XrSwapchainContext, 13, 3)
      /\ Follows(Resources, 16, 1) /\ Follows(Renderer, 17, 4)
  BY DEF DeviceContext, XrSwapchainContext, Renderer, XrSteps, StepNames
<1>4. XrEngine = XrDeviceBackend \o DeviceContext \o Msaa \o XrSwapchainContext \o Resources \o Renderer
  BY DEF XrEngine, EngineOn
<1>5. ASSUME NEW n \in Nat, NEW m \in Nat, n + m <= 21, NEW s, Follows(s, n, m)
      PROVE  P(n) \o s = P(n + m)
  BY <1>1, <1>5, PrefixGrows
<1> HIDE DEF P, Follows, Msaa, Resources
<1>6. P(8) \o DeviceContext = P(12)
  BY <1>3, <1>5
<1>7. P(12) \o Msaa = P(13)
  BY <1>3, <1>5
<1>8. P(13) \o XrSwapchainContext = P(16)
  BY <1>3, <1>5
<1>9. P(16) \o Resources = P(17)
  BY <1>3, <1>5
<1>10. P(17) \o Renderer = P(21)
  BY <1>3, <1>5
<1>11. P(21) = XrSteps
  BY <1>1, WholePrefix DEF P
<1> QED BY <1>2, <1>4, <1>6, <1>7, <1>8, <1>9, <1>10, <1>11

---------------------------------------------------------------------------
(* The device the cache is opened on *)

\* The set-up of a desktop picks the physical device before it opens the cache.
LEMMA DesktopOrder ==
  /\ DesktopEngine[4] = "pickPhysicalDevice"
  /\ \A i \in 1 .. 5 : DesktopEngine[i] # "pipelineCache"
BY DesktopEngineSteps DEF DesktopSteps

\* The machine is known while the process runs, and past the choice of a
\* physical device there is one to choose.
HostInv ==
  /\ phase # "off" => host \in Hosts
  /\ next \in Nat \ {0}
  /\ phase = "off" => next = 1
  /\ phase \in {"setUp", "up"} /\ IsDesktop /\ next > 4 => HasGpu(host)

\* How a step of the set-up moves on.
Moves ==
  /\ phase = "setUp" /\ host' = host
  /\ next' \in {next, next + 1}
  /\ phase' = "setUp" => next <= Len(Engine)
  /\ phase' = "up" => next' = next
  /\ phase' = "setUp" /\ Engine[next] = "pickPhysicalDevice" => HasGpu(host)
  /\ phase' # "off"

LEMMA AttemptMoves ==
  ASSUME NEW step, step # "pickPhysicalDevice", NEW used, NEW checked, NEW makes, NEW refusals,
         NEW onFailure, onFailure \notin {"off", "up"}, Attempt(step, used, checked, makes, refusals, onFailure)
  PROVE  Moves
BY DEF Attempt, Doing, Undefined, Continue, Moves

LEMMA SetUpMoves == SetUp => Moves
<1> SUFFICES ASSUME SetUp PROVE Moves
  OBVIOUS
<1> USE DEF Throws, Logged
<1>1. CASE Window \/ DesktopCreateInstance \/ createSurface \/ DesktopCreateLogicalDevice
  BY <1>1, AttemptMoves DEF Window, DesktopCreateInstance, createSurface, DesktopCreateLogicalDevice
<1>2. CASE createXrInstance \/ getSystem \/ XrCreateInstance \/ XrPickPhysicalDevice
  BY <1>2, AttemptMoves DEF createXrInstance, getSystem, XrCreateInstance, XrPickPhysicalDevice
<1>3. CASE XrCreateLogicalDevice \/ createSession \/ createVisualizedSpace \/ XrManageActions
  BY <1>3, AttemptMoves DEF XrCreateLogicalDevice, createSession, createVisualizedSpace, XrManageActions
<1>4. CASE setupDebugMessenger \/ createCommandPool \/ TransferManagerInit \/ RessourceManagerInit
  BY <1>4, AttemptMoves DEF setupDebugMessenger, createCommandPool, TransferManagerInit, RessourceManagerInit
<1>5. CASE createDescriptorSetLayout \/ createDescriptorPool \/ Frames
  BY <1>5, AttemptMoves DEF createDescriptorSetLayout, createDescriptorPool, Frames
<1>6. CASE CreateRenderPass
  BY <1>6, AttemptMoves DEF CreateRenderPass, Doing
<1>7. CASE DesktopPickPhysicalDevice
  BY <1>7 DEF DesktopPickPhysicalDevice, Doing, Continue, Moves
<1>8. CASE PipelineCacheInit
  BY <1>8 DEF PipelineCacheInit, Doing, Continue, Moves
<1>9. CASE SetMsaaSamples
  BY <1>9 DEF SetMsaaSamples, Doing, Continue, Moves
<1>10. CASE CreateSwapchains
  BY <1>10 DEF CreateSwapchains, Doing, Continue, Moves
<1>11. CASE BuildSwapchainImages
  BY <1>11 DEF BuildSwapchainImages, Doing, Continue, Moves, Undefined
<1>12. CASE DesktopSwapchainImage
  BY <1>12 DEF DesktopSwapchainImage, Doing, Continue, Moves, CreateDesktopImage, TargetsUse
<1>13. CASE SetCallback
  BY <1>13 DEF SetCallback, Doing, Continue, Moves
<1>14. CASE createGraphicsPipelines
  BY <1>14 DEF createGraphicsPipelines, Doing, Continue, Moves, Undefined
<1>15. CASE SetUpDone
  BY <1>15 DEF SetUpDone, Doing, Continue, Moves
<1> QED
  BY <1>1, <1>2, <1>3, <1>4, <1>5, <1>6, <1>7, <1>8, <1>9, <1>10, <1>11, <1>12, <1>13, <1>14, <1>15 DEF SetUp

LEMMA HostStep == HostInv /\ [Next]_vars => HostInv'
<1> SUFFICES ASSUME HostInv, [Next]_vars PROVE HostInv'
  OBVIOUS
<1>1. CASE Launch
  BY <1>1 DEF Launch, Hosts, HostInv
<1>2. CASE SetUp
  <2>1. Moves
    BY <1>2, SetUpMoves
  <2>2. ASSUME phase' = "setUp", IsDesktop, next' > 4, ~(next > 4) PROVE HasGpu(host)
    <3>1. next = 4
      BY <2>1, <2>2 DEF HostInv, Moves
    <3>2. Engine[next] = "pickPhysicalDevice"
      BY <2>2, <3>1, DesktopOrder DEF Engine
    <3> QED BY <2>1, <2>2, <3>2 DEF Moves
  <2>3. (phase' \in {"setUp", "up"} /\ IsDesktop' /\ next' > 4) => HasGpu(host)'
    BY <2>1, <2>2 DEF HostInv, Moves, IsDesktop, HasGpu, SuitableGpu
  <2> QED BY <2>1, <2>3 DEF HostInv, Moves
<1>3. CASE Running \/ Close \/ Release \/ PersistCache \/ Closed
  <2>1. host' = host /\ next' = next /\ phase # "off" /\ phase' # "setUp" /\ phase' # "off"
        /\ (phase' = "up" => phase = "up")
    BY <1>3 DEF Running, AddObjects, DesktopRecreate, XrRecreate, CreateDesktopImage, Close,
         Release, PersistCache, Closed
  <2> QED BY <2>1 DEF HostInv, IsDesktop, HasGpu, SuitableGpu
<1>4. CASE Exit
  BY <1>4 DEF Exit, HostInv
<1>5. CASE UNCHANGED vars
  BY <1>5 DEF vars, HostInv, IsDesktop, HasGpu, SuitableGpu
<1> QED BY <1>1, <1>2, <1>3, <1>4, <1>5 DEF Next

---------------------------------------------------------------------------
(* Every step is a step of the cache *)

\* The first suitable GPU is one of the machine's.
LEMMA PickedIsGpu ==
  ASSUME NEW h, NEW n \in Nat, DOMAIN h.gpus = 1 .. n, HasGpu(h)
  PROVE  pickPhysicalDevice(h) \in DOMAIN h.gpus /\ SuitableGpu(h, pickPhysicalDevice(h))
<1> DEFINE S == {i \in DOMAIN h.gpus : SuitableGpu(h, i)}
<1>1. S \subseteq Nat /\ S # {}
  BY DEF HasGpu
<1>2. PICK m \in S : \A j \in S : <<j, m>> \notin OpToRel(<, Nat)
  BY <1>1, WFMin, NatLessThanWellFounded, Zenon
<1>3. \A j \in S : ~(j < m)
  BY <1>1, <1>2 DEF OpToRel
<1>4. m \in DOMAIN h.gpus /\ SuitableGpu(h, m) /\ \A j \in 1 .. m - 1 : ~SuitableGpu(h, j)
  BY <1>3
<1> QED BY <1>4 DEF pickPhysicalDevice

LEMMA GpuIsDevice ==
  ASSUME HostInv, Doing("pipelineCache")
  PROVE  Gpu \in Devices
<1>1. host \in Hosts /\ phase = "setUp" /\ Engine[next] = "pipelineCache" /\ next \in Nat
  BY DEF HostInv, Doing
<1>2. /\ host.gpus # <<>> /\ DOMAIN host.gpus = 1 .. Len(host.gpus) /\ Len(host.gpus) \in Nat
      /\ \A i \in DOMAIN host.gpus : host.gpus[i].name \in Devices
  BY <1>1, LifecycleAssumption DEF Hosts
<1>3. CASE IsDesktop
  <2>1. next \in Nat \ {0}
    BY DEF HostInv
  <2>2. next > 4
    BY <1>1, <1>3, <2>1, DesktopOrder DEF Engine
  <2>3. HasGpu(host)
    BY <1>1, <1>3, <2>2 DEF HostInv
  <2> QED BY <1>2, <1>3, <2>3, PickedIsGpu DEF Gpu
<1>4. CASE ~IsDesktop
  <2>1. 1 \in DOMAIN host.gpus
    BY <1>2
  <2> QED BY <1>2, <1>4, <2>1 DEF Gpu
<1> QED BY <1>3, <1>4

LEMMA CacheStep == HostInv /\ [Next]_vars => [CacheNext]_cacheVars
<1> SUFFICES ASSUME HostInv, [Next]_vars PROVE CacheNext \/ UNCHANGED cacheVars
  OBVIOUS
<1>0. Self \in Procs
  BY SelfOnly
<1>1. CASE Launch \/ Running \/ Close \/ Release \/ Closed
  BY <1>1 DEF Launch, Running, AddObjects, DesktopRecreate, XrRecreate, Close, Release, Closed
<1>2. CASE PipelineCacheInit
  BY <1>0, <1>2, GpuIsDevice DEF PipelineCacheInit, CacheNext, Start
<1>3. CASE SetUp /\ ~PipelineCacheInit
  BY <1>3 DEF SetUp, Simple, Window, DesktopCreateInstance, createSurface, DesktopPickPhysicalDevice,
       DesktopCreateLogicalDevice, createXrInstance, getSystem, XrCreateInstance,
       XrPickPhysicalDevice, XrCreateLogicalDevice, createSession, createVisualizedSpace,
       XrManageActions, setupDebugMessenger, createCommandPool, TransferManagerInit,
       SetMsaaSamples, CreateRenderPass, CreateSwapchains, BuildSwapchainImages,
       DesktopSwapchainImage, SetCallback, RessourceManagerInit, createDescriptorSetLayout,
       createGraphicsPipelines, createDescriptorPool, Frames, SetUpDone
<1>4. CASE PersistCache
  BY <1>0, <1>4 DEF PersistCache, CacheNext
<1>5. CASE Exit
  BY <1>0, <1>5 DEF Exit, CacheNext
<1>6. CASE UNCHANGED vars
  BY <1>6 DEF vars
<1> QED BY <1>1, <1>2, <1>3, <1>4, <1>5, <1>6 DEF Next

---------------------------------------------------------------------------

\* A process that builds an engine, runs it, takes it down and may be killed
\* anywhere behaves towards the cache file as PipelineCache says (Engine.cpp,
\* DeviceContext.cpp): Lifecycle implements the specification of the cache.
THEOREM ImplementsCache == Spec => CacheSpec
<1>1. Init => CacheInit /\ HostInv
  BY DEF Init, HostInv
<1> QED BY <1>1, HostStep, CacheStep, PTL DEF Spec, CacheSpec

\* So the file an application's runs leave is absent or whole, whatever was
\* refused in the set-up and wherever the process was killed.
THEOREM ProcessCacheWhole == Spec => []CacheWhole
<1>1. CacheSpec => []CacheWhole
  BY SelfOnly, CacheWholeAlways
<1> QED BY <1>1, ImplementsCache, PTL

\* And a driver is only given a complete blob of the device the set-up picked.
THEOREM ProcessGivenFits == Spec => []GivenFits
<1>1. CacheSpec => []GivenFits
  BY SelfOnly, GivenFitsAlways
<1> QED BY <1>1, ImplementsCache, PTL

---------------------------------------------------------------------------
(* What exists in the set-up and while the engine runs *)

\* What a desktop, or a headset, ever makes.
OwnHandles ==
  Handles \ IF IsDesktop THEN {"xrInstance", "system", "session", "space", "actions"}
            ELSE {"window", "surface", "resizeCallback"}
\* What a step has made, when no call was refused, that later steps use.
Made(step) ==
  CASE step = "window" -> {"window"}
    [] step \in {"createInstance", "xrCreateInstance"} -> {"instance"}
    [] step = "createSurface" -> {"surface"}
    [] step \in {"pickPhysicalDevice", "xrPickPhysicalDevice"} -> {"physicalDevice"}
    [] step \in {"createLogicalDevice", "xrCreateLogicalDevice"} -> {"device"}
    [] step = "createXrInstance" -> {"xrInstance"}
    [] step = "getSystem" -> {"system"}
    [] step = "createSession" -> {"session"}
    [] step = "createCommandPool" -> {"commandPool"}
    [] step = "transferManager" -> {"transfers"}
    [] step \in {"createRenderPass", "xrCreateRenderPass"} -> {"renderPass"}
    [] step = "RessourceManager" -> {"shaders"}
    [] step = "createDescriptorSetLayout" -> {"setLayout"}
    [] step = "createDescriptorPool" -> {"descriptorPool"}
    [] OTHER -> {}
\* What exists once a step is passed whatever was refused: those failures throw,
\* and a command pool is only made with a device.
Certain(step) ==
  CASE step = "createCommandPool" -> {"physicalDevice", "device"}
    [] step \in {"window", "createInstance", "createSurface", "pickPhysicalDevice",
                 "createLogicalDevice"} -> Made(step)
    [] OTHER -> {}
\* What a step uses, checked or not.
Needs(step) ==
  CASE step = "createSurface" -> {"instance", "window"}
    [] step \in {"pickPhysicalDevice", "setupDebugMessenger"} -> {"instance"}
    [] step = "createLogicalDevice" -> {"physicalDevice"}
    [] step \in {"getSystem", "XrManageActions"} -> {"xrInstance"}
    [] step = "xrCreateInstance" -> {"xrInstance", "system"}
    [] step = "xrPickPhysicalDevice" -> {"xrInstance", "instance"}
    [] step = "xrCreateLogicalDevice" -> {"xrInstance", "physicalDevice"}
    [] step = "createSession" -> {"physicalDevice", "xrInstance", "system", "device"}
    [] step = "createVisualizedSpace" -> {"session"}
    [] step \in {"createCommandPool", "createRenderPass", "xrCreateRenderPass"} ->
         {"physicalDevice", "device"}
    [] step \in {"transferManager", "pipelineCache", "RessourceManager",
                 "createDescriptorSetLayout", "createDescriptorPool"} -> {"device"}
    [] step \in {"DesktopSwapchainImage", "buildSwapchainImages"} -> TargetsUse
    [] step = "createGraphicsPipelines" -> PipelinesUse
    [] step = "frames" -> {"device", "physicalDevice", "commandPool"}
    [] OTHER -> {}

\* The steps before the n-th are passed.
Passed(n) ==
    /\ \A i \in 1 .. n - 1 : Certain(Engine[i]) \subseteq live
    /\ faults = 0 => \A i \in 1 .. n - 1 : Made(Engine[i]) \subseteq live

\* A step of a desktop finds what it uses; the first five whatever was refused.
LEMMA DesktopNeeds ==
  ASSUME IsDesktop, NEW n \in 1 .. Len(Engine), Passed(n)
  PROVE  /\ n <= 5 => Needs(Engine[n]) \subseteq live
         /\ n > 5 => {"window", "instance", "surface", "physicalDevice", "device"} \subseteq live
         /\ faults = 0 => Needs(Engine[n]) \subseteq live
<1>1. Engine = DesktopSteps /\ n \in 1 .. 18
  BY DesktopEngineSteps DEF Engine, DesktopSteps
<1>2. /\ n > 1 => "window" \in live
      /\ n > 2 => "instance" \in live
      /\ n > 3 => "surface" \in live
      /\ n > 4 => "physicalDevice" \in live
      /\ n > 5 => "device" \in live
  BY <1>1 DEF Passed, Certain, Made, DesktopSteps
<1>3. faults = 0 => /\ n > 7 => "commandPool" \in live
                    /\ n > 11 => "renderPass" \in live
                    /\ n > 14 => "shaders" \in live
                    /\ n > 15 => "setLayout" \in live
  BY <1>1 DEF Passed, Made, DesktopSteps
<1>4. /\ n \in 1 .. 5 => Needs(Engine[n]) \subseteq live
      /\ n \in 6 .. 10 => Needs(Engine[n]) \subseteq live
      /\ faults = 0 /\ n \in 11 .. 14 => Needs(Engine[n]) \subseteq live
      /\ faults = 0 /\ n \in 15 .. 18 => Needs(Engine[n]) \subseteq live
  BY <1>1, <1>2, <1>3 DEF Needs, DesktopSteps, TargetsUse, PipelinesUse
<1> QED BY <1>1, <1>2, <1>4

\* A step of a headset finds what it uses when nothing was refused.
LEMMA XrNeeds ==
  ASSUME ~IsDesktop, NEW n \in 1 .. Len(Engine), Passed(n)
  PROVE  /\ n > 10 => {"physicalDevice", "device"} \subseteq live
         /\ faults = 0 => Needs(Engine[n]) \subseteq live
<1>1. Engine = XrSteps /\ n \in 1 .. 21
  BY XrEngineSteps DEF Engine, XrSteps
<1>2. n > 10 => {"physicalDevice", "device"} \subseteq live
  BY <1>1 DEF Passed, Certain, XrSteps
<1>3. faults = 0 => /\ n > 1 => "xrInstance" \in live
                    /\ n > 2 => "system" \in live
                    /\ n > 3 => "instance" \in live
                    /\ n > 4 => "physicalDevice" \in live
                    /\ n > 5 => "device" \in live
                    /\ n > 6 => "session" \in live
  BY <1>1 DEF Passed, Made, XrSteps
<1>4. faults = 0 => /\ n > 10 => "commandPool" \in live
                    /\ n > 15 => "renderPass" \in live
                    /\ n > 17 => "shaders" \in live
                    /\ n > 18 => "setLayout" \in live
  BY <1>1 DEF Passed, Made, XrSteps
<1>5. /\ faults = 0 /\ n \in 1 .. 7 => Needs(Engine[n]) \subseteq live
      /\ faults = 0 /\ n \in 8 .. 14 => Needs(Engine[n]) \subseteq live
      /\ faults = 0 /\ n \in 15 .. 21 => Needs(Engine[n]) \subseteq live
  BY <1>1, <1>3, <1>4 DEF Needs, XrSteps, TargetsUse, PipelinesUse
<1> QED BY <1>1, <1>2, <1>5
---------------------------------------------------------------------------
\* The steps that only one of the two takes.
OnlyDesktop == {"window", "createInstance", "createSurface", "pickPhysicalDevice",
                "createLogicalDevice", "createRenderPass", "DesktopSwapchainImage", "setCallback"}
OnlyXr == {"createXrInstance", "getSystem", "xrCreateInstance", "xrPickPhysicalDevice",
           "xrCreateLogicalDevice", "createSession", "createVisualizedSpace", "XrManageActions",
           "createSwapchains", "xrCreateRenderPass", "buildSwapchainImages"}

\* What the name of a step says about its place.
LEMMA WhereSteps ==
  ASSUME NEW step, Doing(step), next \in Nat \ {0}
  PROVE  /\ next \in 1 .. Len(Engine)
         /\ IsDesktop => step \notin OnlyXr
         /\ ~IsDesktop => step \notin OnlyDesktop
         /\ IsDesktop /\ step \in {"pipelineCache", "DesktopSwapchainImage", "setCallback"} => next > 5
         /\ IsDesktop /\ step = "pickPhysicalDevice" => next = 4
         /\ ~IsDesktop /\ step = "pipelineCache" => next > 10
<1>1. CASE IsDesktop
  <2>1. Engine = DesktopSteps /\ next \in 1 .. 18 /\ Engine[next] = step
    BY <1>1, DesktopEngineSteps DEF Engine, DesktopSteps, Doing
  <2> QED BY <1>1, <2>1 DEF DesktopSteps, OnlyXr
<1>2. CASE ~IsDesktop
  <2>1. Engine = XrSteps /\ next \in 1 .. 21 /\ Engine[next] = step
    BY <1>2, XrEngineSteps DEF Engine, XrSteps, Doing
  <2> QED BY <1>2, <2>1 DEF XrSteps, OnlyDesktop
<1> QED BY <1>1, <1>2

\* Nothing in S outlives what it was made from.
Rooted(S) == \A h \in S : Parents(h) \subseteq S

\* The invariant of the handles up to the destruction.
SetUpInv ==
  /\ faults \in Nat
  /\ phase = "off" => live = {} /\ faults = 0
  /\ live \subseteq OwnHandles
  /\ phase \in {"setUp", "up", "undefined", "aborted"} => Rooted(live)
  /\ phase \in {"setUp", "up"} => Passed(next)
  /\ phase = "up" => next > Len(Engine)
  /\ SetUpSafe

\* What any step of the set-up does to the handles.
Effect ==
  /\ phase = "setUp" /\ UNCHANGED <<host, todo>>
  /\ faults' \in Nat /\ faults' >= faults
  /\ live \ {"swapchain", "targets"} \subseteq live' /\ live' \subseteq OwnHandles
  /\ Rooted(live')
  /\ phase' \in {"setUp", "up", "aborted", "undefined"}
  /\ phase' = "setUp" => /\ next <= Len(Engine) /\ next' = next + 1
                         /\ Certain(Engine[next]) \subseteq live'
                         /\ faults' = 0 => Made(Engine[next]) \subseteq live'
  /\ phase' = "up" => next > Len(Engine) /\ next' = next
  /\ phase' = "undefined" =>
       faults' > 0 /\ (IsDesktop => {"instance", "surface", "device"} \subseteq live')

\* What a step of the set-up may rely on.
LEMMA Ready ==
  ASSUME SetUpInv, next \in Nat \ {0}, NEW step, Doing(step)
  PROVE  /\ Passed(next) /\ Rooted(live) /\ faults \in Nat /\ live \subseteq OwnHandles
         /\ phase = "setUp" /\ next <= Len(Engine) /\ Engine[next] = step
         /\ faults = 0 => Needs(step) \subseteq live
         /\ IsDesktop => \/ Needs(step) \subseteq live /\ next <= 5
                         \/ /\ {"window", "instance", "surface", "physicalDevice", "device"} \subseteq live
                            /\ next > 5
<1>1. next \in 1 .. Len(Engine) /\ phase = "setUp" /\ Engine[next] = step
  BY WhereSteps DEF Doing
<1>2. Passed(next) /\ Rooted(live) /\ faults \in Nat /\ live \subseteq OwnHandles
  BY <1>1 DEF SetUpInv
<1>3. CASE IsDesktop
  BY <1>1, <1>2, <1>3, DesktopNeeds
<1>4. CASE ~IsDesktop
  BY <1>1, <1>2, <1>4, XrNeeds
<1> QED BY <1>1, <1>2, <1>3, <1>4

\* A call that asks for what the step needs and makes what the step promises.
LEMMA AttemptEffect ==
  ASSUME SetUpInv, next \in Nat \ {0},
         NEW step, NEW used, NEW checked, NEW makes, NEW refusals \in Nat \ {0}, NEW onFailure,
         Attempt(step, used, checked, makes, refusals, onFailure),
         used \cup checked \subseteq Needs(step), Made(step) \subseteq makes,
         makes \subseteq OwnHandles,
         \A h \in makes : Parents(h) \subseteq used \cup checked \cup makes,
         \/ onFailure = "aborted" /\ Certain(step) \subseteq makes
         \/ onFailure = "setUp" /\ Certain(step) \subseteq used
  PROVE  Effect
<1>1. Doing(step) /\ UNCHANGED <<host, todo>>
  BY DEF Attempt
<1>2. /\ Passed(next) /\ Rooted(live) /\ faults \in Nat /\ live \subseteq OwnHandles
      /\ phase = "setUp" /\ next <= Len(Engine) /\ Engine[next] = step
  BY <1>1, Ready
<1>3. /\ faults = 0 => Needs(step) \subseteq live
      /\ IsDesktop => \/ Needs(step) \subseteq live
                      \/ {"instance", "surface", "device"} \subseteq live
  BY <1>1, Ready
<1>4. CASE ~(used \subseteq live) /\ Undefined
  BY <1>1, <1>2, <1>3, <1>4 DEF Undefined, Effect
<1>5. CASE used \cup checked \subseteq live /\ Continue /\ Make(makes) /\ UNCHANGED faults
  <2>1. Rooted(live')
    BY <1>2, <1>5 DEF Rooted, Make
  <2> QED BY <1>1, <1>2, <1>5, <2>1 DEF Continue, Make, Effect
<1>6. CASE /\ used \subseteq live
           /\ IF checked \subseteq live THEN Refused(refusals) ELSE UNCHANGED faults
           /\ phase' = onFailure /\ next' = next + 1
           /\ UNCHANGED live
  <2>1. faults' \in Nat /\ faults' >= faults /\ faults' > 0
    BY <1>2, <1>3, <1>6 DEF Refused
  <2> QED BY <1>1, <1>2, <1>6, <2>1 DEF Effect
<1> QED BY <1>4, <1>5, <1>6 DEF Attempt

\* The steps that are one call.
LEMMA SimpleEffect ==
  ASSUME SetUpInv, next \in Nat \ {0}
  PROVE  /\ Window => Effect
         /\ DesktopCreateInstance => Effect
         /\ createSurface => Effect
         /\ DesktopCreateLogicalDevice => Effect
         /\ createXrInstance => Effect
         /\ getSystem => Effect
         /\ XrCreateInstance => Effect
         /\ XrPickPhysicalDevice => Effect
         /\ XrCreateLogicalDevice => Effect
         /\ createSession => Effect
         /\ createVisualizedSpace => Effect
         /\ XrManageActions => Effect
         /\ setupDebugMessenger => Effect
         /\ createCommandPool => Effect
         /\ TransferManagerInit => Effect
         /\ RessourceManagerInit => Effect
         /\ createDescriptorSetLayout => Effect
         /\ createDescriptorPool => Effect
         /\ Frames => Effect
<1>1. ASSUME NEW step, NEW used, NEW checked, NEW makes, NEW refusals \in Nat \ {0}, NEW onFailure,
             Attempt(step, used, checked, makes, refusals, onFailure)
      PROVE  (IsDesktop => step \notin OnlyXr) /\ (~IsDesktop => step \notin OnlyDesktop)
  BY <1>1, WhereSteps DEF Attempt
<1> USE DEF Needs, Made, Certain, OwnHandles, Handles, Parents, OnlyXr, OnlyDesktop, Throws, Logged
<1>2. Window => Effect
  BY <1>1, AttemptEffect DEF Window
<1>3. DesktopCreateInstance => Effect
  BY <1>1, AttemptEffect DEF DesktopCreateInstance
<1>4. createSurface => Effect
  BY <1>1, AttemptEffect DEF createSurface
<1>5. DesktopCreateLogicalDevice => Effect
  BY <1>1, AttemptEffect DEF DesktopCreateLogicalDevice
<1>6. createXrInstance => Effect
  BY <1>1, AttemptEffect DEF createXrInstance
<1>7. getSystem => Effect
  BY <1>1, AttemptEffect DEF getSystem
<1>8. XrCreateInstance => Effect
  BY <1>1, AttemptEffect DEF XrCreateInstance
<1>9. XrPickPhysicalDevice => Effect
  BY <1>1, AttemptEffect DEF XrPickPhysicalDevice
<1>10. XrCreateLogicalDevice => Effect
  BY <1>1, AttemptEffect DEF XrCreateLogicalDevice
<1>11. createSession => Effect
  BY <1>1, AttemptEffect DEF createSession
<1>12. createVisualizedSpace => Effect
  BY <1>1, AttemptEffect DEF createVisualizedSpace
<1>13. XrManageActions => Effect
  BY <1>1, AttemptEffect DEF XrManageActions
<1>14. setupDebugMessenger => Effect
  BY <1>1, AttemptEffect DEF setupDebugMessenger
<1>15. createCommandPool => Effect
  BY <1>1, AttemptEffect DEF createCommandPool
<1>16. TransferManagerInit => Effect
  BY <1>1, AttemptEffect DEF TransferManagerInit
<1>17. RessourceManagerInit => Effect
  BY <1>1, AttemptEffect DEF RessourceManagerInit
<1>18. createDescriptorSetLayout => Effect
  BY <1>1, AttemptEffect DEF createDescriptorSetLayout
<1>19. createDescriptorPool => Effect
  BY <1>1, AttemptEffect DEF createDescriptorPool
<1>20. Frames => Effect
  BY <1>1, AttemptEffect DEF Frames
<1> QED BY <1>2, <1>3, <1>4, <1>5, <1>6, <1>7, <1>8, <1>9, <1>10, <1>11, <1>12, <1>13,
         <1>14, <1>15, <1>16, <1>17, <1>18, <1>19, <1>20

\* Finitely many views can be refused.
LEMMA RefusedViews ==
  ASSUME host \in Hosts, NEW S \in SUBSET DOMAIN host.views
  PROVE  Cardinality(S) \in Nat
<1>1. DOMAIN host.views = 1 .. Len(host.views) /\ Len(host.views) \in Nat
  BY LifecycleAssumption DEF Hosts
<1>2. IsFiniteSet(1 .. Len(host.views))
  BY <1>1, FS_Interval
<1> QED BY <1>1, <1>2, FS_Subset, FS_CardinalityType

\* The creation of the desktop's image, in the set-up and when it is recreated.
LEMMA DesktopImageEffect ==
  ASSUME faults \in Nat, CreateDesktopImage, IsDesktop, Rooted(live), live \subseteq OwnHandles,
         {"instance", "surface", "device"} \subseteq live, faults = 0 => TargetsUse \subseteq live
  PROVE  /\ faults' \in Nat /\ faults' >= faults
         /\ live \ {"swapchain", "targets"} \subseteq live' /\ live' \subseteq OwnHandles
         /\ Rooted(live') /\ phase' \in {phase, "undefined"}
         /\ phase' = "undefined" /\ phase # "undefined" =>
              faults' > 0 /\ {"instance", "surface", "device"} \subseteq live'
<1>1. CASE Refused(1) /\ live' = live \ {"swapchain", "targets"} /\ UNCHANGED phase
  <2>1. Rooted(live')
    BY <1>1 DEF Rooted, Parents
  <2> QED BY <1>1, <2>1 DEF Refused
<1>2. CASE Make({"swapchain", "targets"}) /\ UNCHANGED <<phase, faults>>
  <2>1. Parents("swapchain") \subseteq live /\ Parents("targets") \subseteq live
    BY DEF Parents
  <2>2. Rooted(live')
    BY <1>2, <2>1 DEF Rooted, Make
  <2>3. {"swapchain", "targets"} \subseteq OwnHandles
    BY DEF OwnHandles, Handles
  <2> QED BY <1>2, <2>2, <2>3 DEF Make
<1>3. CASE ~(TargetsUse \subseteq live) /\ phase' = "undefined" /\ UNCHANGED <<live, faults>>
  BY <1>3
<1> QED BY <1>1, <1>2, <1>3 DEF CreateDesktopImage

\* The other steps, one by one.
LEMMA SetUpEffect ==
  ASSUME SetUpInv, next \in Nat \ {0}, host \in Hosts, SetUp
  PROVE  Effect
<1>1. CASE DesktopPickPhysicalDevice
  <2>1. Doing("pickPhysicalDevice")
    BY <1>1 DEF DesktopPickPhysicalDevice
  <2>2. IsDesktop /\ next = 4
    BY <2>1, WhereSteps DEF OnlyDesktop
  <2>3. "instance" \in live
    BY <2>1, <2>2, Ready DEF Needs
  <2>4. Rooted(live \cup {"physicalDevice"})
    BY <2>1, <2>3, Ready DEF Rooted, Parents
  <2>5. "physicalDevice" \in OwnHandles
    BY DEF OwnHandles, Handles
  <2>6. /\ UNCHANGED <<host, todo, faults>>
        /\ \/ Continue /\ Make({"physicalDevice"})
           \/ phase' = "aborted" /\ UNCHANGED live
    BY <1>1 DEF DesktopPickPhysicalDevice, Throws
  <2>7. Certain("pickPhysicalDevice") = {"physicalDevice"} /\ Made("pickPhysicalDevice") = {"physicalDevice"}
    BY DEF Certain, Made
  <2>8. CASE Continue /\ Make({"physicalDevice"})
    BY <2>1, <2>4, <2>5, <2>6, <2>7, <2>8, Ready DEF Continue, Make, Effect
  <2>9. CASE phase' = "aborted" /\ UNCHANGED live
    BY <2>1, <2>6, <2>9, Ready DEF Effect
  <2> QED BY <2>6, <2>8, <2>9
<1>2. CASE PipelineCacheInit
  <2>1. Doing("pipelineCache") /\ Continue /\ UNCHANGED <<host, todo, faults>>
        /\ live' \in {live, live \cup {"pipelineCache"}}
    BY <1>2 DEF PipelineCacheInit, Make
  <2>2. "device" \in live
    <3>1. CASE IsDesktop
      BY <2>1, <3>1, WhereSteps, Ready
    <3>2. CASE ~IsDesktop
      BY <2>1, <3>2, WhereSteps, Ready, XrNeeds
    <3> QED BY <3>1, <3>2
  <2>3. Rooted(live')
    BY <2>1, <2>2, Ready DEF Rooted, Parents
  <2>4. "pipelineCache" \in OwnHandles
    BY DEF OwnHandles, Handles
  <2>5. Certain("pipelineCache") = {} /\ Made("pipelineCache") = {}
    BY DEF Certain, Made
  <2> QED BY <2>1, <2>3, <2>4, <2>5, Ready DEF Continue, Effect
<1>3. CASE SetMsaaSamples
  BY <1>3, Ready DEF SetMsaaSamples, Continue, Effect, Certain, Made
<1>4. CASE CreateRenderPass
  <2>1. PICK step \in {"createRenderPass", "xrCreateRenderPass"} : Doing(step) /\ Engine[next] = step
    BY <1>4 DEF CreateRenderPass, Doing
  <2>2. Attempt(step, {"physicalDevice", "device"}, {}, {"renderPass"}, 1, Logged)
    BY <1>4, <2>1 DEF CreateRenderPass
  <2> QED
    BY <2>1, <2>2, AttemptEffect
    DEF Needs, Made, Certain, OwnHandles, Handles, Parents, Logged
<1>5. CASE CreateSwapchains
  <2>1. Doing("createSwapchains") /\ Continue /\ UNCHANGED <<host, todo>>
        /\ live' \in {live, live \cup {"swapchain"}} /\ ("session" \notin live => live' = live)
    BY <1>5 DEF CreateSwapchains, Make
  <2>2. faults' \in Nat /\ faults' >= faults
    <3>1. CASE "session" \in live
      <4>1. PICK viewsRefused \in SUBSET DOMAIN host.views, layeredRefused \in BOOLEAN :
              Refused(Cardinality(viewsRefused) + IF layeredRefused THEN 1 ELSE 0)
        BY <1>5, <3>1 DEF CreateSwapchains
      <4>2. Cardinality(viewsRefused) \in Nat
        BY RefusedViews
      <4> QED BY <2>1, <4>1, <4>2, Ready DEF Refused
    <3>2. CASE "session" \notin live
      BY <1>5, <2>1, <3>2, Ready DEF CreateSwapchains
    <3> QED BY <3>1, <3>2
  <2>3. ~IsDesktop
    BY <2>1, WhereSteps DEF OnlyXr
  <2>4. Rooted(live')
    <3>1. "session" \in live => {"session", "device"} \subseteq live
      BY <2>1, Ready DEF Rooted, Parents
    <3> QED BY <2>1, <2>3, <3>1, Ready DEF Rooted, Parents
  <2>5. "swapchain" \in OwnHandles
    BY DEF OwnHandles, Handles
  <2>6. Certain("createSwapchains") = {} /\ Made("createSwapchains") = {}
    BY DEF Certain, Made
  <2> QED BY <2>1, <2>2, <2>4, <2>5, <2>6, Ready DEF Continue, Effect
<1>6. CASE BuildSwapchainImages
  <2>1. Doing("buildSwapchainImages") /\ UNCHANGED <<host, todo, faults>>
    BY <1>6 DEF BuildSwapchainImages, Undefined
  <2>2. ~IsDesktop
    BY <2>1, WhereSteps DEF OnlyXr
  <2>3. CASE TargetsUse \subseteq live /\ Continue /\ live' \in {live, live \cup {"targets"}}
    <3>1. Rooted(live')
      BY <2>1, <2>3, Ready DEF Rooted, Parents, TargetsUse
    <3>2. "targets" \in OwnHandles
      BY DEF OwnHandles, Handles
    <3> QED BY <2>1, <2>3, <3>1, <3>2, Ready DEF Continue, Effect, Certain, Made
  <2>4. CASE Continue /\ live' = live
    BY <2>1, <2>4, Ready DEF Continue, Effect, Certain, Made
  <2>5. CASE Undefined /\ ~(TargetsUse \subseteq live)
    BY <2>1, <2>2, <2>5, Ready DEF Undefined, Effect, Needs
  <2> QED BY <1>6, <2>3, <2>4, <2>5 DEF BuildSwapchainImages, Make
<1>7. CASE DesktopSwapchainImage
  <2>1. Doing("DesktopSwapchainImage") /\ next' = next + 1 /\ CreateDesktopImage /\ UNCHANGED <<host, todo>>
    BY <1>7 DEF DesktopSwapchainImage
  <2>2. IsDesktop /\ next > 5
    BY <2>1, WhereSteps DEF OnlyDesktop
  <2>3. {"instance", "surface", "device"} \subseteq live
    BY <2>1, <2>2, Ready
  <2>4. faults = 0 => TargetsUse \subseteq live
    BY <2>1, Ready DEF Needs
  <2> QED
    BY <2>1, <2>2, <2>3, <2>4, Ready, DesktopImageEffect DEF Effect, Certain, Made
<1>8. CASE SetCallback
  <2>1. Doing("setCallback") /\ Continue /\ UNCHANGED <<host, todo, faults>>
        /\ live' = live \cup {"resizeCallback"}
    BY <1>8 DEF SetCallback, Make
  <2>2. IsDesktop /\ next > 5
    BY <2>1, WhereSteps DEF OnlyDesktop
  <2>3. Rooted(live')
    BY <2>1, <2>2, Ready DEF Rooted, Parents
  <2>4. "resizeCallback" \in OwnHandles
    BY <2>2 DEF OwnHandles, Handles
  <2> QED BY <2>1, <2>3, <2>4, Ready DEF Continue, Effect, Certain, Made
<1>9. CASE createGraphicsPipelines
  <2>1. Doing("createGraphicsPipelines") /\ UNCHANGED <<host, todo>>
    BY <1>9 DEF createGraphicsPipelines
  <2>2. Needs("createGraphicsPipelines") = PipelinesUse
    BY DEF Needs
  <2>3. CASE ~(PipelinesUse \subseteq live) /\ Undefined
    BY <2>1, <2>2, <2>3, Ready DEF Undefined, Effect
  <2>4. CASE /\ PipelinesUse \subseteq live /\ Continue /\ faults' \in Nat /\ faults' >= faults
             /\ \E S \in {{}, {"pipelineLayouts"}, {"pipelineLayouts", "pipelines"}} : Make(S)
    <3>1. PICK S \in {{}, {"pipelineLayouts"}, {"pipelineLayouts", "pipelines"}} : live' = live \cup S
      BY <2>4 DEF Make
    <3>2. Rooted(live')
      BY <2>1, <2>4, <3>1, Ready DEF Rooted, Parents, PipelinesUse
    <3>3. S \subseteq OwnHandles
      BY <3>1 DEF OwnHandles, Handles
    <3> QED BY <2>1, <2>4, <3>1, <3>2, <3>3, Ready DEF Continue, Effect, Certain, Made
  <2>5. faults \in Nat
    BY <2>1, Ready
  <2> QED BY <1>9, <2>3, <2>4, <2>5 DEF createGraphicsPipelines, Refused
<1>10. CASE SetUpDone
  BY <1>10 DEF SetUpDone, SetUpInv, Effect
<1> QED
  BY <1>1, <1>2, <1>3, <1>4, <1>5, <1>6, <1>7, <1>8, <1>9, <1>10, SimpleEffect DEF SetUp

\* The predicates over the machine and what is live, primed.
LEMMA SameHost ==
  ASSUME host' = host
  PROVE  /\ IsDesktop' = IsDesktop /\ Engine' = Engine /\ OwnHandles' = OwnHandles
         /\ \A h : Parents(h)' = Parents(h)
BY DEF IsDesktop, Engine, OwnHandles, Parents

\* Such steps keep the invariant.
LEMMA EffectKeeps ==
  ASSUME SetUpInv, next \in Nat \ {0}, Effect
  PROVE  SetUpInv'
<1>1. /\ IsDesktop' = IsDesktop /\ Engine' = Engine /\ OwnHandles' = OwnHandles
      /\ Rooted(live)' = Rooted(live')
  BY SameHost DEF Effect, Rooted
<1>2. Passed(next) /\ phase = "setUp" /\ faults \in Nat
  BY DEF SetUpInv, Effect
<1>3. \A step : (Certain(step) \cup Made(step)) \cap {"swapchain", "targets"} = {}
  BY DEF Certain, Made
<1>4. ASSUME phase' = "setUp" PROVE Passed(next)'
  <2>1. next' = next + 1 /\ \A i \in 1 .. next' - 1 : i \in 1 .. next - 1 \/ i = next
    BY <1>4 DEF Effect
  <2>2. \A i \in 1 .. next' - 1 : Certain(Engine[i]) \subseteq live'
    BY <1>2, <1>3, <1>4, <2>1 DEF Effect, Passed
  <2>3. faults' = 0 => \A i \in 1 .. next' - 1 : Made(Engine[i]) \subseteq live'
    BY <1>2, <1>3, <1>4, <2>1 DEF Effect, Passed
  <2> QED BY <1>1, <2>2, <2>3 DEF Passed
<1>5. ASSUME phase' = "up" PROVE Passed(next)'
  <2>1. next' = next /\ (faults' = 0 => faults = 0)
    BY <1>2, <1>5 DEF Effect
  <2>2. \A i \in 1 .. next - 1 : Certain(Engine[i]) \subseteq live'
    BY <1>2, <1>3 DEF Effect, Passed
  <2>3. faults' = 0 => \A i \in 1 .. next - 1 : Made(Engine[i]) \subseteq live'
    BY <1>2, <1>3, <2>1 DEF Effect, Passed
  <2> QED BY <1>1, <2>1, <2>2, <2>3 DEF Passed
<1>6. SetUpSafe'
  BY <1>1 DEF Effect, SetUpSafe
<1> QED BY <1>1, <1>4, <1>5, <1>6 DEF SetUpInv, Effect

\* What is there once the engine is up.
LEMMA UpNeeds ==
  ASSUME SetUpInv, phase = "up", next \in Nat
  PROVE  /\ IsDesktop => {"instance", "surface", "device"} \subseteq live
         /\ faults = 0 => TargetsUse \subseteq live
         /\ faults = 0 => {"descriptorPool", "setLayout", "transfers"} \subseteq live
<1>1. Passed(next) /\ next > Len(Engine)
  BY DEF SetUpInv
<1>2. CASE IsDesktop
  <2>1. Engine = DesktopSteps /\ Len(Engine) = 18
    BY <1>2, DesktopEngineSteps DEF Engine, DesktopSteps
  <2>2. {"instance", "surface", "device"} \subseteq live
    BY <1>1, <2>1 DEF Passed, Certain, Made, DesktopSteps
  <2>3. faults = 0 => TargetsUse \subseteq live
    BY <1>1, <2>1 DEF Passed, Made, DesktopSteps, TargetsUse
  <2>4. faults = 0 => {"descriptorPool", "setLayout", "transfers"} \subseteq live
    BY <1>1, <2>1 DEF Passed, Made, DesktopSteps
  <2> QED BY <2>2, <2>3, <2>4
<1>3. CASE ~IsDesktop
  <2>1. Engine = XrSteps /\ Len(Engine) = 21
    BY <1>3, XrEngineSteps DEF Engine, XrSteps
  <2>2. faults = 0 => TargetsUse \subseteq live
    BY <1>1, <2>1 DEF Passed, Made, XrSteps, TargetsUse
  <2>3. faults = 0 => {"descriptorPool", "setLayout", "transfers"} \subseteq live
    BY <1>1, <2>1 DEF Passed, Made, XrSteps
  <2> QED BY <1>3, <2>2, <2>3
<1> QED BY <1>2, <1>3

\* While the engine runs: what a step that only makes leaves or swapchains keeps.
LEMMA RunningKeeps ==
  ASSUME SetUpInv, phase = "up", next \in Nat, UNCHANGED <<host, next>>,
         faults' \in Nat, faults' >= faults,
         live \ {"swapchain", "targets"} \subseteq live', live' \subseteq OwnHandles,
         Rooted(live'), phase' \in {"up", "undefined"},
         phase' = "undefined" =>
           faults' > 0 /\ (IsDesktop => {"instance", "surface", "device"} \subseteq live')
  PROVE  SetUpInv'
<1>1. /\ IsDesktop' = IsDesktop /\ Engine' = Engine /\ OwnHandles' = OwnHandles
      /\ Rooted(live)' = Rooted(live')
  BY SameHost DEF Rooted
<1>2. Passed(next) /\ faults \in Nat /\ next > Len(Engine)
  BY DEF SetUpInv
<1>3. \A step : (Certain(step) \cup Made(step)) \cap {"swapchain", "targets"} = {}
  BY DEF Certain, Made
<1>4. Passed(next)'
  <2>1. faults' = 0 => faults = 0
    BY <1>2
  <2>2. \A i \in 1 .. next - 1 : Certain(Engine[i]) \subseteq live'
    BY <1>2, <1>3 DEF Passed
  <2>3. faults' = 0 => \A i \in 1 .. next - 1 : Made(Engine[i]) \subseteq live'
    BY <1>2, <1>3, <2>1 DEF Passed
  <2> QED BY <1>1, <2>2, <2>3 DEF Passed
<1>5. SetUpSafe'
  BY <1>1 DEF SetUpSafe
<1> QED BY <1>1, <1>2, <1>4, <1>5 DEF SetUpInv

\* Objects, and recreated swapchains.
LEMMA RunningStep ==
  ASSUME SetUpInv, next \in Nat, host \in Hosts, Running
  PROVE  SetUpInv'
<1>0. phase = "up"
  BY DEF Running, AddObjects, DesktopRecreate, XrRecreate
<1>1. Rooted(live) /\ faults \in Nat /\ live \subseteq OwnHandles
  BY <1>0 DEF SetUpInv
<1>2. CASE AddObjects
  <2>1. UNCHANGED <<host, next, faults>>
    BY <1>2 DEF AddObjects
  <2>2. CASE /\ {"descriptorPool", "setLayout", "transfers"} \subseteq live
             /\ live' = live \cup {"materials", "objects"} /\ UNCHANGED phase
    <3>1. {"materials", "objects"} \subseteq OwnHandles
      BY DEF OwnHandles, Handles
    <3>2. "device" \in live
      BY <1>1, <2>2 DEF Rooted, Parents
    <3>3. Rooted(live')
      BY <1>1, <2>2, <3>2 DEF Rooted, Parents
    <3> QED BY <1>0, <1>1, <2>1, <2>2, <3>1, <3>3, RunningKeeps
  <2>3. CASE /\ ~({"descriptorPool", "setLayout", "transfers"} \subseteq live)
             /\ phase' = "undefined" /\ UNCHANGED live
    BY <1>0, <1>1, <2>1, <2>3, UpNeeds, RunningKeeps
  <2> QED BY <1>2, <2>2, <2>3 DEF AddObjects, Make
<1>3. CASE DesktopRecreate
  <2>1. UNCHANGED <<host, next>> /\ IsDesktop /\ CreateDesktopImage
    BY <1>3 DEF DesktopRecreate
  <2>2. /\ {"instance", "surface", "device"} \subseteq live
        /\ faults = 0 => TargetsUse \subseteq live
    BY <1>0, <2>1, UpNeeds
  <2> QED BY <1>0, <1>1, <2>1, <2>2, DesktopImageEffect, RunningKeeps
<1>4. CASE XrRecreate
  <2>1. UNCHANGED <<host, next>> /\ ~IsDesktop
    BY <1>4 DEF XrRecreate
  <2>2. faults' \in Nat /\ faults' >= faults
    <3>1. CASE "session" \in live
      <4>1. PICK refused \in SUBSET DOMAIN host.views : Refused(Cardinality(refused))
        BY <1>4, <3>1 DEF XrRecreate
      <4>2. Cardinality(refused) \in Nat
        BY RefusedViews
      <4> QED BY <1>1, <4>1, <4>2 DEF Refused
    <3>2. CASE "session" \notin live
      BY <1>1, <1>4, <3>2 DEF XrRecreate
    <3> QED BY <3>1, <3>2
  <2>3. CASE /\ UNCHANGED phase
             /\ \/ live' = live \ {"swapchain", "targets"}
                \/ /\ "session" \in live
                   /\ live' = (live \ {"swapchain", "targets"}) \cup {"swapchain", "targets"}
    <3>1. "session" \in live => "device" \in live
      BY <1>1 DEF Rooted, Parents
    <3>2. Rooted(live')
      BY <1>1, <2>1, <2>3, <3>1 DEF Rooted, Parents
    <3>3. {"swapchain", "targets"} \subseteq OwnHandles
      BY DEF OwnHandles, Handles
    <3> QED BY <1>0, <1>1, <2>1, <2>2, <2>3, <3>2, <3>3, RunningKeeps
  <2>4. CASE phase' = "undefined" /\ UNCHANGED live /\ ~(TargetsUse \subseteq live)
    <3>1. faults > 0
      BY <1>0, <1>1, <2>4, UpNeeds
    <3> QED BY <1>0, <1>1, <2>1, <2>2, <2>4, <3>1, RunningKeeps
  <2>5. swapchains' # <<>> => "session" \in live
    BY <1>4 DEF XrRecreate
  <2>6. IF swapchains' = <<>> \/ TargetsUse \subseteq live
        THEN /\ UNCHANGED phase
             /\ live' = (live \ {"swapchain", "targets"})
                        \cup IF swapchains' = <<>> THEN {} ELSE {"swapchain", "targets"}
        ELSE phase' = "undefined" /\ UNCHANGED live
    BY <1>4 DEF XrRecreate
  <2> QED BY <2>3, <2>4, <2>5, <2>6
<1> QED BY <1>2, <1>3, <1>4 DEF Running

---------------------------------------------------------------------------
(* The order of the destruction *)

\* What one function of the destruction takes down.
TakenDown == SUBSET (Handles \cup {Persist})

\* The order of ~Engine, function by function.
DesktopTakeDown ==
  <<{"renderPass"}, {"swapchain"}, {"targets"}, {"materials"}, {"shaders"},
    {"objects"}, {"descriptorPool"}, {"pipelines"}, {"pipelineLayouts"}, {"setLayout"}, {"frames"},
    {"transfers"}, {"commandPool"}, {"debugMessenger"}, {Persist}, {"pipelineCache"},
    {"device", "physicalDevice"}, {"surface"}, {"instance"},
    IF host.keepsPlatform THEN {"resizeCallback"} ELSE {"window"},
    IF host.keepsPlatform THEN {"window"} ELSE {"resizeCallback"}>>
XrTakeDown ==
  <<{"targets"}, {"swapchain"}, {"materials"}, {"shaders"},
    {"objects"}, {"descriptorPool"}, {"pipelines"}, {"pipelineLayouts"}, {"setLayout"}, {"frames"},
    {"transfers"}, {"commandPool"}, {"debugMessenger"}, {Persist}, {"pipelineCache"},
    {"device", "physicalDevice"}, {"session", "space"}, {"instance"}, {"xrInstance", "system"},
    {"actions"}>>

\* The destructors, each calling the next, take down in that order.
LEMMA DesktopTakesDown ==
  ASSUME IsDesktop
  PROVE  EngineDestroy = DesktopTakeDown /\ EngineDestroy \in Seq(TakenDown)
<1> DEFINE P(n) == SubSeq(DesktopTakeDown, 1, n)
           Follows(s, n, m) == s \in Seq(TakenDown) /\ Len(s) = m
                               /\ \A i \in 1 .. m : s[i] = DesktopTakeDown[n + i]
           Rest == DesktopBackendDestroy \o MembersDestroy
<1>1. DesktopTakeDown \in Seq(TakenDown) /\ Len(DesktopTakeDown) = 21
  BY DEF DesktopTakeDown, TakenDown, Handles
<1>2. SwapchainContextDestroy = P(3)
  BY DEF SwapchainContextDestroy, DesktopImageCleanup, DesktopTakeDown
<1>3. /\ Follows(RessourceManagerCleanup, 3, 2) /\ Follows(RendererDestroy, 5, 6)
      /\ Follows(DeviceContextDestroy, 11, 5)
  BY DEF RessourceManagerCleanup, RendererDestroy, DeviceContextDestroy, DesktopTakeDown,
         TakenDown, Handles
<1>4. Follows(Rest, 16, 5)
  <2>1. Follows(DesktopBackendDestroy, 16, 3)
    BY DEF DesktopBackendDestroy, DesktopTakeDown, TakenDown, Handles
  <2>2. Follows(MembersDestroy, 19, 2)
    <3>1. CASE host.keepsPlatform
      <4>1. MembersDestroy = <<{"resizeCallback"}, {"window"}>>
        BY <3>1 DEF MembersDestroy
      <4>2. DesktopTakeDown[20] = {"resizeCallback"} /\ DesktopTakeDown[21] = {"window"}
        BY <3>1 DEF DesktopTakeDown
      <4> QED BY <4>1, <4>2 DEF TakenDown, Handles
    <3>2. CASE ~host.keepsPlatform
      <4>1. MembersDestroy = <<{"window"}, {"resizeCallback"}>>
        BY <3>2 DEF MembersDestroy
      <4>2. DesktopTakeDown[20] = {"window"} /\ DesktopTakeDown[21] = {"resizeCallback"}
        BY <3>2 DEF DesktopTakeDown
      <4> QED BY <4>1, <4>2 DEF TakenDown, Handles
    <3> QED BY <3>1, <3>2
  <2>3. /\ Rest \in Seq(TakenDown) /\ Len(Rest) = 5
        /\ \A i \in 1 .. 5 : Rest[i] = IF i <= 3 THEN DesktopBackendDestroy[i] ELSE MembersDestroy[i - 3]
    <3> DEFINE a == DesktopBackendDestroy
               b == MembersDestroy
    <3>1. a \in Seq(TakenDown) /\ b \in Seq(TakenDown) /\ Len(a) = 3 /\ Len(b) = 2
      BY <2>1, <2>2
    <3> HIDE DEF a, b
    <3>2. /\ a \o b \in Seq(TakenDown) /\ Len(a \o b) = Len(a) + Len(b)
          /\ \A i \in 1 .. Len(a) + Len(b) : (a \o b)[i] = IF i <= Len(a) THEN a[i] ELSE b[i - Len(a)]
      BY <3>1, ConcatAt
    <3> QED BY <3>1, <3>2 DEF a, b
  <2>4. \A i \in 4 .. 5 : MembersDestroy[i - 3] = DesktopTakeDown[19 + (i - 3)]
    BY <2>2
  <2> QED BY <2>1, <2>3, <2>4
<1>5. EngineDestroy = SwapchainContextDestroy \o RessourceManagerCleanup \o RendererDestroy
                      \o DeviceContextDestroy \o Rest
  BY DEF EngineDestroy
<1>6. ASSUME NEW n \in Nat, NEW m \in Nat, n + m <= 21, NEW s, Follows(s, n, m)
      PROVE  P(n) \o s = P(n + m)
  BY <1>1, <1>6, PrefixGrows
<1> HIDE DEF P, Follows, Rest
<1>7. P(3) \o RessourceManagerCleanup = P(5)
  BY <1>3, <1>6
<1>8. P(5) \o RendererDestroy = P(11)
  BY <1>3, <1>6
<1>9. P(11) \o DeviceContextDestroy = P(16)
  BY <1>3, <1>6
<1>10. P(16) \o Rest = P(21)
  BY <1>4, <1>6
<1>11. P(21) = DesktopTakeDown
  BY <1>1, WholePrefix DEF P
<1> QED BY <1>1, <1>2, <1>5, <1>7, <1>8, <1>9, <1>10, <1>11

LEMMA XrTakesDown ==
  ASSUME ~IsDesktop
  PROVE  EngineDestroy = XrTakeDown /\ EngineDestroy \in Seq(TakenDown)
<1> DEFINE P(n) == SubSeq(XrTakeDown, 1, n)
           Follows(s, n, m) == s \in Seq(TakenDown) /\ Len(s) = m
                               /\ \A i \in 1 .. m : s[i] = XrTakeDown[n + i]
<1>1. XrTakeDown \in Seq(TakenDown) /\ Len(XrTakeDown) = 20
  BY DEF XrTakeDown, TakenDown, Handles
<1>2. SwapchainContextDestroy = P(2)
  BY DEF SwapchainContextDestroy, XrImageCleanup, XrTakeDown
<1>3. /\ Follows(RessourceManagerCleanup, 2, 2) /\ Follows(RendererDestroy, 4, 6)
      /\ Follows(DeviceContextDestroy, 10, 5) /\ Follows(XrBackendDestroy, 15, 5)
  BY DEF RessourceManagerCleanup, RendererDestroy, DeviceContextDestroy, XrBackendDestroy,
         XrTakeDown, TakenDown, Handles
<1>4. EngineDestroy = SwapchainContextDestroy \o RessourceManagerCleanup \o RendererDestroy
                      \o DeviceContextDestroy \o XrBackendDestroy
  BY DEF EngineDestroy
<1>5. ASSUME NEW n \in Nat, NEW m \in Nat, n + m <= 20, NEW s, Follows(s, n, m)
      PROVE  P(n) \o s = P(n + m)
  BY <1>1, <1>5, PrefixGrows
<1> HIDE DEF P, Follows
<1>6. P(2) \o RessourceManagerCleanup = P(4)
  BY <1>3, <1>5
<1>7. P(4) \o RendererDestroy = P(10)
  BY <1>3, <1>5
<1>8. P(10) \o DeviceContextDestroy = P(15)
  BY <1>3, <1>5
<1>9. P(15) \o XrBackendDestroy = P(20)
  BY <1>3, <1>5
<1>10. P(20) = XrTakeDown
  BY <1>1, WholePrefix DEF P
<1> QED BY <1>1, <1>2, <1>4, <1>6, <1>7, <1>8, <1>9, <1>10

\* Everything in S is still to be taken down, but the render pass of a headset.
Covered(order, S) ==
  \A h \in S : (\E i \in DOMAIN order : h \in order[i]) \/ (~IsDesktop /\ h = "renderPass")
\* When something in S goes, what was made from it is gone or goes with it, or is
\* known to outlive it.  The property of an order that every tail of it inherits.
InOrder(order, outlived, S) ==
  \A i \in DOMAIN order : \A p \in order[i] : \A h \in S :
    p \in Parents(h) /\ <<h, p>> \notin outlived => \E j \in 1 .. i : h \in order[j]

\* The order of a desktop covers what a desktop makes and puts children first.
LEMMA DesktopOrderly ==
  ASSUME IsDesktop, NEW outlived,
         ~host.keepsPlatform => <<"resizeCallback", "window">> \in outlived
  PROVE  /\ \A h \in OwnHandles : \E i \in DOMAIN EngineDestroy : h \in EngineDestroy[i]
         /\ InOrder(EngineDestroy, outlived, OwnHandles)
<1> DEFINE E == DesktopTakeDown
<1>1. EngineDestroy = E /\ DOMAIN E = 1 .. 21
  BY DesktopTakesDown DEF DesktopTakeDown
<1>2. /\ "renderPass" \in E[1] /\ "swapchain" \in E[2] /\ "targets" \in E[3] /\ "materials" \in E[4]
      /\ "shaders" \in E[5] /\ "objects" \in E[6] /\ "descriptorPool" \in E[7]
      /\ "pipelines" \in E[8] /\ "pipelineLayouts" \in E[9] /\ "setLayout" \in E[10]
      /\ "frames" \in E[11] /\ "transfers" \in E[12] /\ "commandPool" \in E[13]
      /\ "debugMessenger" \in E[14] /\ "pipelineCache" \in E[16] /\ "device" \in E[17]
      /\ "physicalDevice" \in E[17] /\ "surface" \in E[18] /\ "instance" \in E[19]
  BY DEF DesktopTakeDown
<1>3. /\ "window" \in E[20] \cup E[21] /\ "resizeCallback" \in E[20] \cup E[21]
      /\ host.keepsPlatform => "resizeCallback" \in E[20]
  BY DEF DesktopTakeDown
<1>4. \A h \in OwnHandles : \E i \in 1 .. 21 : h \in E[i]
  <2> HIDE DEF E
  <2> QED BY <1>2, <1>3 DEF OwnHandles, Handles
<1>5. \A i \in 1 .. 21 :
        /\ "descriptorPool" \in E[i] => i = 7
        /\ "pipelineLayouts" \in E[i] => i = 9
        /\ "setLayout" \in E[i] => i = 10
        /\ "transfers" \in E[i] => i = 12
        /\ "commandPool" \in E[i] => i = 13
        /\ "device" \in E[i] \/ "physicalDevice" \in E[i] => i = 17
        /\ "surface" \in E[i] => i = 18
        /\ "instance" \in E[i] => i = 19
  BY DEF DesktopTakeDown, Persist
<1>6. \A i \in 1 .. 21 : "window" \in E[i] => i >= 20 /\ (host.keepsPlatform => i = 21)
  BY DEF DesktopTakeDown, Persist
<1> HIDE DEF E
<1>7. ASSUME NEW i \in 1 .. 21, NEW p \in E[i], NEW h \in OwnHandles, p \in Parents(h),
             <<h, p>> \notin outlived
      PROVE  \E j \in 1 .. i : h \in E[j]
  <2>1. CASE p \in {"descriptorPool", "pipelineLayouts", "setLayout", "transfers", "commandPool"}
    <3>1. /\ p = "descriptorPool" => i = 7 /\ h = "materials"
          /\ p = "pipelineLayouts" => i = 9 /\ h = "pipelines"
          /\ p = "setLayout" => i = 10 /\ h = "pipelineLayouts"
          /\ p = "transfers" => i = 12 /\ h = "objects"
          /\ p = "commandPool" => i = 13 /\ h = "frames"
      BY <1>5, <1>7 DEF Parents
    <3> QED BY <1>2, <2>1, <3>1
  <2>2. CASE p = "device"
    <3>1. i = 17 /\ h \notin {"window", "resizeCallback", "surface", "instance"}
      BY <1>5, <1>7, <2>2 DEF Parents
    <3> QED BY <1>2, <3>1 DEF OwnHandles, Handles
  <2>3. CASE p \in {"physicalDevice", "instance", "surface"}
    <3>1. /\ p = "physicalDevice" => i = 17 /\ h = "device"
          /\ p = "surface" => i = 18 /\ h = "swapchain"
          /\ p = "instance" => i = 19 /\ h \in {"surface", "physicalDevice", "debugMessenger"}
      BY <1>5, <1>7 DEF Parents
    <3> QED BY <1>2, <2>3, <3>1
  <2>4. CASE p = "window"
    <3>1. i >= 20 /\ h \in {"surface", "resizeCallback"}
      BY <1>6, <1>7, <2>4 DEF Parents
    <3>2. h = "resizeCallback" => host.keepsPlatform
      BY <1>7, <2>4
    <3>3. h = "resizeCallback" => i = 21
      BY <1>6, <2>4, <3>2
    <3>4. CASE h = "surface"
      BY <1>2, <3>1, <3>4
    <3>5. CASE h = "resizeCallback"
      BY <1>3, <3>2, <3>3, <3>5
    <3> QED BY <3>1, <3>4, <3>5
  <2>5. p \in {"descriptorPool", "pipelineLayouts", "setLayout", "transfers", "commandPool", "device",
               "physicalDevice", "instance", "surface", "window"}
    BY <1>7 DEF Parents, OwnHandles, Handles
  <2> QED BY <2>1, <2>2, <2>3, <2>4, <2>5
<1> QED BY <1>1, <1>4, <1>7 DEF InOrder

\* And that of a headset, but for what outlives the device or the instance.
LEMMA XrOrderly ==
  ASSUME ~IsDesktop, NEW outlived,
         {<<"session", "device">>, <<"renderPass", "device">>, <<"actions", "xrInstance">>}
           \subseteq outlived
  PROVE  /\ \A h \in OwnHandles \ {"renderPass"} :
              \E i \in DOMAIN EngineDestroy : h \in EngineDestroy[i]
         /\ InOrder(EngineDestroy, outlived, OwnHandles)
<1> DEFINE E == XrTakeDown
<1>1. EngineDestroy = E /\ DOMAIN E = 1 .. 20
  BY XrTakesDown DEF XrTakeDown
<1>2. /\ "targets" \in E[1] /\ "swapchain" \in E[2] /\ "materials" \in E[3] /\ "shaders" \in E[4]
      /\ "objects" \in E[5] /\ "descriptorPool" \in E[6] /\ "pipelines" \in E[7]
      /\ "pipelineLayouts" \in E[8] /\ "setLayout" \in E[9] /\ "frames" \in E[10]
      /\ "transfers" \in E[11] /\ "commandPool" \in E[12] /\ "debugMessenger" \in E[13]
      /\ "pipelineCache" \in E[15] /\ "device" \in E[16] /\ "physicalDevice" \in E[16]
      /\ "session" \in E[17] /\ "space" \in E[17] /\ "instance" \in E[18]
      /\ "xrInstance" \in E[19] /\ "system" \in E[19] /\ "actions" \in E[20]
  BY DEF XrTakeDown
<1>3. \A h \in OwnHandles \ {"renderPass"} : \E i \in 1 .. 20 : h \in E[i]
  <2> HIDE DEF E
  <2> QED BY <1>2 DEF OwnHandles, Handles
<1>4. \A i \in 1 .. 20 :
        /\ "descriptorPool" \in E[i] => i = 6
        /\ "pipelineLayouts" \in E[i] => i = 8
        /\ "setLayout" \in E[i] => i = 9
        /\ "transfers" \in E[i] => i = 11
        /\ "commandPool" \in E[i] => i = 12
        /\ "device" \in E[i] \/ "physicalDevice" \in E[i] => i = 16
        /\ "session" \in E[i] => i = 17
        /\ "instance" \in E[i] => i = 18
        /\ "xrInstance" \in E[i] => i = 19
  BY DEF XrTakeDown, Persist
<1> HIDE DEF E
<1>5. ASSUME NEW i \in 1 .. 20, NEW p \in E[i], NEW h \in OwnHandles, p \in Parents(h),
             <<h, p>> \notin outlived
      PROVE  \E j \in 1 .. i : h \in E[j]
  <2>1. CASE p \in {"descriptorPool", "pipelineLayouts", "setLayout", "transfers", "commandPool"}
    <3>1. /\ p = "descriptorPool" => i = 6 /\ h = "materials"
          /\ p = "pipelineLayouts" => i = 8 /\ h = "pipelines"
          /\ p = "setLayout" => i = 9 /\ h = "pipelineLayouts"
          /\ p = "transfers" => i = 11 /\ h = "objects"
          /\ p = "commandPool" => i = 12 /\ h = "frames"
      BY <1>4, <1>5 DEF Parents
    <3> QED BY <1>2, <2>1, <3>1
  <2>2. CASE p = "device"
    <3>1. i = 16 /\ h \notin {"xrInstance", "system", "space", "instance", "actions"}
      BY <1>4, <1>5, <2>2 DEF Parents
    <3>2. h # "session" /\ h # "renderPass"
      BY <1>5, <2>2
    <3> QED BY <1>2, <3>1, <3>2 DEF OwnHandles, Handles
  <2>3. CASE p \in {"physicalDevice", "session", "instance", "xrInstance"}
    <3>1. /\ p = "physicalDevice" => i = 16 /\ h = "device"
          /\ p = "session" => i = 17 /\ h \in {"swapchain", "space"}
          /\ p = "instance" => i = 18 /\ h \in {"physicalDevice", "debugMessenger"}
          /\ p = "xrInstance" => i = 19 /\ h \in {"system", "session"}
      BY <1>4, <1>5 DEF Parents, OwnHandles
    <3> QED BY <1>2, <2>3, <3>1
  <2>4. p \in {"descriptorPool", "pipelineLayouts", "setLayout", "transfers", "commandPool",
               "device", "physicalDevice", "session", "instance", "xrInstance"}
    BY <1>5 DEF Parents, OwnHandles, Handles
  <2> QED BY <2>1, <2>2, <2>3, <2>4
<1> QED BY <1>1, <1>3, <1>5 DEF InOrder

\* What is left of an order after its first function.
LEMMA TailOrder ==
  ASSUME NEW order \in Seq(TakenDown), order # <<>>, NEW outlived, NEW S, S \subseteq Handles,
         InOrder(order, outlived, S)
  PROVE  /\ Tail(order) \in Seq(TakenDown)
         /\ \A p \in Head(order) : \A h \in S \ Head(order) :
              p \notin Parents(h) \/ <<h, p>> \in outlived
         /\ InOrder(Tail(order), outlived, S \ Head(order))
         /\ \A h \in S \ Head(order) : (\E i \in DOMAIN order : h \in order[i]) =>
                                         \E i \in DOMAIN Tail(order) : h \in Tail(order)[i]
<1> DEFINE t == Tail(order)
<1>1. /\ t \in Seq(TakenDown) /\ DOMAIN order = 1 .. Len(order) /\ DOMAIN t = 1 .. Len(order) - 1
      /\ 1 \in DOMAIN order /\ Head(order) = order[1] /\ Len(order) \in Nat \ {0}
      /\ \A i \in 1 .. Len(order) - 1 : t[i] = order[i + 1]
  OBVIOUS
<1> HIDE DEF t
<1>2. ASSUME NEW p \in Head(order), NEW h \in S \ Head(order)
      PROVE  p \notin Parents(h) \/ <<h, p>> \in outlived
  <2>1. \A j \in 1 .. 1 : order[j] = Head(order)
    BY <1>1
  <2> QED BY <1>1, <1>2, <2>1 DEF InOrder
<1>3. ASSUME NEW i \in DOMAIN t, NEW p \in t[i], NEW h \in S \ Head(order), p \in Parents(h),
             <<h, p>> \notin outlived
      PROVE  \E j \in 1 .. i : h \in t[j]
  <2>1. i + 1 \in DOMAIN order /\ p \in order[i + 1]
    BY <1>1, <1>3
  <2>2. PICK j \in 1 .. i + 1 : h \in order[j]
    BY <1>3, <2>1 DEF InOrder
  <2>3. j # 1
    BY <1>1, <1>3, <2>2
  <2>4. j - 1 \in 1 .. i /\ t[j - 1] = order[j]
    BY <1>1, <1>3, <2>2, <2>3
  <2> QED BY <2>2, <2>4
<1>4. ASSUME NEW h \in S \ Head(order), NEW i \in DOMAIN order, h \in order[i]
      PROVE  \E j \in DOMAIN t : h \in t[j]
  <2>1. i # 1
    BY <1>1, <1>4
  <2>2. i - 1 \in DOMAIN t /\ t[i - 1] = order[i]
    BY <1>1, <1>4, <2>1
  <2> QED BY <1>4, <2>2
<1> QED BY <1>1, <1>2, <1>3, <1>4 DEF t, InOrder

\* The inductive invariant of the handles.
HandlesInv ==
  /\ SetUpInv
  /\ todo \in Seq(TakenDown)
  /\ phase = "tearDown" => InOrder(todo, Outlived, live) /\ Covered(todo, live)
  /\ ChildrenFirst
  /\ AllReleased

LEMMA HandlesInit == Init => HandlesInv
BY DEF Init, HandlesInv, SetUpInv, SetUpSafe, ChildrenFirst, AllReleased, TakenDown

\* The destruction begins with everything still to be taken down.
LEMMA CloseStep ==
  ASSUME HandlesInv, Close
  PROVE  HandlesInv'
<1>1. /\ phase = "up" /\ phase' = "tearDown" /\ todo' = EngineDestroy
      /\ UNCHANGED <<host, next, live, faults>>
  BY DEF Close
<1>2. /\ IsDesktop' = IsDesktop /\ OwnHandles' = OwnHandles /\ \A h : Parents(h)' = Parents(h)
  BY <1>1, SameHost
<1>3. Rooted(live) /\ live \subseteq OwnHandles /\ faults \in Nat
  BY <1>1 DEF HandlesInv, SetUpInv
<1>4. /\ IsDesktop /\ ~host.keepsPlatform => <<"resizeCallback", "window">> \in Outlived'
      /\ ~IsDesktop => {<<"session", "device">>, <<"renderPass", "device">>, <<"actions", "xrInstance">>}
                      \subseteq Outlived'
  BY <1>1, <1>2 DEF Outlived
<1>5. /\ EngineDestroy \in Seq(TakenDown)
      /\ InOrder(EngineDestroy, Outlived', OwnHandles)
      /\ Covered(EngineDestroy, OwnHandles)
  <2>1. CASE IsDesktop
    BY <1>4, <2>1, DesktopOrderly, DesktopTakesDown DEF Covered
  <2>2. CASE ~IsDesktop
    BY <1>4, <2>2, XrOrderly, XrTakesDown DEF Covered
  <2> QED BY <2>1, <2>2
<1>6. InOrder(EngineDestroy, Outlived', live) /\ Covered(EngineDestroy, live)
  BY <1>3, <1>5 DEF InOrder, Covered
<1>7. InOrder(todo, Outlived, live)' /\ Covered(todo, live)'
  BY <1>1, <1>2, <1>6 DEF InOrder, Covered
<1>8. ChildrenFirst'
  BY <1>1, <1>2, <1>3 DEF ChildrenFirst, Rooted
<1>9. SetUpInv'
  BY <1>1, <1>2, <1>3 DEF SetUpInv, SetUpSafe
<1>10. AllReleased'
  BY <1>1 DEF AllReleased
<1> QED BY <1>1, <1>5, <1>7, <1>8, <1>9, <1>10 DEF HandlesInv

\* One function of the destruction: what it takes down is nobody's parent any more.
LEMMA TakeDownStep ==
  ASSUME HandlesInv, phase = "tearDown", todo # <<>>, UNCHANGED <<phase, host, next, faults>>,
         live' = live \ Head(todo), todo' = Tail(todo)
  PROVE  HandlesInv'
<1>1. /\ IsDesktop' = IsDesktop /\ OwnHandles' = OwnHandles /\ \A h : Parents(h)' = Parents(h)
  BY SameHost
<1>2. Outlived' = Outlived
  BY <1>1 DEF Outlived
<1>3. /\ todo \in Seq(TakenDown) /\ InOrder(todo, Outlived, live) /\ Covered(todo, live)
      /\ live \subseteq OwnHandles /\ faults \in Nat /\ live \subseteq Handles
  BY DEF HandlesInv, SetUpInv, OwnHandles
<1>4. /\ todo' \in Seq(TakenDown)
      /\ \A p \in Head(todo) : \A h \in live' : p \notin Parents(h) \/ <<h, p>> \in Outlived
      /\ InOrder(todo', Outlived, live')
      /\ \A h \in live' : (\E i \in DOMAIN todo : h \in todo[i]) =>
                          \E i \in DOMAIN todo' : h \in todo'[i]
  BY <1>3, TailOrder
<1>5. InOrder(todo, Outlived, live)' /\ Covered(todo, live)'
  BY <1>1, <1>2, <1>3, <1>4 DEF InOrder, Covered
<1>6. ChildrenFirst'
  BY <1>1, <1>2, <1>4 DEF ChildrenFirst, HandlesInv
<1>7. SetUpInv' /\ AllReleased'
  BY <1>1, <1>3 DEF SetUpInv, SetUpSafe, AllReleased
<1> QED BY <1>4, <1>5, <1>6, <1>7 DEF HandlesInv

\* And ends with nothing left.
LEMMA ClosedStep ==
  ASSUME HandlesInv, Closed
  PROVE  HandlesInv'
<1>1. /\ phase = "tearDown" /\ phase' = "closed" /\ todo = <<>>
      /\ UNCHANGED <<host, next, todo, live, faults>>
  BY DEF Closed
<1>2. /\ IsDesktop' = IsDesktop /\ OwnHandles' = OwnHandles /\ \A h : Parents(h)' = Parents(h)
  BY <1>1, SameHost
<1>3. Outlived' = Outlived
  BY <1>1, <1>2 DEF Outlived
<1>4. AllReleased'
  BY <1>1, <1>2 DEF HandlesInv, Covered, AllReleased
<1>5. SetUpInv' /\ ChildrenFirst'
  BY <1>1, <1>2, <1>3 DEF HandlesInv, SetUpInv, SetUpSafe, ChildrenFirst
<1> QED BY <1>1, <1>4, <1>5 DEF HandlesInv

LEMMA HandlesStep == HostInv /\ HandlesInv /\ [Next]_vars => HandlesInv'
<1> SUFFICES ASSUME HostInv, HandlesInv, [Next]_vars PROVE HandlesInv'
  OBVIOUS
<1>1. CASE Launch
  <2>1. /\ phase = "off" /\ phase' = "setUp" /\ next' = 1 /\ live' = {} /\ faults' = 0
        /\ UNCHANGED todo
    BY <1>1 DEF Launch, HostInv, HandlesInv, SetUpInv
  <2>2. SetUpInv'
    BY <2>1 DEF SetUpInv, SetUpSafe, Rooted, Passed
  <2> QED BY <2>1, <2>2 DEF HandlesInv, ChildrenFirst, AllReleased
<1>2. CASE SetUp
  <2>1. phase = "setUp"
    BY <1>2, SetUpMoves DEF Moves
  <2>2. next \in Nat \ {0} /\ host \in Hosts
    BY <2>1 DEF HostInv
  <2>3. Effect
    BY <1>2, <2>2, SetUpEffect DEF HandlesInv
  <2>4. SetUpInv'
    BY <2>2, <2>3, EffectKeeps DEF HandlesInv
  <2>5. phase' \notin {"tearDown", "closed"} /\ UNCHANGED todo
    BY <2>3 DEF Effect
  <2>6. Rooted(live)'
    BY <2>3, SameHost DEF Effect, Rooted
  <2>7. ChildrenFirst'
    BY <2>5, <2>6 DEF ChildrenFirst, Rooted, Outlived
  <2> QED BY <2>4, <2>5, <2>7 DEF HandlesInv, AllReleased
<1>3. CASE Running
  <2>1. phase = "up" /\ phase' \in {"up", "undefined"} /\ UNCHANGED todo
    BY <1>3 DEF Running, AddObjects, DesktopRecreate, XrRecreate, CreateDesktopImage
  <2>2. next \in Nat /\ host \in Hosts
    BY <2>1 DEF HostInv
  <2>3. SetUpInv'
    BY <1>3, <2>2, RunningStep DEF HandlesInv
  <2>4. Rooted(live)'
    BY <2>1, <2>3 DEF SetUpInv
  <2>5. ChildrenFirst'
    BY <2>1, <2>4 DEF ChildrenFirst, Rooted, Outlived
  <2> QED BY <2>1, <2>3, <2>5 DEF HandlesInv, AllReleased
<1>4. CASE Close
  BY <1>4, CloseStep
<1>5. CASE Release
  BY <1>5, TakeDownStep DEF Release
<1>6. CASE PersistCache
  <2>1. /\ phase = "tearDown" /\ todo # <<>> /\ Head(todo) = {Persist}
        /\ UNCHANGED <<phase, host, next, live, faults>> /\ todo' \in {todo, Tail(todo)}
    BY <1>6 DEF PersistCache
  <2>2. live = live \ {Persist}
    BY DEF HandlesInv, SetUpInv, OwnHandles, Handles, Persist
  <2>3. CASE UNCHANGED todo
    <3>1. /\ IsDesktop' = IsDesktop /\ OwnHandles' = OwnHandles /\ \A h : Parents(h)' = Parents(h)
      BY <2>1, SameHost
    <3>2. Outlived' = Outlived
      BY <2>1, <3>1 DEF Outlived
    <3> QED
      BY <2>1, <2>3, <3>1, <3>2
      DEF HandlesInv, SetUpInv, SetUpSafe, InOrder, Covered, ChildrenFirst, AllReleased
  <2>4. CASE todo' = Tail(todo)
    BY <2>1, <2>2, <2>4, TakeDownStep
  <2> QED BY <2>1, <2>3, <2>4
<1>7. CASE Closed
  BY <1>7, ClosedStep
<1>8. CASE Exit
  BY <1>8 DEF Exit, HandlesInv, SetUpInv, SetUpSafe, ChildrenFirst, AllReleased, TakenDown
<1>9. CASE UNCHANGED vars
  <2>1. UNCHANGED <<phase, host, next, todo, live, faults>>
    BY <1>9 DEF vars
  <2>2. /\ IsDesktop' = IsDesktop /\ Engine' = Engine /\ OwnHandles' = OwnHandles
        /\ \A h : Parents(h)' = Parents(h)
    BY <2>1, SameHost
  <2>3. Outlived' = Outlived
    BY <2>1, <2>2 DEF Outlived
  <2>4. SetUpInv'
    BY <2>1, <2>2 DEF HandlesInv, SetUpInv, SetUpSafe, Passed, Rooted
  <2> QED
    BY <2>1, <2>2, <2>3, <2>4 DEF HandlesInv, InOrder, Covered, ChildrenFirst, AllReleased
<1> QED BY <1>1, <1>2, <1>3, <1>4, <1>5, <1>6, <1>7, <1>8, <1>9 DEF Next

---------------------------------------------------------------------------

\* At every moment of a process the invariant of the handles holds (Engine.cpp).
THEOREM HandlesInvAlways == Spec => [](HostInv /\ HandlesInv)
<1>1. Init => HostInv /\ HandlesInv
  BY HandlesInit DEF Init, HostInv
<1> QED BY <1>1, HostStep, HandlesStep, PTL DEF Spec

\* Nothing outlives what it was made from in the set-up, with whatever calls
\* refused, or while the swapchains are recreated, and between two functions of
\* ~Engine (Engine.cpp, Renderer.cpp, DeviceContext.cpp) only the session, the
\* render pass and the actions of a headset do, and the callback of a desktop
\* whose platform the engine owns: there the code breaks the order.
THEOREM ChildrenFirstAlways == Spec => []ChildrenFirst
<1>1. HandlesInv => ChildrenFirst
  BY DEF HandlesInv
<1> QED BY <1>1, HandlesInvAlways, PTL

\* When ~Engine has ended, nothing the set-up or the application made is left, but
\* the render pass of OpenXR (XrSwapchainContext.cpp).
THEOREM AllReleasedAlways == Spec => []AllReleased
<1>1. HandlesInv => AllReleased
  BY DEF HandlesInv
<1> QED BY <1>1, HandlesInvAlways, PTL

\* A null handle reaches Vulkan only in a process in which a call was refused, and
\* on a desktop never before the device exists (DesktopDeviceBackend.cpp throws).
THEOREM SetUpSafeAlways == Spec => []SetUpSafe
<1>1. HandlesInv => SetUpSafe
  BY DEF HandlesInv, SetUpInv
<1> QED BY <1>1, HandlesInvAlways, PTL

---------------------------------------------------------------------------
(* Render pass, framebuffers and pipelines agree *)

\* A sequence with an element of S has a first one.
LEMMA FirstExists ==
  ASSUME NEW s, NEW n \in Nat, DOMAIN s = 1 .. n, NEW S, SomeIn(s, S)
  PROVE  \E m \in DOMAIN s : s[m] \in S /\ \A j \in 1 .. m - 1 : s[j] \notin S
<1> DEFINE F == {i \in DOMAIN s : s[i] \in S}
<1>1. F \subseteq Nat /\ F # {}
  BY DEF SomeIn
<1>2. PICK m \in F : \A j \in F : <<j, m>> \notin OpToRel(<, Nat)
  BY <1>1, WFMin, NatLessThanWellFounded, Zenon
<1>3. \A j \in F : ~(j < m)
  BY <1>1, <1>2 DEF OpToRel
<1>4. m \in DOMAIN s /\ s[m] \in S /\ \A j \in 1 .. m - 1 : s[j] \notin S
  BY <1>3
<1> QED BY <1>4

\* And the first one is in S.
LEMMA FirstIsIn ==
  ASSUME NEW s, NEW n \in Nat, DOMAIN s = 1 .. n, NEW S, SomeIn(s, S)
  PROVE  FirstIn(s, S) \in S
BY FirstExists DEF FirstIn

\* Where the first is, when known.
LEMMA FirstAt ==
  ASSUME NEW s, NEW n \in Nat, DOMAIN s = 1 .. n, NEW S,
         NEW m \in DOMAIN s, s[m] \in S, \A j \in 1 .. m - 1 : s[j] \notin S
  PROVE  FirstIn(s, S) = s[m]
<1> DEFINE P(i) == i \in DOMAIN s /\ s[i] \in S /\ \A j \in 1 .. i - 1 : s[j] \notin S
           c == CHOOSE i \in DOMAIN s : s[i] \in S /\ \A j \in 1 .. i - 1 : s[j] \notin S
<1>1. P(c)
  OBVIOUS
<1>2. c = m
  <2> HIDE DEF c
  <2> QED BY <1>1
<1> QED BY <1>2 DEF FirstIn

\* The format of the images is that of the render pass.
LEMMA FormatsAgree ==
  ASSUME NEW h, RegularFormats(h)
  PROVE  chooseSwapSurfaceFormat(h) = selectSwapchainFormat(h)
<1> DEFINE formats == FormatsOf(h)
           good == [format : PreferredFormats, space : {"srgb"}]
           n == Len(h.formats)
<1>1. /\ h.formats \in Seq([format : STRING, space : STRING]) /\ h.formats # <<>>
      /\ n \in Nat /\ DOMAIN h.formats = 1 .. n /\ 1 \in 1 .. n
  BY DEF RegularFormats
<1>2. /\ DOMAIN formats = 1 .. n
      /\ \A i \in 1 .. n : formats[i] = h.formats[i].format
  BY <1>1 DEF FormatsOf
<1>3. \A i \in 1 .. n : h.formats[i] \in [format : STRING, space : STRING]
  <2> DEFINE R == [format : STRING, space : STRING]
  <2>1. h.formats \in Seq(R)
    BY <1>1
  <2> HIDE DEF R
  <2>2. \A i \in 1 .. n : h.formats[i] \in R
    BY <2>1
  <2> QED BY <2>2 DEF R
<1>4. CASE SomeIn(formats, PreferredFormats)
  <2>1. \A i \in 1 .. n : formats[i] \in PreferredFormats => h.formats[i].space = "srgb"
    BY <1>1, <1>2, <1>4 DEF RegularFormats
  <2>2. \A i \in 1 .. n : formats[i] \in PreferredFormats <=> h.formats[i] \in good
    BY <1>2, <1>3, <2>1
  <2> HIDE DEF formats, good, n
  <2>3. PICK m \in 1 .. n : /\ formats[m] \in PreferredFormats
                            /\ \A j \in 1 .. m - 1 : formats[j] \notin PreferredFormats
    BY <1>1, <1>2, <1>4, FirstExists
  <2>4. FirstIn(formats, PreferredFormats) = formats[m]
    BY <1>1, <1>2, <2>3, FirstAt
  <2>5. h.formats[m] \in good /\ \A j \in 1 .. m - 1 : h.formats[j] \notin good
    BY <1>1, <2>2, <2>3
  <2>6. SomeIn(h.formats, good) /\ FirstIn(h.formats, good) = h.formats[m]
    BY <1>1, <2>5, FirstAt DEF SomeIn
  <2>7. selectSwapchainFormat(h) = formats[m]
    BY <1>4, <2>4 DEF selectSwapchainFormat, formats
  <2>8. chooseSwapSurfaceFormat(h) = h.formats[m].format
    BY <2>6 DEF chooseSwapSurfaceFormat, good
  <2> QED BY <1>2, <2>7, <2>8
<1>5. CASE ~SomeIn(formats, PreferredFormats)
  <2>1. formats[1] \in h.renderable
    BY <1>1, <1>2, <1>5 DEF RegularFormats
  <2>2. ~SomeIn(h.formats, good)
    BY <1>1, <1>2, <1>5 DEF SomeIn
  <2> HIDE DEF formats, good, n
  <2>3. SomeIn(formats, h.renderable) /\ FirstIn(formats, h.renderable) = formats[1]
    BY <1>1, <1>2, <2>1, FirstAt DEF SomeIn
  <2>4. selectSwapchainFormat(h) = formats[1]
    BY <1>5, <2>3 DEF selectSwapchainFormat, formats
  <2>5. chooseSwapSurfaceFormat(h) = h.formats[1].format
    BY <2>2 DEF chooseSwapSurfaceFormat, good
  <2> QED BY <1>1, <1>2, <2>4, <2>5
<1> QED BY <1>4, <1>5

\* The framebuffers of a desktop fit its render pass, with any sample count.
LEMMA DesktopFits ==
  ASSUME NEW h, RegularFormats(h), NEW count
  PROVE  Fits(DesktopImage(h, count), DesktopRenderPass(h, count))
<1> DEFINE f == selectSwapchainFormat(h)
<1>1. chooseSwapSurfaceFormat(h) = f
  BY FormatsAgree
<1> HIDE DEF f
<1>2. CASE count = 1
  BY <1>1, <1>2 DEF Fits, DesktopImage, DesktopRenderPass, createFramebuffers, createRenderPass,
       desktopColorAttachmentMode, multiviewViewMask, f
<1>3. CASE count # 1
  BY <1>1, <1>3 DEF Fits, DesktopImage, DesktopRenderPass, createFramebuffers, createRenderPass,
       desktopColorAttachmentMode, multiviewViewMask, f
<1> QED BY <1>2, <1>3

\* And those of a headset, with the layers the mask was made for.
LEMMA XrFits ==
  ASSUME NEW h, RegularHeadset(h), NEW view \in DOMAIN h.views, h.views # <<>>,
         NEW count, NEW layers, NEW layered,
         multiviewViewMask(layers) = XrRenderPass(h, count, layered).mask
  PROVE  Fits(XrImage(h, count, view, layers), XrRenderPass(h, count, layered))
<1>1. h.views[view] = h.views[1]
  BY DEF RegularHeadset
<1>2. CASE h.views[1] # 1
  BY <1>1, <1>2 DEF Fits, XrImage, XrRenderPass, createFramebuffers, createRenderPass, selectMsaaSamples
<1>3. CASE h.views[1] = 1 /\ count = 1
  BY <1>1, <1>3 DEF Fits, XrImage, XrRenderPass, createFramebuffers, createRenderPass, selectMsaaSamples
<1>4. CASE h.views[1] = 1 /\ count # 1
  BY <1>1, <1>4 DEF Fits, XrImage, XrRenderPass, createFramebuffers, createRenderPass, selectMsaaSamples
<1> QED BY <1>2, <1>3, <1>4

\* The three choices that a surface or a device limits.
LEMMA CountSupported ==
  ASSUME NEW h, RegularDesktop(h)
  PROVE  setMsaaSamples(setMsaaSamples(1, 1, h), h.asked, h) \in h.samples
BY DEF RegularDesktop, setMsaaSamples

LEMMA ModeSupported ==
  ASSUME NEW h, RegularDesktop(h), NEW modes, "fifo" \in modes
  PROVE  chooseSwapPresentMode(h, modes) \in modes
<1> DEFINE wanted == [fifo |-> <<>>, mailbox |-> <<"mailbox">>, immediate |-> <<"immediate">>,
                 auto |-> <<"mailbox", "immediate">>][h.presentMode]
<1>1. \E n \in Nat : DOMAIN wanted = 1 .. n
  <2>1. \/ h.presentMode = "fifo" /\ DOMAIN wanted = 1 .. 0
        \/ h.presentMode \in {"mailbox", "immediate"} /\ DOMAIN wanted = 1 .. 1
        \/ h.presentMode = "auto" /\ DOMAIN wanted = 1 .. 2
    BY DEF RegularDesktop
  <2> HIDE DEF wanted
  <2> QED BY <2>1
<1> HIDE DEF wanted
<1>2. SomeIn(wanted, modes) => FirstIn(wanted, modes) \in modes
  BY <1>1, FirstIsIn
<1> QED BY <1>2 DEF chooseSwapPresentMode, wanted

LEMMA ImagesWithinBounds ==
  ASSUME NEW h, RegularDesktop(h)
  PROVE  /\ ImageCount(h) >= h.minImages
         /\ h.maxImages # 0 => ImageCount(h) <= h.maxImages
BY DEF RegularDesktop, ImageCount

\* What a desktop renders into, as far as the set-up has come.
DesktopTargets ==
  /\ next > 10 => msaa \in host.samples
  /\ next > 11 => renderPass = DesktopRenderPass(host, msaa)
  /\ next <= 12 => images = <<>>
  /\ \A i \in DOMAIN images : images[i] = DesktopImage(host, msaa)
  /\ next <= 16 => "pipelines" \notin live
  /\ "pipelines" \in live => samples = msaa

\* One layered swapchain for all views, or swapchains of one layer.
ChainsOf(chains) ==
  \E n \in {1} \cup IF MultiviewWanted(host) THEN {Len(host.views)} ELSE {} :
    \A i \in DOMAIN chains : chains[i].view \in DOMAIN host.views /\ chains[i].layers = n

\* What a headset renders into.
XrTargets ==
  /\ next <= 14 => swapchains = <<>>
  /\ ChainsOf(swapchains)
  /\ next > 15 =>
       /\ \E layered \in BOOLEAN : renderPass = XrRenderPass(host, msaa, layered)
       /\ renderPass.mask # 0 => MultiviewWanted(host)
       /\ \A i \in DOMAIN swapchains : multiviewViewMask(swapchains[i].layers) = renderPass.mask
  /\ next <= 16 => images = <<>>
  /\ \A i \in DOMAIN images :
       /\ i \in DOMAIN swapchains
       /\ images[i] = XrImage(host, msaa, swapchains[i].view, swapchains[i].layers)
  /\ next <= 19 => "pipelines" \notin live
  /\ "pipelines" \in live => samples = selectMsaaSamples(host, msaa).samples

\* The machines the theorem is about: others have been seen to disagree.
RegularHosts ==
  /\ \A h \in DesktopHosts : RegularDesktop(h)
  /\ \A h \in XrHosts : RegularHeadset(h)

\* The inductive invariant of the targets.
TargetsInv ==
  /\ phase = "off" => images = <<>> /\ swapchains = <<>> /\ live = {} /\ next = 1
  /\ phase \in {"setUp", "up"} => IF IsDesktop THEN DesktopTargets ELSE XrTargets

\* A step that builds none of them keeps the invariant.
LEMMA TargetsQuiet ==
  ASSUME TargetsInv, UNCHANGED <<host, built>>, phase \in {"setUp", "up"}, phase' \in {"setUp", "up"},
         next \in Nat \ {0}, next' \in {next, next + 1},
         next' # next => /\ next <= Len(Engine)
                         /\ Engine[next] \notin {"setMsaaSamples", "createRenderPass", "xrCreateRenderPass"},
         "pipelines" \in live' <=> "pipelines" \in live
  PROVE  TargetsInv'
<1>1. IsDesktop' = IsDesktop /\ UNCHANGED <<msaa, swapchains, renderPass, images, samples>>
  BY SameHost DEF built
<1>2. CASE IsDesktop
  <2>1. DesktopTargets
    BY <1>2 DEF TargetsInv
  <2>2. next' # next => next # 10 /\ next # 11
    BY <1>2, DesktopEngineSteps DEF Engine, DesktopSteps
  <2>3. /\ (next' > 10 => next > 10) /\ (next' > 11 => next > 11)
        /\ (next' <= 12 => next <= 12) /\ (next' <= 16 => next <= 16)
    BY <2>2
  <2>4. DesktopTargets'
    BY <1>1, <2>1, <2>3 DEF DesktopTargets
  <2> QED BY <1>1, <1>2, <2>4 DEF TargetsInv
<1>3. CASE ~IsDesktop
  <2>1. XrTargets
    BY <1>3 DEF TargetsInv
  <2>2. next' # next => next # 15
    BY <1>3, XrEngineSteps DEF Engine, XrSteps
  <2>3. /\ (next' <= 14 => next <= 14) /\ (next' > 15 => next > 15)
        /\ (next' <= 16 => next <= 16) /\ (next' <= 19 => next <= 19)
    BY <2>2
  <2>4. XrTargets'
    BY <1>1, <2>1, <2>3 DEF XrTargets, ChainsOf
  <2> QED BY <1>1, <1>3, <2>4 DEF TargetsInv
<1> QED BY <1>2, <1>3

\* A step of the set-up that builds nothing of what is rendered into.
Quiet ==
  /\ UNCHANGED <<host, built>> /\ phase = "setUp" /\ phase' # "off" /\ next' \in {next, next + 1}
  /\ phase' \in {"setUp", "up"} /\ next' # next =>
       /\ next <= Len(Engine)
       /\ Engine[next] \notin {"setMsaaSamples", "createRenderPass", "xrCreateRenderPass"}
  /\ "pipelines" \in live' <=> "pipelines" \in live

LEMMA AttemptQuiet ==
  ASSUME NEW step, step \notin {"setMsaaSamples", "createRenderPass", "xrCreateRenderPass"},
         NEW used, NEW checked, NEW makes, "pipelines" \notin makes, NEW refusals,
         NEW onFailure, onFailure # "off",
         Attempt(step, used, checked, makes, refusals, onFailure), Simple
  PROVE  Quiet
BY DEF Attempt, Doing, Undefined, Continue, Make, Simple, Quiet

\* The steps that do build some of it.
Builds == SetMsaaSamples \/ CreateRenderPass \/ CreateSwapchains \/ BuildSwapchainImages
          \/ DesktopSwapchainImage \/ createGraphicsPipelines

LEMMA SetUpQuiet == SetUp => Builds \/ Quiet
<1> SUFFICES ASSUME SetUp, ~Builds PROVE Quiet
  OBVIOUS
<1> USE DEF Throws, Logged
<1>1. CASE Window \/ DesktopCreateInstance \/ createSurface \/ DesktopCreateLogicalDevice
  BY <1>1, AttemptQuiet DEF Window, DesktopCreateInstance, createSurface, DesktopCreateLogicalDevice
<1>2. CASE createXrInstance \/ getSystem \/ XrCreateInstance \/ XrPickPhysicalDevice
  BY <1>2, AttemptQuiet DEF createXrInstance, getSystem, XrCreateInstance, XrPickPhysicalDevice
<1>3. CASE XrCreateLogicalDevice \/ createSession \/ createVisualizedSpace \/ XrManageActions
  BY <1>3, AttemptQuiet DEF XrCreateLogicalDevice, createSession, createVisualizedSpace, XrManageActions
<1>4. CASE setupDebugMessenger \/ createCommandPool \/ TransferManagerInit \/ RessourceManagerInit
  BY <1>4, AttemptQuiet DEF setupDebugMessenger, createCommandPool, TransferManagerInit, RessourceManagerInit
<1>5. CASE createDescriptorSetLayout \/ createDescriptorPool \/ Frames
  BY <1>5, AttemptQuiet DEF createDescriptorSetLayout, createDescriptorPool, Frames
<1>6. CASE DesktopPickPhysicalDevice
  BY <1>6 DEF DesktopPickPhysicalDevice, Doing, Continue, Make, Quiet
<1>7. CASE PipelineCacheInit
  BY <1>7 DEF PipelineCacheInit, Doing, Continue, Make, Quiet
<1>8. CASE SetCallback
  BY <1>8 DEF SetCallback, Doing, Continue, Make, Quiet
<1>9. CASE SetUpDone
  BY <1>9 DEF SetUpDone, Quiet
<1> QED
  BY <1>1, <1>2, <1>3, <1>4, <1>5, <1>6, <1>7, <1>8, <1>9 DEF SetUp, Builds

\* The swapchains that come out are layered together or not at all.
LEMMA ChainsMade ==
  ASSUME NEW refused, NEW layeredRefused, NEW chains \in XrChains(refused, layeredRefused),
         MultiviewWanted(host) => 1 \in DOMAIN host.views
  PROVE  ChainsOf(chains)
<1>1. CASE MultiviewWanted(host) /\ ~layeredRefused
  <2>1. chains = <<[view |-> 1, layers |-> Len(host.views)]>>
    BY <1>1 DEF XrChains
  <2> QED BY <1>1, <2>1 DEF ChainsOf
<1>2. CASE ~(MultiviewWanted(host) /\ ~layeredRefused)
  <2>1. chains \in [1 .. Cardinality(DOMAIN host.views \ refused) ->
                     [view : DOMAIN host.views \ refused, layers : {1}]]
    BY <1>2 DEF XrChains
  <2>2. \A i \in DOMAIN chains : chains[i].view \in DOMAIN host.views /\ chains[i].layers = 1
    BY <2>1
  <2> QED BY <2>2 DEF ChainsOf
<1> QED BY <1>1, <1>2

\* Where in the set-up those steps are.
LEMMA BuildPlaces ==
  ASSUME next \in Nat \ {0}, NEW step, Doing(step)
  PROVE  /\ step = "setMsaaSamples" => next = IF IsDesktop THEN 10 ELSE 13
         /\ step = "createRenderPass" => IsDesktop /\ next = 11
         /\ step = "DesktopSwapchainImage" => IsDesktop /\ next = 12
         /\ step = "createSwapchains" => ~IsDesktop /\ next = 14
         /\ step = "xrCreateRenderPass" => ~IsDesktop /\ next = 15
         /\ step = "buildSwapchainImages" => ~IsDesktop /\ next = 16
         /\ step = "createGraphicsPipelines" => next = IF IsDesktop THEN 16 ELSE 19
<1>1. CASE IsDesktop
  <2>1. Engine = DesktopSteps /\ next \in 1 .. 18 /\ Engine[next] = step
    BY <1>1, DesktopEngineSteps DEF Engine, DesktopSteps, Doing
  <2> QED BY <1>1, <2>1 DEF DesktopSteps
<1>2. CASE ~IsDesktop
  <2>1. Engine = XrSteps /\ next \in 1 .. 21 /\ Engine[next] = step
    BY <1>2, XrEngineSteps DEF Engine, XrSteps, Doing
  <2> QED BY <1>2, <2>1 DEF XrSteps
<1> QED BY <1>1, <1>2

\* The steps that build, one by one.
LEMMA MsaaStep ==
  ASSUME RegularHosts, TargetsInv, next \in Nat \ {0}, host \in Hosts, SetMsaaSamples
  PROVE  TargetsInv'
<1>1. /\ Doing("setMsaaSamples") /\ phase = "setUp" /\ phase' = "setUp" /\ next' = next + 1
      /\ msaa' = setMsaaSamples(setMsaaSamples(1, 1, host), host.asked, host)
      /\ UNCHANGED <<host, live, swapchains, renderPass, images, samples>>
  BY DEF SetMsaaSamples, Continue, Doing
<1>2. next = (IF IsDesktop THEN 10 ELSE 13) /\ IsDesktop' = IsDesktop
  BY <1>1, BuildPlaces, SameHost
<1>3. CASE IsDesktop
  <2>1. DesktopTargets /\ RegularDesktop(host)
    BY <1>1, <1>3 DEF TargetsInv, RegularHosts, IsDesktop
  <2>2. msaa' \in host.samples
    BY <1>1, <2>1, CountSupported
  <2>3. DesktopTargets'
    BY <1>1, <1>2, <1>3, <2>1, <2>2 DEF DesktopTargets
  <2> QED BY <1>1, <1>2, <1>3, <2>3 DEF TargetsInv
<1>4. CASE ~IsDesktop
  <2>1. XrTargets
    BY <1>1, <1>4 DEF TargetsInv
  <2>2. XrTargets'
    BY <1>1, <1>2, <1>4, <2>1 DEF XrTargets, ChainsOf
  <2> QED BY <1>1, <1>2, <1>4, <2>2 DEF TargetsInv
<1> QED BY <1>3, <1>4

\* The mask of a render pass is that of the layers it was made for.
LEMMA MaskOfLayers ==
  ASSUME ChainsOf(swapchains), NEW count,
         NEW layered, layered = (\E i \in DOMAIN swapchains : swapchains[i].layers > 1)
  PROVE  /\ XrRenderPass(host, count, layered).mask # 0 => MultiviewWanted(host)
         /\ \A i \in DOMAIN swapchains :
              multiviewViewMask(swapchains[i].layers) = XrRenderPass(host, count, layered).mask
<1>1. XrRenderPass(host, count, layered).mask = IF layered THEN multiviewViewMask(Len(host.views)) ELSE 0
  BY DEF XrRenderPass, createRenderPass
<1>2. PICK n \in {1} \cup IF MultiviewWanted(host) THEN {Len(host.views)} ELSE {} :
        \A i \in DOMAIN swapchains : swapchains[i].layers = n
  BY DEF ChainsOf
<1>3. multiviewViewMask(1) = 0
  BY DEF multiviewViewMask
<1>4. CASE layered
  <2>1. n > 1
    BY <1>2, <1>4
  <2>2. MultiviewWanted(host) /\ n = Len(host.views)
    BY <1>2, <2>1
  <2> QED BY <1>1, <1>2, <1>4, <2>2
<1>5. CASE ~layered
  <2>1. MultiviewWanted(host) => Len(host.views) > 1
    BY DEF MultiviewWanted
  <2>2. \A i \in DOMAIN swapchains : swapchains[i].layers = 1
    BY <1>2, <1>5, <2>1
  <2> QED BY <1>1, <1>3, <1>5, <2>2
<1> QED BY <1>4, <1>5

LEMMA RenderPassStep ==
  ASSUME TargetsInv, next \in Nat \ {0}, host \in Hosts, CreateRenderPass
  PROVE  TargetsInv'
<1>1. PICK step \in {"createRenderPass", "xrCreateRenderPass"} : Doing(step) /\ Engine[next] = step
  BY DEF CreateRenderPass, Doing
<1>2. Attempt(step, {"physicalDevice", "device"}, {}, {"renderPass"}, 1, Logged)
  BY <1>1 DEF CreateRenderPass
<1>3. /\ phase = "setUp" /\ phase' \in {"setUp", "undefined"} /\ host' = host
      /\ phase' = "setUp" => next' = next + 1
      /\ "pipelines" \in live' <=> "pipelines" \in live
      /\ UNCHANGED <<msaa, swapchains, images, samples>>
  BY <1>2 DEF CreateRenderPass, Attempt, Doing, Undefined, Continue, Make, Logged
<1>4. IsDesktop' = IsDesktop
  BY <1>3, SameHost
<1>5. CASE phase' = "undefined"
  BY <1>5 DEF TargetsInv
<1>6. CASE phase' = "setUp" /\ IsDesktop
  <2>1. next = 11 /\ DesktopTargets
    BY <1>1, <1>3, <1>6, BuildPlaces DEF TargetsInv
  <2>2. renderPass' = DesktopRenderPass(host, msaa)
    BY <1>1, <1>6, BuildPlaces DEF CreateRenderPass
  <2>3. DesktopTargets'
    BY <1>3, <1>6, <2>1, <2>2 DEF DesktopTargets
  <2> QED BY <1>4, <1>6, <2>3 DEF TargetsInv
<1>7. CASE phase' = "setUp" /\ ~IsDesktop
  <2> DEFINE layered == \E i \in DOMAIN swapchains : swapchains[i].layers > 1
  <2>1. next = 15 /\ XrTargets
    BY <1>1, <1>3, <1>7, BuildPlaces DEF TargetsInv
  <2>2. renderPass' = XrRenderPass(host, msaa, layered)
    BY <1>1, <1>7, BuildPlaces DEF CreateRenderPass
  <2>3. layered \in BOOLEAN
    OBVIOUS
  <2>4. /\ renderPass'.mask # 0 => MultiviewWanted(host)
        /\ \A i \in DOMAIN swapchains : multiviewViewMask(swapchains[i].layers) = renderPass'.mask
    BY <2>1, <2>2, MaskOfLayers DEF XrTargets
  <2> HIDE DEF layered
  <2>5. XrTargets'
    BY <1>3, <1>7, <2>1, <2>2, <2>3, <2>4 DEF XrTargets, ChainsOf
  <2> QED BY <1>4, <1>7, <2>5 DEF TargetsInv
<1> QED BY <1>3, <1>5, <1>6, <1>7

LEMMA FirstView == ASSUME host \in Hosts, MultiviewWanted(host) PROVE 1 \in DOMAIN host.views
BY LifecycleAssumption DEF Hosts, MultiviewWanted, MaxMultiviewViews

LEMMA SwapchainsStep ==
  ASSUME TargetsInv, next \in Nat \ {0}, host \in Hosts, CreateSwapchains
  PROVE  TargetsInv'
<1>1. /\ Doing("createSwapchains") /\ phase = "setUp" /\ phase' = "setUp" /\ next' = next + 1
      /\ "pipelines" \in live' <=> "pipelines" \in live
      /\ UNCHANGED <<host, msaa, renderPass, images, samples>>
  BY DEF CreateSwapchains, Continue, Make, Doing
<1>2. ~IsDesktop /\ next = 14 /\ IsDesktop' = IsDesktop
  BY <1>1, BuildPlaces, SameHost
<1>3. XrTargets
  BY <1>1, <1>2 DEF TargetsInv
<1>4. ChainsOf(swapchains')
  <2>1. CASE swapchains' = <<>>
    BY <2>1 DEF ChainsOf
  <2>2. CASE \E r, l : swapchains' \in XrChains(r, l)
    BY <2>2, ChainsMade, FirstView
  <2> QED BY <2>1, <2>2 DEF CreateSwapchains
<1>5. XrTargets'
  BY <1>1, <1>2, <1>3, <1>4 DEF XrTargets, ChainsOf
<1> QED BY <1>1, <1>2, <1>5 DEF TargetsInv

LEMMA ImagesOfChains ==
  ASSUME ~IsDesktop, NEW chains
  PROVE  /\ DOMAIN ImagesOf(chains) = DOMAIN chains
         /\ \A i \in DOMAIN chains :
              ImagesOf(chains)[i] = XrImage(host, msaa, chains[i].view, chains[i].layers)
BY DEF ImagesOf

LEMMA BuildImagesStep ==
  ASSUME TargetsInv, next \in Nat \ {0}, host \in Hosts, BuildSwapchainImages
  PROVE  TargetsInv'
<1>1. /\ Doing("buildSwapchainImages") /\ phase = "setUp" /\ phase' \in {"setUp", "undefined"}
      /\ phase' = "setUp" => next' = next + 1 /\ images' = ImagesOf(swapchains)
      /\ "pipelines" \in live' <=> "pipelines" \in live
      /\ UNCHANGED <<host, msaa, swapchains, renderPass, samples>>
  BY DEF BuildSwapchainImages, Continue, Make, Doing, Undefined
<1>2. ~IsDesktop /\ next = 16 /\ IsDesktop' = IsDesktop
  BY <1>1, BuildPlaces, SameHost
<1>3. XrTargets
  BY <1>1, <1>2 DEF TargetsInv
<1>4. CASE phase' = "undefined"
  BY <1>4 DEF TargetsInv
<1>5. CASE phase' = "setUp"
  <2>1. \A i \in DOMAIN images' : i \in DOMAIN swapchains
          /\ images'[i] = XrImage(host, msaa, swapchains[i].view, swapchains[i].layers)
    BY <1>1, <1>2, <1>5, ImagesOfChains
  <2>2. XrTargets'
    BY <1>1, <1>2, <1>3, <1>5, <2>1 DEF XrTargets, ChainsOf
  <2> QED BY <1>2, <1>5, <2>2 DEF TargetsInv
<1> QED BY <1>1, <1>4, <1>5

LEMMA DesktopImages ==
  ASSUME IsDesktop, CreateDesktopImage, phase # "undefined"
  PROVE  /\ phase' \in {phase, "undefined"}
         /\ phase' = phase => \A i \in DOMAIN images' : images'[i] = DesktopImage(host, msaa)
         /\ "pipelines" \in live' <=> "pipelines" \in live
<1>1. CASE images' = <<>> /\ UNCHANGED phase /\ live' = live \ {"swapchain", "targets"}
  BY <1>1
<1>2. CASE images' = ImagesOf(DesktopChain) /\ UNCHANGED phase /\ Make({"swapchain", "targets"})
  BY <1>2 DEF ImagesOf, Make
<1>3. CASE phase' = "undefined" /\ UNCHANGED live
  BY <1>3
<1> QED BY <1>1, <1>2, <1>3 DEF CreateDesktopImage

LEMMA DesktopImageStep ==
  ASSUME TargetsInv, SetUpInv, next \in Nat \ {0}, host \in Hosts, DesktopSwapchainImage \/ DesktopRecreate
  PROVE  TargetsInv'
<1>1. /\ phase \in {"setUp", "up"} /\ CreateDesktopImage /\ next' \in {next, next + 1}
      /\ UNCHANGED <<host, msaa, renderPass, samples>>
  BY DEF DesktopSwapchainImage, DesktopRecreate, Doing
<1>2. IsDesktop /\ next \in Nat /\ next' > 12
  <2>1. CASE DesktopSwapchainImage
    BY <2>1, BuildPlaces DEF DesktopSwapchainImage
  <2>2. CASE DesktopRecreate
    <3>1. IsDesktop /\ next' = next /\ next > Len(Engine)
      BY <2>2 DEF DesktopRecreate, SetUpInv
    <3>2. Len(Engine) = 18
      BY <3>1, DesktopEngineSteps DEF Engine, DesktopSteps
    <3> QED BY <3>1, <3>2
  <2> QED BY <2>1, <2>2
<1>3. IsDesktop' = IsDesktop /\ DesktopTargets
  BY <1>1, <1>2, SameHost DEF TargetsInv
<1>4. /\ phase' \in {phase, "undefined"}
      /\ phase' = phase => \A i \in DOMAIN images' : images'[i] = DesktopImage(host, msaa)
      /\ "pipelines" \in live' <=> "pipelines" \in live
  BY <1>1, <1>2, DesktopImages
<1>5. CASE phase' = "undefined"
  BY <1>5 DEF TargetsInv
<1>6. CASE phase' = phase
  <2>1. /\ next' > 10 => msaa \in host.samples
        /\ next' > 11 => renderPass = DesktopRenderPass(host, msaa)
        /\ next' <= 16 => "pipelines" \notin live
    <3>1. CASE DesktopSwapchainImage
      <4>1. next = 12
        BY <3>1, BuildPlaces DEF DesktopSwapchainImage
      <4> QED BY <1>3, <4>1 DEF DesktopTargets
    <3>2. CASE DesktopRecreate
      BY <1>3, <3>2 DEF DesktopTargets, DesktopRecreate
    <3> QED BY <3>1, <3>2
  <2>2. DesktopTargets'
    BY <1>1, <1>2, <1>3, <1>4, <1>6, <2>1 DEF DesktopTargets
  <2> QED BY <1>1, <1>2, <1>3, <1>6, <2>2 DEF TargetsInv
<1> QED BY <1>4, <1>5, <1>6

LEMMA PipelinesStep ==
  ASSUME TargetsInv, next \in Nat \ {0}, host \in Hosts, createGraphicsPipelines
  PROVE  TargetsInv'
<1> DEFINE count == IF IsDesktop THEN msaa ELSE selectMsaaSamples(host, msaa).samples
<1>1. /\ Doing("createGraphicsPipelines") /\ phase = "setUp" /\ phase' \in {"setUp", "undefined"}
      /\ phase' = "setUp" => next' = next + 1
      /\ UNCHANGED <<host, msaa, swapchains, renderPass, images>>
  BY DEF createGraphicsPipelines, Continue, Doing, Undefined
<1>2. next = (IF IsDesktop THEN 16 ELSE 19) /\ IsDesktop' = IsDesktop
  BY <1>1, BuildPlaces, SameHost
<1>3. "pipelines" \notin live
  BY <1>1, <1>2 DEF TargetsInv, DesktopTargets, XrTargets
<1>4. phase' = "setUp" => ("pipelines" \in live' => samples' = count)
  BY <1>3 DEF createGraphicsPipelines, Make, Undefined
<1> HIDE DEF count
<1>5. CASE phase' = "undefined"
  BY <1>5 DEF TargetsInv
<1>6. CASE phase' = "setUp" /\ IsDesktop
  <2>1. DesktopTargets /\ count = msaa
    BY <1>1, <1>6 DEF TargetsInv, count
  <2>2. DesktopTargets'
    BY <1>1, <1>2, <1>4, <1>6, <2>1 DEF DesktopTargets
  <2> QED BY <1>2, <1>6, <2>2 DEF TargetsInv
<1>7. CASE phase' = "setUp" /\ ~IsDesktop
  <2>1. XrTargets /\ count = selectMsaaSamples(host, msaa).samples
    BY <1>1, <1>7 DEF TargetsInv, count
  <2>2. XrTargets'
    BY <1>1, <1>2, <1>4, <1>7, <2>1 DEF XrTargets, ChainsOf
  <2> QED BY <1>2, <1>7, <2>2 DEF TargetsInv
<1> QED BY <1>1, <1>5, <1>6, <1>7

\* A layered swapchain is replaced by a layered one, or by none.
LEMMA XrRecreateStep ==
  ASSUME TargetsInv, SetUpInv, next \in Nat \ {0}, host \in Hosts, XrRecreate
  PROVE  TargetsInv'
<1>1. /\ phase = "up" /\ phase' \in {"up", "undefined"} /\ ~IsDesktop
      /\ UNCHANGED <<host, next, msaa, renderPass, samples>>
      /\ "pipelines" \in live' <=> "pipelines" \in live
      /\ phase' = "up" => images' = ImagesOf(swapchains')
  BY DEF XrRecreate
<1>2. IsDesktop' = IsDesktop
  BY <1>1, SameHost
<1>3. XrTargets /\ next > 19
  <2>1. Len(Engine) = 21 /\ next > Len(Engine)
    BY <1>1, XrEngineSteps DEF Engine, XrSteps, SetUpInv
  <2> QED BY <1>1, <2>1 DEF TargetsInv
<1>4. \/ swapchains' = <<>>
      \/ \E r : swapchains' \in XrChains(r, ~(renderPass.mask # 0))
  BY DEF XrRecreate
<1>5. ChainsOf(swapchains')
  <2>1. CASE swapchains' = <<>>
    BY <2>1 DEF ChainsOf
  <2>2. CASE \E r, l : swapchains' \in XrChains(r, l)
    BY <2>2, ChainsMade, FirstView
  <2> QED BY <1>4, <2>1, <2>2
<1>6. \A i \in DOMAIN swapchains' : multiviewViewMask(swapchains'[i].layers) = renderPass.mask
  <2>1. PICK layered \in BOOLEAN : renderPass = XrRenderPass(host, msaa, layered)
    BY <1>3 DEF XrTargets
  <2>2. renderPass.mask = IF layered THEN multiviewViewMask(Len(host.views)) ELSE 0
    BY <2>1 DEF XrRenderPass, createRenderPass
  <2>3. CASE swapchains' = <<>>
    BY <2>3
  <2>4. CASE renderPass.mask # 0
    <3>1. MultiviewWanted(host)
      BY <1>3, <2>4 DEF XrTargets
    <3>2. swapchains' = <<>> \/ swapchains' = <<[view |-> 1, layers |-> Len(host.views)]>>
      BY <1>4, <2>4, <3>1 DEF XrChains
    <3> QED BY <2>2, <2>4, <3>2
  <2>5. CASE renderPass.mask = 0 /\ swapchains' # <<>>
    <3>1. PICK r : swapchains' \in XrChains(r, TRUE)
      BY <1>4, <2>5
    <3>2. swapchains' \in [1 .. Cardinality(DOMAIN host.views \ r) ->
                            [view : DOMAIN host.views \ r, layers : {1}]]
      BY <3>1 DEF XrChains
    <3>3. \A i \in DOMAIN swapchains' : swapchains'[i].layers = 1
      BY <3>2
    <3> QED BY <2>5, <3>3 DEF multiviewViewMask
  <2> QED BY <2>3, <2>4, <2>5
<1>7. CASE phase' = "undefined"
  BY <1>7 DEF TargetsInv
<1>8. CASE phase' = "up"
  <2>1. \A i \in DOMAIN images' : i \in DOMAIN swapchains'
          /\ images'[i] = XrImage(host, msaa, swapchains'[i].view, swapchains'[i].layers)
    BY <1>1, <1>8, ImagesOfChains
  <2>2. XrTargets'
    BY <1>1, <1>3, <1>5, <1>6, <2>1 DEF XrTargets, ChainsOf
  <2> QED BY <1>1, <1>2, <1>8, <2>2 DEF TargetsInv
<1> QED BY <1>1, <1>7, <1>8

LEMMA TargetsStep ==
  ASSUME RegularHosts, HostInv, SetUpInv, TargetsInv, [Next]_vars
  PROVE  TargetsInv'
<1>1. CASE Launch
  <2>1. images' = <<>> /\ swapchains' = <<>> /\ live' = {} /\ next' = 1 /\ phase' = "setUp"
    BY <1>1 DEF Launch, TargetsInv, built
  <2>2. DesktopTargets'
    BY <2>1 DEF DesktopTargets
  <2>3. XrTargets'
    BY <2>1 DEF XrTargets, ChainsOf
  <2> QED BY <2>1, <2>2, <2>3 DEF TargetsInv
<1>2. CASE SetUp
  <2>1. phase = "setUp" /\ next \in Nat \ {0} /\ host \in Hosts
    BY <1>2, SetUpMoves DEF Moves, HostInv
  <2>2. CASE Quiet
    <3>1. CASE phase' \in {"setUp", "up"}
      BY <2>1, <2>2, <3>1, TargetsQuiet DEF Quiet
    <3>2. CASE phase' \notin {"setUp", "up"}
      BY <2>2, <3>2 DEF Quiet, TargetsInv
    <3> QED BY <3>1, <3>2
  <2>3. CASE Builds
    BY <2>1, <2>3, MsaaStep, RenderPassStep, SwapchainsStep, BuildImagesStep, DesktopImageStep,
       PipelinesStep DEF Builds
  <2> QED BY <1>2, <2>2, <2>3, SetUpQuiet
<1>3. CASE Running
  <2>1. phase = "up" /\ next \in Nat \ {0} /\ host \in Hosts
    BY <1>3 DEF Running, AddObjects, DesktopRecreate, XrRecreate, HostInv
  <2>2. CASE AddObjects
    <3>1. /\ phase' \in {"up", "undefined"} /\ UNCHANGED <<host, next, built>>
          /\ "pipelines" \in live' <=> "pipelines" \in live
      BY <2>2 DEF AddObjects, Make
    <3>2. CASE phase' = "up"
      BY <2>1, <3>1, <3>2, TargetsQuiet
    <3>3. CASE phase' = "undefined"
      BY <3>3 DEF TargetsInv
    <3> QED BY <3>1, <3>2, <3>3
  <2>3. CASE DesktopRecreate
    BY <2>1, <2>3, DesktopImageStep
  <2>4. CASE XrRecreate
    BY <2>1, <2>4, XrRecreateStep
  <2> QED BY <1>3, <2>2, <2>3, <2>4 DEF Running
<1>4. CASE Close \/ Release \/ PersistCache \/ Closed
  <2>1. phase' \in {"tearDown", "closed"}
    BY <1>4 DEF Close, Release, PersistCache, Closed
  <2> QED BY <2>1 DEF TargetsInv
<1>5. CASE Exit
  BY <1>5 DEF Exit, TargetsInv
<1>6. CASE UNCHANGED vars
  <2>1. UNCHANGED <<phase, host, next, live, msaa, swapchains, renderPass, images, samples>>
    BY <1>6 DEF vars, built
  <2>2. IsDesktop' = IsDesktop
    BY <2>1, SameHost
  <2> QED BY <2>1, <2>2 DEF TargetsInv, DesktopTargets, XrTargets, ChainsOf
<1> QED BY <1>1, <1>2, <1>3, <1>4, <1>5, <1>6 DEF Next

LEMMA TargetsInvFits ==
  ASSUME RegularHosts, HostInv, SetUpInv, TargetsInv
  PROVE  TargetsFit
<1> SUFFICES ASSUME phase = "up" PROVE TargetsFit
  BY DEF TargetsFit
<1>1. host \in Hosts /\ next > Len(Engine) /\ next \in Nat
  BY DEF HostInv, SetUpInv
<1>2. CASE IsDesktop
  <2>0. Len(Engine) = 18
    BY <1>2, DesktopEngineSteps DEF Engine, DesktopSteps
  <2>1. DesktopTargets /\ RegularDesktop(host) /\ next > 18 /\ next \in Nat
    BY <1>1, <1>2, <2>0 DEF TargetsInv, RegularHosts, IsDesktop
  <2>2. \A i \in DOMAIN images : Fits(images[i], renderPass)
    BY <2>1, DesktopFits DEF DesktopTargets, RegularDesktop
  <2>3. "pipelines" \in live => samples = renderPass.samples
    BY <2>1 DEF DesktopTargets, DesktopRenderPass, createRenderPass
  <2>4. chooseSwapPresentMode(host, host.gpus[pickPhysicalDevice(host)].modes)
          \in host.gpus[pickPhysicalDevice(host)].modes
    <3>1. HasGpu(host) /\ DOMAIN host.gpus = 1 .. Len(host.gpus) /\ Len(host.gpus) \in Nat
      BY <1>1, <1>2, <2>1, LifecycleAssumption DEF HostInv, Hosts
    <3>2. SuitableGpu(host, pickPhysicalDevice(host)) /\ pickPhysicalDevice(host) \in DOMAIN host.gpus
      BY <3>1, PickedIsGpu
    <3>3. "fifo" \in host.gpus[pickPhysicalDevice(host)].modes
      BY <2>1, <3>2 DEF SuitableGpu, isDeviceSuitable, RegularDesktop
    <3> QED BY <2>1, <3>3, ModeSupported
  <2>5. msaa \in host.samples
    BY <2>1 DEF DesktopTargets
  <2> QED BY <2>1, <2>2, <2>3, <2>4, <2>5, ImagesWithinBounds DEF TargetsFit
<1>3. CASE ~IsDesktop
  <2>0. Len(Engine) = 21
    BY <1>3, XrEngineSteps DEF Engine, XrSteps
  <2>1. XrTargets /\ RegularHeadset(host) /\ next > 21 /\ next \in Nat
    BY <1>1, <1>3, <2>0 DEF TargetsInv, RegularHosts, IsDesktop, Hosts
  <2>2. PICK layered \in BOOLEAN : renderPass = XrRenderPass(host, msaa, layered)
    BY <2>1 DEF XrTargets
  <2>3. ASSUME NEW i \in DOMAIN images PROVE Fits(images[i], renderPass)
    <3>1. /\ i \in DOMAIN swapchains /\ swapchains[i].view \in DOMAIN host.views
          /\ images[i] = XrImage(host, msaa, swapchains[i].view, swapchains[i].layers)
          /\ multiviewViewMask(swapchains[i].layers) = renderPass.mask
      BY <2>1, <2>3 DEF XrTargets, ChainsOf
    <3>2. host.views # <<>>
      BY <3>1
    <3> QED BY <2>1, <2>2, <3>1, <3>2, XrFits
  <2>4. "pipelines" \in live => samples = renderPass.samples
    BY <2>1, <2>2 DEF XrTargets, XrRenderPass, createRenderPass
  <2> QED BY <1>3, <2>3, <2>4 DEF TargetsFit
<1> QED BY <1>2, <1>3

\* On machines whose formats and view configurations agree, an engine that came
\* up renders into framebuffers that fit its render pass and its pipelines, with
\* counts and a mode the device has, and so it stays however often the swapchains
\* are recreated (SwapchainContext.cpp, DesktopSwapchainImage.cpp,
\* XrSwapchainContext.cpp, Renderer.cpp).
THEOREM TargetsFitAlways ==
  ASSUME RegularHosts
  PROVE  Spec => []TargetsFit
<1>1. Init => TargetsInv
  BY DEF Init, TargetsInv
<1>2. HostInv /\ HandlesInv /\ TargetsInv /\ [Next]_vars => TargetsInv'
  BY TargetsStep DEF HandlesInv
<1>3. HostInv /\ HandlesInv /\ TargetsInv => TargetsFit
  BY TargetsInvFits DEF HandlesInv
<1> QED BY <1>1, <1>2, <1>3, HandlesInvAlways, PTL DEF Spec
=============================================================================
