---------------------------- MODULE MCNegotiation ----------------------------
(* The runtimes and the options of the run over Negotiation. *)
EXTENDS Negotiation

All == CoreActions \cup MenuActions
Touch == All
Reserved == CoreActions \cup {"menu"}
Index == CoreActions \ {"x", "y"}
Simple == {"aim", "grip", "menu"}

Headset ==
  [extensions |-> baseline \cup {"khrPassthrough", "fbPassthrough", "handTracking", "fbDepth"},
   configurations |-> <<"mono", "stereo">>,
   modes |-> [mono |-> <<"opaque">>, stereo |-> <<"alpha", "additive">>],
   profiles |-> [touch |-> Touch, index |-> Index, simple |-> Simple]]

\* A headset, one that keeps the system button, a phone with one view, a wide
\* headset with another view configuration, a runtime without Vulkan.
AllRuntimes ==
  {Headset,
   [Headset EXCEPT !.profiles = [index |-> Index, hp |-> Reserved, simple |-> Simple]],
   [Headset EXCEPT !.configurations = <<"mono">>, !.modes = [mono |-> <<"alpha">>],
                   !.extensions = baseline, !.profiles = [simple |-> Simple]],
   [Headset EXCEPT !.configurations = <<"quad">>, !.modes = [quad |-> <<"opaque", "additive">>]],
   [Headset EXCEPT !.extensions = {"handTracking"}]}

\* None, one of each kind, both of the menu, some of both, and all.
AllLosses ==
  {{}, {"aim", "grip"}, {"grip"}, {"b"}, {"menu"}, {"system"}, MenuActions,
   {"leftStick", "menu"}, All}

OptionsOf(arEnabled, features, menu) ==
  [arEnabled |-> arEnabled, features |-> features, menu |-> menu,
   candidates |-> <<"index", "hp", "touch", "simple">>]

\* The default features, all of them, none; with and without menu and system.
AllOptions ==
  {OptionsOf(FALSE, {"passthrough", "handTracking"}, FALSE),
   OptionsOf(TRUE, {"passthrough", "handTracking"}, TRUE),
   OptionsOf(TRUE, DOMAIN FeatureExtensions, FALSE),
   OptionsOf(TRUE, {}, TRUE)}
=============================================================================
