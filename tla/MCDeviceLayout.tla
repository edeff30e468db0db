--------------------------- MODULE MCDeviceLayout ---------------------------
(* DeviceLayout in units of a quarter page, for TLC.                       *)
EXTENDS DeviceLayout

Config(store, ht, s, s2, caps, n) ==
  [store |-> store, ht |-> ht, seg |-> s, seg2 |-> s2, caps |-> caps, slices |-> n]

(* Small and odd devices, for the regions; and a few for the slices.       *)
SmallConfigs ==
  {Config("MultiVolume", ht, s, s, <<c>> \o more, 0) :
     ht \in {0, 1, 3, 33}, s \in {4, 6, 8, 12}, c \in {3, 7} \cup {15 + 3 * i : i \in 0 .. 16},
     more \in {<<>>, <<10>>, <<57>>, <<10, 33>>}}
  \cup {Config("MultiTier", 2, s, s2, <<c, 40>>, 0) :
     s \in {4, 6, 8}, s2 \in {8, 10, 16}, c \in {20, 24, 28, 36, 47}}
  \cup {Config("MultiVolume", 2, s, s, <<60>>, 3) : s \in {8, 12, 16}}
  \cup {Config("MultiTier", 2, 8, 16, <<40, 32>>, 3)}
=============================================================================
