---------------------------- MODULE MCDeviceStore -----------------------------
\* Instances of DeviceStore for TLC.
EXTENDS DeviceStore, TLC

CONSTANTS d1, d2, u1, u2, o1, o2, g1, g2, w1

\* The requests of the gateway, the devices and their types are alike.
Alike == Permutations({g1, g2}) \cup Permutations(Devices) \cup Permutations(Urns) \cup Permutations(OpNames)
=============================================================================
