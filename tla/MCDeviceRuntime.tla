-------------------------- MODULE MCDeviceRuntime --------------------------
EXTENDS DeviceRuntime, TLC
Symmetry == Permutations(Client) \cup Permutations(Runner)
============================================================================
