--------------------------- MODULE MCRegisterAuth ---------------------------
(* RegisterAuth on small instances; devices are interchangeable.            *)
EXTENDS RegisterAuth, TLC

DeviceSymmetry == Permutations(Devices)

=============================================================================
