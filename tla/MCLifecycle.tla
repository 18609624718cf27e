---------------------------- MODULE MCLifecycle ----------------------------
(* A small instance of Lifecycle for TLC: module 1 reads a console (like the *)
(* modules that only handle events, its Start waits for its context), 2 and  *)
(* 3 are hosts, and 3 records what its source brings.                        *)
EXTENDS Lifecycle

ThreeModules  == 3
HostModules   == {2, 3}
RecordingOnes == {3}

=============================================================================
