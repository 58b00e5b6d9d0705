---------------------------- MODULE MCProxyMemory ----------------------------
(* Small instances of ProxyMemory: two sessions, files of up to two blocks. *)
EXTENDS ProxyMemory, TLC

CONSTANTS s1, s2

TwoSessions == {s1, s2}

\* Nothing distinguishes one session from the other.
AnySession == Permutations(TwoSessions)
=============================================================================
