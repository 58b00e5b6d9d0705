----------------------------- MODULE MCProxyMain -----------------------------
(* Instances of ProxyMain: three clients, a queue of two, two failing calls. *)
EXTENDS ProxyMain

CONSTANTS c1, c2, c3
Three     == {c1, c2, c3}
BothForms == {Current, Older}
=============================================================================
