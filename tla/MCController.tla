---------------------------- MODULE MCController ----------------------------
(* Small instances of Controller for TLC. *)
EXTENDS Controller

ProxyRequest == [mode |-> "proxy", node |-> "n1"]
TunRequest   == [mode |-> "tun", node |-> "n1"]
BothRequests == {ProxyRequest, TunRequest}
OnlyProxy    == {ProxyRequest}
OnlyTun      == {TunRequest}

=============================================================================
