---------------------------- MODULE MCTunHelper ----------------------------
(***************************************************************************)
(* TunHelper with two sessions: the second helper is launched while the    *)
(* first is still at work, or after RouteDeck was started again.           *)
(***************************************************************************)
EXTENDS TunHelper
=============================================================================
