------------------------ MODULE MCSubscriptionLibrary ------------------------
(***************************************************************************)
(* SubscriptionLibrary with two threads: two downloads at once, or one and *)
(* everything else.  A subscription has one server, or gained another in   *)
(* front of it, or was rejected record by record.                          *)
(***************************************************************************)
EXTENDS SubscriptionLibrary, TLC

Lists == {<<>>, <<"a">>, <<"b", "a">>}
Alike == Permutations(Jobs) \cup Permutations(Tokens)
=============================================================================
