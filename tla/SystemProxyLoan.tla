--------------------------- MODULE SystemProxyLoan ---------------------------
(***************************************************************************)
(* SystemProxy implements ProxyLoan: which marker RouteDeck used and which  *)
(* file and call it is in the middle of are forgotten, and what is left is  *)
(* the loan of one setting.                                                 *)
(***************************************************************************)
EXTENDS SystemProxy

InForce == IF registry \in OurSettings THEN [kind |-> "ours"] ELSE registry

Noted == IF journal \in WholeJournals THEN journal.previous ELSE journal

Loan == INSTANCE ProxyLoan WITH
    Lendable    <- {s \in UserSettings : s.kind = "direct"},
    SwitchedOff <- [s \in UserSettings |-> {FlatOff(s), Direct(s.id)}],
    RouteDecks  <- [kind |-> "ours"],
    NoNote      <- NoJournal,
    TornNote    <- TornJournal,
    setting     <- InForce,
    note        <- Noted,
    choice      <- userSetting,
    answer      <- outcome

\* RouteDeck takes a setting only while the one it noted is still in force,
\* gives back exactly the one it noted, forgets a note only when its own setting
\* is gone, and answers truthfully: publish_loopback, restore_if_owned and
\* clear_stale, seen from outside and across crashes.
ImplementsLoan == Loan!Spec
=============================================================================
