---------------------------- MODULE ProxyContract ----------------------------
(***************************************************************************)
(* What a caller of SystemProxyManager may rely on: for each operation, the *)
(* results it can return together with the setting and the journal it can  *)
(* leave behind.  A setting that RouteDeck published reads "ours"; the      *)
(* journal is "none", "torn" (unreadable), or the DIRECT setting it keeps  *)
(* for the restore.  An operation cut short by a crash leaves one of the   *)
(* states that some result of it leaves.                                   *)
(***************************************************************************)

Direct == {"a", "b"}    \* two DIRECT settings of the user, e.g. two bypass lists
Registries == Direct \cup {"manual", "ours"}
Journals   == Direct \cup {"none", "torn"}

Result(r, registry, saved) == [result |-> r, registry |-> registry, saved |-> saved]

(* publish_loopback: refuses an existing journal and every setting that is  *)
(* not DIRECT, journals the setting, then replaces it.                      *)
Publish(registry, saved) ==
    IF saved # "none" THEN {Result("recovery", registry, saved)}
    ELSE {Result("unchanged", registry, "none")} \cup
         IF registry \notin Direct THEN {}
         ELSE {Result("published", "ours", registry)} \cup
              {Result("recovery", registry, kept) : kept \in {"none", "torn", registry}} \cup
              {Result("recovery", "ours", registry)}

(* restore_if_owned, also reconcile_stale_journal: puts the journalled      *)
(* setting back only over RouteDeck's own.                                  *)
Restore(registry, saved) ==
    CASE saved = "none" -> {Result("noJournal", registry, "none")}
      [] saved = "torn" -> {Result("recovery", registry, "torn")}
      [] saved \in Direct /\ registry = "ours" ->
            {Result("restored", saved, "none"),
             Result("recovery", saved, saved),
             Result("recovery", "ours", saved)}
      [] saved \in Direct /\ registry # "ours" ->
            {Result(IF registry = saved THEN "restored" ELSE "foreign", registry, "none"),
             Result("recovery", registry, saved)}

(* is_owned *)
IsOwned(registry, saved) ==
    CASE saved = "none" -> {"no"}
      [] saved = "torn" -> {"recovery"}
      [] OTHER          -> {IF registry = "ours" THEN "yes" ELSE "no", "recovery"}

=============================================================================
