------------------------- MODULE SubscriptionLibrary -------------------------
(***************************************************************************)
(* The server library of ApplicationController (application.rs) and the    *)
(* file that keeps it (subscription_store.rs): previews, confirm, refresh,  *)
(* remove, reset, and what the next start of RouteDeck reads back.  Each    *)
(* command runs on a thread of its own; downloads run without the state     *)
(* lock, a save of the file with it.  A connection may come and go at any   *)
(* time, RouteDeck may be killed, and the file may not be written or read.  *)
(*                                                                         *)
(* A subscription is what import_subscription makes of it: the sequence of *)
(* the servers in it, each known by its update_key.                        *)
(***************************************************************************)
EXTENDS Naturals, Sequences, FiniteSets, SequencesExt

CONSTANTS
    Jobs,           \* threads that run library commands
    Tokens,         \* preview tokens (16 random bytes)
    Subscriptions,  \* what a source may contain
    MaxPreviews,    \* MAX_PENDING_IMPORT_PREVIEWS
    MaxSources,     \* MAX_LIBRARY_SOURCES
    MaxNodes,       \* MAX_LIBRARY_NODES
    MaxImports,     \* bound: sources ever imported
    MaxRevision     \* bound: refreshes of one source

ASSUME SubscriptionsAssumption == \A c \in Subscriptions : c \in Seq(ToSet(c))

ASSUME LimitsAssumption ==
    {MaxPreviews, MaxSources, MaxNodes, MaxImports, MaxRevision} \subseteq Nat

VARIABLES
    sources, nodes, order,  \* State.sources, .nodes, .node_order
    pending,        \* State.pending
    inflight,       \* State.preview_inflight
    jobs,           \* each thread's command
    saving,         \* who holds `state` with a saved library, and that library
    file,           \* subscription.json
    active,         \* the server of the running session, as it was configured
    targets,        \* servers a TUN session can switch to, likewise
    intent,         \* the server a reconnect would use
    blocked,        \* "recovery": recovery_required; "exit": shutting_down
    up,             \* the process runs
    readable,       \* history: memory was read from, or written to, the file
    imports,        \* source ids drawn so far
    removed         \* history: sources the user has removed

library == <<sources, nodes, order>>
session == <<active, targets, intent, blocked>>
slots   == <<pending, inflight>>
machine == <<up, readable>>
history == <<imports, removed>>
vars == <<library, slots, jobs, saving, file, session, machine, history>>

Legacy == 0     \* LEGACY_SOURCE_ID, the one source of a version 1 file
SourceIds == Legacy..MaxImports
Kinds == {"subscription", "manual"}
Source(id, kind, content, revision, ids) ==
    [id |-> id, kind |-> kind, content |-> content, revision |-> revision, node_ids |-> ids]

NoFile == [kind |-> "none"]
File(s) == [kind |-> "file", sources |-> s]

Nobody  == [job |-> "none"]
NoServer == [id |-> <<>>]
Idle    == [does |-> "nothing"]

-----------------------------------------------------------------------------
(* From sources to servers *)

\* prepare_stored_nodes: the ids kept by the source, or ids made from its own
\* id and the place and key of the server in it.
NodeId(source, i) ==
    IF source.node_ids # <<>> THEN source.node_ids[i]
    ELSE <<source.id, source.content[i], i>>

Prepared(source) ==
    [i \in 1..Len(source.content) |->
        [id |-> NodeId(source, i), key |-> source.content[i],
         source |-> source.id, version |-> source.revision]]

\* What a start makes of a stored library: the servers source by source, as they
\* are listed and as they are kept.
Servers(list) == FlattenSeq([i \in 1..Len(list) |-> Prepared(list[i])])
ServersOf(list) == UNION {ToSet(Prepared(list[i])) : i \in 1..Len(list)}

IdsOf(servers) == [i \in 1..Len(servers) |-> servers[i].id]
ById(servers) == [id \in {n.id : n \in servers} |-> CHOOSE n \in servers : n.id = id]

SourceIdsOf(list) == {list[i].id : i \in 1..Len(list)}
Position(list, id) == CHOOSE i \in 1..Len(list) : list[i].id = id
NodesOf(id) == {n \in DOMAIN nodes : nodes[n].source = id}
NodesWithout(id) == [n \in DOMAIN nodes \ NodesOf(id) |-> nodes[n]]

\* Iterator::filter: what of a list is in a set, in the order of the list.
Filtered(list, set) ==
    LET kept[i \in 0..Len(list)] ==
          IF i = 0 THEN <<>>
          ELSE IF list[i] \in set THEN Append(kept[i - 1], list[i]) ELSE kept[i - 1]
    IN kept[Len(list)]

\* The listed ids that are still there when a source has lost its servers.
OrderWithout(id) == Filtered(order, DOMAIN NodesWithout(id))

\* HashMap::extend
Extended(old, new) ==
    [n \in DOMAIN old \cup DOMAIN new |-> IF n \in DOMAIN new THEN new[n] ELSE old[n]]

-----------------------------------------------------------------------------
Init ==
    /\ sources = <<>> /\ nodes = <<>> /\ order = <<>>
    /\ pending = <<>> /\ inflight = 0
    /\ jobs = [j \in Jobs |-> Idle]
    /\ saving = Nobody
    /\ file \in {NoFile} \cup {File(<<Source(Legacy, "subscription", c, 0, <<>>)>>) :
                                   c \in Subscriptions \ {<<>>}}
    /\ active = NoServer /\ targets = {} /\ intent = NoServer /\ blocked = "no"
    /\ up = FALSE /\ readable = TRUE
    /\ imports = 0 /\ removed = {}

\* `state` is free: nobody is between the save and the memory.
Unlocked == up /\ saving = Nobody

Begin(j, does) == jobs' = [jobs EXCEPT ![j] = does]
End(j) == jobs' = [jobs EXCEPT ![j] = Idle]
Free(j) == jobs[j] = Idle

-----------------------------------------------------------------------------
(* Preview slots *)

\* Slip: previews that wait for the user are not counted.
RoomForRunningOnly == inflight < MaxPreviews

RoomForPreview == inflight + Cardinality(DOMAIN pending) < MaxPreviews

\* PreviewSlot::reserve, before the command gets its thread.
Reserve(j, does) ==
    /\ Unlocked /\ Free(j) /\ RoomForPreview
    /\ inflight' = inflight + 1
    /\ Begin(j, does)
    /\ UNCHANGED <<library, pending, saving, file, session, machine, history>>

PreviewBegin(j) == \E k \in Kinds : Reserve(j, [does |-> "preview", kind |-> k])

\* PreviewSlot::commit.  A rejected content or a failed download drops the
\* slot.  The token is drawn at random.
PreviewEnd(j) ==
    /\ Unlocked /\ jobs[j].does = "preview"
    /\ inflight' = inflight - 1
    /\ \/ UNCHANGED pending
       \/ \E c \in Subscriptions, t \in Tokens \ DOMAIN pending :
            pending' = [p \in DOMAIN pending \cup {t} |->
                          IF p = t THEN [kind |-> jobs[j].kind, content |-> c] ELSE pending[p]]
    /\ End(j)
    /\ UNCHANGED <<library, saving, file, session, machine, history>>

Without(t) == [p \in DOMAIN pending \ {t} |-> pending[p]]

\* discard_import_preview
Discard ==
    /\ Unlocked
    /\ \E t \in DOMAIN pending : pending' = Without(t)
    /\ UNCHANGED <<library, inflight, jobs, saving, file, session, machine, history>>

-----------------------------------------------------------------------------
(* Saving *)

\* Slip: each source is held to the limit, not the library.
FitsOneByOne(list) ==
    /\ Len(list) <= MaxSources
    /\ \A i \in 1..Len(list) : Len(list[i].content) <= MaxNodes

\* validate_sources and the node limit
Fits(list) ==
    /\ Len(list) <= MaxSources
    /\ Len(Servers(list)) <= MaxNodes

\* Slip: a failed save is logged and memory changes all the same.
SaveAnyway(j, new) ==
    /\ file' \in {file, File(new.sources)}
    /\ saving' = [job |-> j, new |-> new]

\* SubscriptionStore::save writes a temporary file and renames it over the old
\* one; on failure the old one stays and the command returns without an effect.
\* `state` is held until memory follows.
Save(j, new) ==
    /\ file' = File(new.sources)
    /\ saving' = [job |-> j, new |-> new]

\* Memory follows the file and the command returns.
Commit(j) ==
    /\ up /\ saving # Nobody /\ saving.job = j
    /\ sources' = saving.new.sources
    /\ nodes' = saving.new.nodes
    /\ order' = saving.new.order
    /\ pending' = saving.new.pending
    \* a refresh gives its slot back when it returns
    /\ inflight' = IF jobs[j].does = "refresh" THEN inflight - 1 ELSE inflight
    /\ removed' = removed \cup (SourceIdsOf(sources) \ SourceIdsOf(sources'))
    /\ saving' = Nobody /\ readable' = TRUE
    /\ End(j)
    /\ UNCHANGED <<file, session, up, imports>>

Library(list, servers, ids, previews) ==
    [sources |-> list, nodes |-> servers, order |-> ids, pending |-> previews]

-----------------------------------------------------------------------------
(* confirm_import_named *)

Confirm(j) ==
    /\ Unlocked /\ Free(j) /\ blocked # "recovery" /\ active = NoServer
    /\ imports < MaxImports
    /\ \E t \in DOMAIN pending :
         LET new  == Source(imports + 1, pending[t].kind, pending[t].content, 0, <<>>)
             list == Append(sources, new)
             made == Prepared(new)
         IN /\ new.content # <<>>
            /\ Fits(list)
            /\ Save(j, Library(list, Extended(nodes, ById(ToSet(made))), order \o IdsOf(made), Without(t)))
    /\ imports' = imports + 1
    /\ Begin(j, [does |-> "confirm"])
    /\ UNCHANGED <<library, slots, session, machine, removed>>

-----------------------------------------------------------------------------
(* refresh_source *)

\* ensure_source_mutation_allowed
MutationAllowed(id) == blocked = "no" /\ (active = NoServer \/ active.id \notin NodesOf(id))

\* The command takes its slot before it looks at the source.
RefreshBegin(j) == Reserve(j, [does |-> "reserved"])

\* The source as it is now is remembered; the download runs without the lock.
RefreshSnapshot(j) ==
    /\ Unlocked /\ jobs[j].does = "reserved"
    /\ \E i \in 1..Len(sources) :
         /\ sources[i].kind = "subscription" /\ sources[i].revision < MaxRevision
         /\ MutationAllowed(sources[i].id)
         /\ Begin(j, [does |-> "refresh", original |-> sources[i]])
    /\ UNCHANGED <<library, slots, saving, file, session, machine, history>>

\* Where in the list the servers of this source with this key are now.
Places(id, key) ==
    {p \in 1..Len(order) : order[p] \in NodesOf(id) /\ nodes[order[p]].key = key}
Nth(places, n) == {p \in places : Cardinality({q \in places : q <= p}) = n}

\* Slip: servers keep their ids by place.
RefreshedIdsByPlace(original, content) ==
    LET old == Filtered(order, NodesOf(original.id))
    IN [i \in 1..Len(content) |->
          IF i <= Len(old) THEN old[i] ELSE <<original.id, "new", original.revision, i>>]

\* A server keeps the id of a server with its key, first come first served;
\* the others get random ones.
RefreshedIds(original, content) ==
    [i \in 1..Len(content) |->
        LET nth  == Cardinality({k \in 1..i : content[k] = content[i]})
            kept == Nth(Places(original.id, content[i]), nth)
        IN IF kept # {} THEN order[CHOOSE p \in kept : TRUE]
                        ELSE <<original.id, "new", original.revision, i>>]

\* Slip: the refreshed group goes to the end of the list.
SplicedAtEnd(id, ids) == OrderWithout(id) \o ids

\* The new ids take the place where the source's first id was.
Spliced(id, ids) ==
    LET others == OrderWithout(id)
        first  == IF NodesOf(id) = {} THEN Len(order) + 1
                  ELSE CHOOSE i \in 1..Len(order) :
                         /\ nodes[order[i]].source = id
                         /\ \A k \in 1..(i - 1) : nodes[order[k]].source # id
    IN SubSeq(others, 1, first - 1) \o ids \o SubSeq(others, first, Len(others))

\* Slip: whatever the source is by now, the download replaces it.
StillThere(original) == original.id \in SourceIdsOf(sources)

\* state.sources[index] == original
Unchanged(original) == \E i \in 1..Len(sources) : sources[i] = original

\* The download is complete and the lock is taken again.
RefreshSave(j) ==
    /\ Unlocked /\ jobs[j].does = "refresh"
    /\ LET original == jobs[j].original IN
       /\ MutationAllowed(original.id)
       /\ Unchanged(original)
       /\ \E content \in Subscriptions \ {<<>>} :
            LET new  == Source(original.id, original.kind, content, original.revision + 1,
                               RefreshedIds(original, content))
                list == [sources EXCEPT ![Position(sources, original.id)] = new]
            IN /\ Fits(list)
               /\ Save(j, Library(list,
                                  Extended(NodesWithout(original.id), ById(ToSet(Prepared(new)))),
                                  Spliced(original.id, IdsOf(Prepared(new))), pending))
    /\ UNCHANGED <<library, slots, jobs, session, machine, history>>

\* No such source, not a subscription, in use or blocked; download failed,
\* incomplete, over the limit, source changed, or not saved.
RefreshFail(j) ==
    /\ Unlocked /\ jobs[j].does \in {"reserved", "refresh"}
    /\ inflight' = inflight - 1
    /\ End(j)
    /\ UNCHANGED <<library, pending, saving, file, session, machine, history>>

-----------------------------------------------------------------------------
(* remove_source, reset_local_state *)

\* The filter by id takes out one source: ids are unique (validate_sources).
RemoveSource(j) ==
    /\ Unlocked /\ Free(j)
    /\ \E id \in SourceIdsOf(sources) :
         /\ MutationAllowed(id)
         /\ Save(j, Library(RemoveAt(sources, Position(sources, id)), NodesWithout(id),
                            OrderWithout(id), pending))
    /\ Begin(j, [does |-> "remove"])
    /\ UNCHANGED <<library, slots, session, machine, history>>

\* SubscriptionStore::clear removes the file.
ResetLocalState(j) ==
    /\ Unlocked /\ Free(j) /\ active = NoServer
    /\ file' = NoFile
    /\ saving' = [job |-> j, new |-> Library(<<>>, <<>>, <<>>, <<>>)]
    /\ Begin(j, [does |-> "reset"])
    /\ UNCHANGED <<library, slots, session, machine, history>>

-----------------------------------------------------------------------------
(* Connections, as far as they concern the library *)

Server(n) == [id |-> n, version |-> nodes[n].version, key |-> nodes[n].key]

\* start_*_locked reads the server and stores the session under one lock; a
\* TUN session takes the whole library along (prepare_switchable_tun), and its
\* intent names no server.
Run(n, all) ==
    /\ active = NoServer /\ blocked = "no"
    /\ active' = Server(n)
    /\ targets' = IF all THEN {Server(m) : m \in DOMAIN nodes} ELSE {}
    /\ intent' = IF all THEN NoServer ELSE Server(n)

Connect ==
    /\ Unlocked
    /\ \E n \in DOMAIN nodes, tun \in BOOLEAN : Run(n, tun)
    /\ UNCHANGED <<library, slots, jobs, saving, file, blocked, machine, history>>

\* reconnect_tick asks for the server by its id; when it is gone the attempt
\* fails and the intent stays.
Reconnect ==
    /\ Unlocked /\ intent # NoServer /\ intent.id \in DOMAIN nodes
    /\ Run(intent.id, FALSE)
    /\ UNCHANGED <<library, slots, jobs, saving, file, blocked, machine, history>>

\* Slip: a server is recognised by its id alone.
PreparedTarget(n) == \E s \in targets : s.id = n

\* target.node_id == node_id && target.config_identity == stored.config_identity
SwitchTarget(n) == Server(n) \in targets

\* switch_tun_server: the engine runs the target as it was at connect time.
Switch ==
    /\ Unlocked /\ active # NoServer /\ blocked = "no"
    /\ \E n \in DOMAIN nodes :
         /\ SwitchTarget(n)
         /\ active' = CHOOSE s \in targets : s.id = n
    /\ UNCHANGED <<library, slots, jobs, saving, file, targets, intent, blocked, machine, history>>

\* The user disconnects, or the engine dies and the wish stays.
Disconnect ==
    /\ Unlocked /\ active # NoServer
    /\ active' = NoServer /\ targets' = {}
    /\ intent' \in {NoServer, intent}
    /\ UNCHANGED <<library, slots, jobs, saving, file, blocked, machine, history>>

\* A failed teardown or an exit blocks changes, a successful retry allows them.
Block ==
    /\ Unlocked
    /\ blocked' \in {"no", "recovery", "exit"} \ {blocked}
    /\ UNCHANGED <<library, slots, jobs, saving, file, active, targets, intent, machine, history>>

-----------------------------------------------------------------------------
\* Killed at any step: the file is the old one or the new one.
Crash ==
    /\ up
    /\ up' = FALSE /\ readable' = TRUE
    /\ sources' = <<>> /\ nodes' = <<>> /\ order' = <<>>
    /\ pending' = <<>> /\ inflight' = 0
    /\ jobs' = [j \in Jobs |-> Idle] /\ saving' = Nobody
    /\ active' = NoServer /\ targets' = {} /\ intent' = NoServer /\ blocked' = "no"
    /\ UNCHANGED <<file, history>>

\* SubscriptionStore::load
Stored == IF file = NoFile THEN <<>> ELSE file.sources

\* restore_persisted_subscription: a file that cannot be read, or has too many
\* servers, is left alone and the library starts empty.
Start ==
    /\ ~up
    /\ up' = TRUE
    /\ \/ /\ Fits(Stored)
          /\ readable' = TRUE
          /\ sources' = Stored
       \/ /\ file # NoFile
          /\ readable' = FALSE
          /\ sources' = <<>>
    /\ nodes' = ById(ServersOf(sources'))
    /\ order' = IdsOf(Servers(sources'))
    /\ UNCHANGED <<slots, jobs, saving, file, session, history>>

Next ==
    \/ \E j \in Jobs : \/ PreviewBegin(j) \/ PreviewEnd(j)
                       \/ RefreshBegin(j) \/ RefreshSnapshot(j) \/ RefreshSave(j) \/ RefreshFail(j)
                       \/ Confirm(j) \/ RemoveSource(j) \/ ResetLocalState(j) \/ Commit(j)
    \/ Discard
    \/ Connect \/ Reconnect \/ Switch \/ Disconnect \/ Block
    \/ Crash \/ Start

Spec == Init /\ [][Next]_vars

-----------------------------------------------------------------------------
(* Properties *)

TypeOK ==
    /\ \A i \in 1..Len(sources) :
         /\ sources[i].id \in SourceIds /\ sources[i].kind \in Kinds
         /\ sources[i].content \in Subscriptions /\ sources[i].revision \in 0..MaxRevision
    /\ Len(sources) <= MaxSources
    /\ DOMAIN nodes = ToSet(order) /\ IsInjective(order) /\ Len(order) <= MaxNodes
    /\ DOMAIN pending \subseteq Tokens
    /\ inflight \in 0..MaxPreviews
    /\ saving # Nobody => saving.job \in Jobs /\ jobs[saving.job] # Idle
    /\ blocked \in {"no", "recovery", "exit"} /\ up \in BOOLEAN /\ readable \in BOOLEAN
    /\ imports \in 0..MaxImports

\* Every slot is held by a running download or a preview that waits for the
\* user, and never more than there are: a slot that an error path keeps, or one
\* given back twice, would sooner or later refuse or flood everything
\* (PreviewSlot and its drop, confirm, discard, reset).
SlotsAccounted ==
    /\ inflight = Cardinality({j \in Jobs : jobs[j].does \in {"preview", "reserved", "refresh"}})
    /\ inflight + Cardinality(DOMAIN pending) <= MaxPreviews

\* The list the user sees is the list the next start will show: same servers,
\* same ids, same order, whatever was refreshed, removed or interrupted
\* (the save before the memory, node_ids, the splice of node_order).
RestartShowsTheSame ==
    Unlocked /\ readable =>
        /\ sources = Stored
        /\ order = IdsOf(Servers(sources))
        /\ nodes = ById(ServersOf(sources))

\* The session runs a server as the library has it: no source is changed or
\* removed under a session, and no switch reaches a server whose source was
\* refreshed since the session took its copy (ensure_source_mutation_allowed on
\* both sides of a download, config_identity in switch_tun_server).
SessionRunsStoredServer ==
    active # NoServer => active.id \in DOMAIN nodes /\ active = Server(active.id)

\* An id names one server for ever, so a reconnect never uses a server the user
\* did not choose (prepare_stored_nodes, the reuse of ids in refresh_source).
IdKeepsItsServer ==
    intent # NoServer /\ intent.id \in DOMAIN nodes => nodes[intent.id].key = intent.key

\* What the user removed does not come back by a download that was under way or
\* by a restart (remove_source, reset_local_state).
RemovedStaysRemoved == removed \cap SourceIdsOf(sources) = {}

\* A refresh replaces the content it was based on, never that of a refresh which
\* finished meanwhile (state.sources[index] != original).
RefreshBuildsOnLatest ==
    [][\A i \in 1..Len(sources), k \in 1..Len(sources') :
         LET old == sources[i] new == sources'[k] IN
         old.id = new.id /\ old.content # new.content => new.revision = old.revision + 1]_vars

=============================================================================
