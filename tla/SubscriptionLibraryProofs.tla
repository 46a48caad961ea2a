---------------------- MODULE SubscriptionLibraryProofs ----------------------
(***************************************************************************)
(* Proofs about SubscriptionLibrary, for any number of threads, previews,   *)
(* sources and refreshes.                                                   *)
(*                                                                         *)
(* SlotsAccounted, SessionRunsStoredServer, IdKeepsItsServer,               *)
(* RemovedStaysRemoved and RefreshBuildsOnLatest follow from one inductive  *)
(* invariant, `Inv`.  A command saves a library and takes it into memory    *)
(* later, so what must hold of the memory must hold of the saved library    *)
(* before it (`Held`).                                                      *)
(*                                                                         *)
(* RestartShowsTheSame and TypeOK are about the order of the servers, which *)
(* FlattenSeq and `Filtered` make of lists one element after the other.      *)
(* What these two do with two lists in a row is proved first, from the       *)
(* least counterexample (`Induction`, `ListInduction`); then `Shown` and     *)
(* `Typed` are invariant beside `Inv`.                                       *)
(***************************************************************************)
EXTENDS SubscriptionLibrary, FiniteSetTheorems, NaturalsInduction, SequenceTheorems, TLAPS

-----------------------------------------------------------------------------
(* The inductive invariant *)

Keys == UNION {ToSet(c) : c \in Subscriptions}

\* An id that a server of source `id` may have got before revision `rev`.
Own(n, id, rev) ==
    \/ \E key \in Keys, i \in Nat : n = <<id, key, i>>
    \/ \E r, i \in Nat : r < rev /\ n = <<id, "new", r, i>>

SourceOK(s) ==
    /\ s.id \in 0..imports /\ s.id \notin removed
    /\ s.revision \in Nat /\ s.content \in Subscriptions
    /\ \A i \in 1..Len(s.content) : Own(NodeId(s, i), s.id, s.revision)

\* A list of sources, each under an id of its own.
ListOK(list) ==
    /\ list \in Seq(ToSet(list))
    /\ \A i \in 1..Len(list) : SourceOK(list[i])
    /\ \A i, k \in 1..Len(list) : list[i].id = list[k].id => i = k

\* Every server belongs to a source in the list, and its id says to which.
NodesOK(servers, list) ==
    \A n \in DOMAIN servers : \E i \in 1..Len(list) :
        servers[n].source = list[i].id /\ Own(n, list[i].id, list[i].revision)

\* An id that no later refresh or import will draw.
Drawn(n, list) ==
    /\ n[1] \in 0..imports
    /\ \A i \in 1..Len(list) : \A r, k \in Nat :
         n = <<list[i].id, "new", r, k>> => r < list[i].revision

\* The servers have what the session and the intent need.
Serves(servers, list) ==
    /\ active # NoServer => active.id \in DOMAIN servers /\ servers[active.id] = nodes[active.id]
    /\ intent # NoServer =>
          /\ Drawn(intent.id, list)
          /\ intent.id \in DOMAIN servers => servers[intent.id].key = intent.key

\* A content changes with the revision, and by one.
Follows(list) ==
    \A i \in 1..Len(sources), k \in 1..Len(list) :
        sources[i].id = list[k].id /\ sources[i].content # list[k].content
            => list[k].revision = sources[i].revision + 1

PendingOK(previews) ==
    /\ IsFiniteSet(DOMAIN previews)
    /\ \A t \in DOMAIN previews : previews[t].content \in Subscriptions

Downloading == {j \in Jobs : jobs[j].does \in {"preview", "reserved", "refresh"}}
Saves == {"confirm", "refresh", "remove", "reset"}

Slots ==
    /\ jobs = [j \in Jobs |-> jobs[j]]
    /\ IsFiniteSet(Downloading) /\ inflight = Cardinality(Downloading)
    /\ PendingOK(pending)
    /\ inflight + Cardinality(DOMAIN pending) <= MaxPreviews

Lists ==
    /\ imports \in Nat /\ removed \subseteq 0..imports
    /\ ListOK(sources) /\ ListOK(Stored)
    /\ NodesOK(nodes, sources)

Session ==
    /\ active # NoServer => active = Server(active.id)
    /\ Serves(nodes, sources)
    /\ \A s, t \in targets : s.id = t.id => s = t

Held ==
    saving # Nobody =>
        /\ saving.job \in Jobs /\ jobs[saving.job].does \in Saves
        /\ saving.new.sources = Stored
        /\ PendingOK(saving.new.pending) /\ DOMAIN saving.new.pending \subseteq DOMAIN pending
        /\ NodesOK(saving.new.nodes, Stored)
        /\ Serves(saving.new.nodes, Stored)
        /\ Follows(Stored)

Off ==
    ~up => saving = Nobody /\ sources = <<>> /\ active = NoServer /\ intent = NoServer

Inv == Slots /\ Lists /\ Session /\ Held /\ Off

-----------------------------------------------------------------------------
(* Facts used throughout *)

\* A subscription is a list of keys.
LEMMA Contents ==
  ASSUME NEW c \in Subscriptions
  PROVE  /\ c \in Seq(Keys) /\ \A i \in 1..Len(c) : c[i] \in Keys
         /\ c # <<>> => 1 \in 1..Len(c)
<1>1. c \in Seq(ToSet(c))
  BY SubscriptionsAssumption
<1>2. ToSet(c) \subseteq Keys
  BY DEF Keys
<1> QED
  BY <1>1, <1>2

\* An id says to which source it belongs, and stays its own.
LEMMA Owner ==
  ASSUME NEW n, NEW id, NEW rev \in Nat, Own(n, id, rev)
  PROVE  /\ \A other, r : Own(n, other, r) => other = id
         /\ \A r \in Nat : rev <= r => Own(n, id, r)
<1>1. \A key, i, other, k, j : <<id, key, i>> # <<other, "new", k, j>>
  OBVIOUS
<1>2. n[1] = id
  BY DEF Own
<1>3. \A other, r : Own(n, other, r) => n[1] = other
  BY DEF Own
<1>4. \A r \in Nat : rev <= r => Own(n, id, r)
  BY DEF Own
<1> QED
  BY <1>2, <1>3, <1>4

\* The servers that are made of a source.
LEMMA Made ==
  ASSUME NEW s, s.content \in Subscriptions,
         NEW n \in DOMAIN ById(ToSet(Prepared(s)))
  PROVE  \E i \in 1..Len(s.content) :
            /\ n = NodeId(s, i)
            /\ ById(ToSet(Prepared(s)))[n] =
                 [id |-> n, key |-> s.content[i], source |-> s.id, version |-> s.revision]
<1>1. ToSet(Prepared(s)) = {Prepared(s)[i] : i \in 1..Len(s.content)}
  BY DEF ToSet, Prepared
<1>2. PICK m \in ToSet(Prepared(s)) : m.id = n
  BY DEF ById
<1>3. /\ ById(ToSet(Prepared(s)))[n] \in ToSet(Prepared(s))
      /\ ById(ToSet(Prepared(s)))[n].id = n
  BY <1>2 DEF ById
<1>4. PICK i \in 1..Len(s.content) : ById(ToSet(Prepared(s)))[n] = Prepared(s)[i]
  BY <1>1, <1>3
<1>5. Prepared(s)[i] = [id |-> NodeId(s, i), key |-> s.content[i],
                        source |-> s.id, version |-> s.revision]
  BY DEF Prepared
<1> QED
  BY <1>3, <1>4, <1>5

\* A list is a sequence of what is in it.
LEMMA IsList ==
  ASSUME NEW S, NEW list \in Seq(S)
  PROVE  list \in Seq(ToSet(list))
  BY DEF ToSet

\* Where a server of the refreshed source gets its id from.
LEMMA Refreshed ==
  ASSUME NEW original, NEW content, NEW i \in 1..Len(content),
         NEW n, n = RefreshedIds(original, content)[i]
  PROVE  \/ n \in NodesOf(original.id) /\ nodes[n].key = content[i]
         \/ n = <<original.id, "new", original.revision, i>>
<1> DEFINE nth  == Cardinality({k \in 1..i : content[k] = content[i]})
           kept == Nth(Places(original.id, content[i]), nth)
<1>1. RefreshedIds(original, content)[i]
        = IF kept # {} THEN order[CHOOSE p \in kept : TRUE]
                       ELSE <<original.id, "new", original.revision, i>>
  BY DEF RefreshedIds
<1>2. kept # {} => (CHOOSE p \in kept : TRUE) \in Places(original.id, content[i])
  BY DEF Nth
<1> QED
  BY <1>1, <1>2 DEF Places

\* The library that is there at the first start is one that can be stored.
LEMMA InitInv == Init => Inv
<1> SUFFICES ASSUME Init PROVE Inv
  OBVIOUS
<1>1. Slots
  <2>1. Downloading = {}
    BY DEF Init, Downloading, Idle
  <2>2. DOMAIN pending = {}
    BY DEF Init
  <2> QED
    BY <2>1, <2>2, FS_EmptySet, LimitsAssumption DEF Init, Slots, PendingOK
<1>2. ListOK(sources) /\ NodesOK(nodes, sources)
  BY DEF Init, ListOK, NodesOK
<1>3. ListOK(Stored)
  <2>1. CASE file = NoFile
    BY <1>2, <2>1 DEF Stored, Init
  <2>2. CASE file # NoFile
    <3>1. PICK c \in Subscriptions \ {<<>>} :
             file = File(<<Source(Legacy, "subscription", c, 0, <<>>)>>)
      BY <2>2 DEF Init
    <3> DEFINE s == Source(Legacy, "subscription", c, 0, <<>>)
    <3>2. Stored = <<s>>
      BY <2>2, <3>1 DEF Stored, File
    <3>3. \A i \in 1..Len(c) : Own(NodeId(s, i), 0, 0)
      BY Contents DEF NodeId, Source, Legacy, Own
    <3>4. SourceOK(s)
      BY <3>3 DEF SourceOK, Source, Legacy, Init
    <3> HIDE DEF s
    <3>5. <<s>> \in Seq(ToSet(<<s>>)) /\ Len(<<s>>) = 1 /\ <<s>>[1] = s
      BY DEF ToSet
    <3> QED
      BY <3>2, <3>4, <3>5 DEF ListOK
  <2> QED
    BY <2>1, <2>2
<1>4. Session /\ Held /\ Off
  BY DEF Init, Session, Serves, Held, Off
<1> QED
  BY <1>1, <1>2, <1>3, <1>4 DEF Inv, Lists, Init

USE DEF library, slots, session, machine, history

-----------------------------------------------------------------------------
(* Steps that only touch the slots *)

\* A thread begins a command, and a thread ends one.
LEMMA Begun ==
  ASSUME Slots, NEW j \in Jobs, jobs[j].does \notin {"preview", "reserved", "refresh"}, NEW does, Begin(j, does)
  PROVE  /\ jobs' = [k \in Jobs |-> jobs'[k]]
         /\ IF does.does \in {"preview", "reserved", "refresh"}
            THEN /\ Downloading' = Downloading \cup {j} /\ IsFiniteSet(Downloading')
                 /\ Cardinality(Downloading') = inflight + 1
            ELSE Downloading' = Downloading
<1>1. jobs' = [k \in Jobs |-> IF k = j THEN does ELSE jobs[k]]
  BY DEF Begin, Slots
<1>2. CASE does.does \in {"preview", "reserved", "refresh"}
  <2>1. Downloading' = Downloading \cup {j} /\ j \notin Downloading
    BY <1>1, <1>2 DEF Downloading
  <2> QED
    BY <1>1, <1>2, <2>1, FS_AddElement DEF Slots
<1>3. CASE does.does \notin {"preview", "reserved", "refresh"}
  BY <1>1, <1>3 DEF Downloading
<1> QED
  BY <1>1, <1>2, <1>3

\* A thread that ends its command uses no slot any more.
LEMMA Ended ==
  ASSUME Slots, NEW j \in Jobs, End(j)
  PROVE  /\ jobs' = [k \in Jobs |-> jobs'[k]]
         /\ IF jobs[j].does \in {"preview", "reserved", "refresh"}
            THEN /\ IsFiniteSet(Downloading')
                 /\ Cardinality(Downloading') = inflight - 1
            ELSE Downloading' = Downloading
<1>1. jobs' = [k \in Jobs |-> IF k = j THEN Idle ELSE jobs[k]]
  BY DEF End, Slots
<1>2. CASE jobs[j].does \in {"preview", "reserved", "refresh"}
  <2>1. Downloading' = Downloading \ {j} /\ j \in Downloading
    BY <1>1, <1>2 DEF Downloading, Idle
  <2> QED
    BY <1>1, <1>2, <2>1, FS_RemoveElement DEF Slots
<1>3. CASE jobs[j].does \notin {"preview", "reserved", "refresh"}
  BY <1>1, <1>3 DEF Downloading, Idle
<1> QED
  BY <1>1, <1>2, <1>3

\* What the slots and the previews are about is not about the library.
LEMMA SlotsOnly ==
  ASSUME Inv, Unlocked, Slots', UNCHANGED <<library, saving, file, session, machine, history>>
  PROVE  Inv'
<1>1. Lists'
  BY DEF Inv, Lists, ListOK, SourceOK, NodesOK, Stored
<1>2. Session' /\ Held' /\ Off'
  BY DEF Inv, Unlocked, Session, Serves, Drawn, Server, Held, Off
<1> QED
  BY <1>1, <1>2 DEF Inv

\* A preview takes a slot, and no other command knows of it.
LEMMA ReserveInv ==
  ASSUME Inv, NEW j \in Jobs, NEW does, does.does \in {"preview", "reserved", "refresh"}, Reserve(j, does)
  PROVE  Inv'
<1>1. /\ jobs' = [k \in Jobs |-> jobs'[k]]
      /\ IsFiniteSet(Downloading') /\ Cardinality(Downloading') = inflight + 1
  BY Begun DEF Inv, Reserve, Free, Idle
<1>2. inflight \in Nat /\ Cardinality(DOMAIN pending) \in Nat
  BY FS_CardinalityType DEF Inv, Slots, PendingOK
<1>3. Slots'
  BY <1>1, <1>2, LimitsAssumption DEF Inv, Slots, Reserve, RoomForPreview
<1> QED
  BY <1>3, SlotsOnly DEF Reserve

\* A download ends with a preview in its slot, or gives the slot back.
LEMMA PreviewEndInv ==
  ASSUME Inv, NEW j \in Jobs, PreviewEnd(j)
  PROVE  Inv'
<1>1. /\ jobs' = [k \in Jobs |-> jobs'[k]]
      /\ IsFiniteSet(Downloading') /\ Cardinality(Downloading') = inflight - 1
  BY Ended DEF Inv, PreviewEnd
<1>2. inflight \in Nat /\ Cardinality(DOMAIN pending) \in Nat
  BY FS_CardinalityType DEF Inv, Slots, PendingOK
<1>3. PendingOK(pending') /\ Cardinality(DOMAIN pending') <= Cardinality(DOMAIN pending) + 1
  <2>1. CASE UNCHANGED pending
    BY <1>2, <2>1 DEF Inv, Slots
  <2>2. ASSUME NEW c \in Subscriptions, NEW t \in Tokens \ DOMAIN pending,
               pending' = [p \in DOMAIN pending \cup {t} |->
                             IF p = t THEN [kind |-> jobs[j].kind, content |-> c] ELSE pending[p]]
        PROVE  PendingOK(pending') /\ Cardinality(DOMAIN pending') <= Cardinality(DOMAIN pending) + 1
    <3>1. DOMAIN pending' = DOMAIN pending \cup {t}
      BY <2>2
    <3>2. \A p \in DOMAIN pending' : pending'[p].content \in Subscriptions
      BY <2>2 DEF Inv, Slots, PendingOK
    <3>3. /\ IsFiniteSet(DOMAIN pending')
          /\ Cardinality(DOMAIN pending') <= Cardinality(DOMAIN pending) + 1
      <4>1. IsFiniteSet(DOMAIN pending) /\ t \notin DOMAIN pending
        BY DEF Inv, Slots, PendingOK
      <4>2. /\ IsFiniteSet(DOMAIN pending \cup {t})
            /\ Cardinality(DOMAIN pending \cup {t}) = Cardinality(DOMAIN pending) + 1
        BY <4>1, FS_AddElement
      <4> QED
        BY <1>2, <3>1, <4>2
    <3> QED
      BY <3>2, <3>3 DEF PendingOK
  <2> QED
    BY <2>1, <2>2 DEF PreviewEnd
<1>4. Cardinality(DOMAIN pending') \in Nat
  BY <1>3, FS_CardinalityType DEF PendingOK
<1>5. Slots'
  BY <1>1, <1>2, <1>3, <1>4, LimitsAssumption DEF Inv, Slots, PreviewEnd
<1> QED
  BY <1>5, SlotsOnly DEF PreviewEnd

\* A discarded preview gives its slot back.
LEMMA DiscardInv ==
  ASSUME Inv, Discard
  PROVE  Inv'
<1>1. PICK t \in DOMAIN pending : pending' = Without(t)
  BY DEF Discard
<1>2. DOMAIN pending' = DOMAIN pending \ {t}
  BY <1>1 DEF Without
<1>3. /\ PendingOK(pending')
      /\ inflight \in Nat /\ Cardinality(DOMAIN pending) \in Nat
      /\ Cardinality(DOMAIN pending') = Cardinality(DOMAIN pending) - 1
  BY <1>1, <1>2, FS_RemoveElement, FS_CardinalityType DEF Inv, Slots, PendingOK, Without
<1>4. Slots'
  BY <1>3, LimitsAssumption DEF Inv, Slots, Discard, Downloading
<1> QED
  BY <1>4, SlotsOnly DEF Discard

\* A refresh that looks at its source keeps its slot.
LEMMA RefreshSnapshotInv ==
  ASSUME Inv, NEW j \in Jobs, RefreshSnapshot(j)
  PROVE  Inv'
<1>1. PICK i \in 1..Len(sources) : Begin(j, [does |-> "refresh", original |-> sources[i]])
  BY DEF RefreshSnapshot
<1>2. jobs' = [k \in Jobs |-> IF k = j THEN [does |-> "refresh", original |-> sources[i]] ELSE jobs[k]]
  BY <1>1 DEF Inv, Slots, Begin
<1>3. Downloading' = Downloading
  BY <1>2 DEF RefreshSnapshot, Downloading
<1>4. Slots'
  BY <1>2, <1>3 DEF Inv, Slots, RefreshSnapshot, slots
<1> QED
  BY <1>4, SlotsOnly DEF RefreshSnapshot, slots

\* A refresh that fails leaves the library as it is.
LEMMA RefreshFailInv ==
  ASSUME Inv, NEW j \in Jobs, RefreshFail(j)
  PROVE  Inv'
<1>1. /\ jobs' = [k \in Jobs |-> jobs'[k]]
      /\ IsFiniteSet(Downloading') /\ Cardinality(Downloading') = inflight - 1
  BY Ended DEF Inv, RefreshFail
<1>2. inflight \in Nat /\ Cardinality(DOMAIN pending) \in Nat
  BY FS_CardinalityType DEF Inv, Slots, PendingOK
<1>3. Slots'
  BY <1>1, <1>2, LimitsAssumption DEF Inv, Slots, RefreshFail
<1> QED
  BY <1>3, SlotsOnly DEF RefreshFail

-----------------------------------------------------------------------------
(* Connections *)

\* The id of a server in the library will not be drawn again.
LEMMA IsDrawn ==
  ASSUME Lists, NEW n \in DOMAIN nodes
  PROVE  Drawn(n, sources)
<1>1. PICK i \in 1..Len(sources) :
         nodes[n].source = sources[i].id /\ Own(n, sources[i].id, sources[i].revision)
  BY DEF Lists, NodesOK
<1>2. SourceOK(sources[i])
  BY DEF Lists, ListOK
<1>3. n[1] = sources[i].id /\ sources[i].id \in 0..imports
  BY <1>1, <1>2 DEF Own, SourceOK
<1>4. ASSUME NEW k \in 1..Len(sources), NEW r \in Nat, NEW q \in Nat,
             n = <<sources[k].id, "new", r, q>>
      PROVE  r < sources[k].revision
  <2>1. k = i
    BY <1>3, <1>4 DEF Lists, ListOK
  <2>2. \A key, p : n # <<sources[i].id, key, p>>
    BY <1>4
  <2>3. PICK r2, q2 \in Nat : r2 < sources[i].revision /\ n = <<sources[i].id, "new", r2, q2>>
    BY <1>1, <2>2 DEF Own
  <2> QED
    BY <1>4, <2>1, <2>3
<1> QED
  BY <1>3, <1>4 DEF Drawn

\* When nothing but the session changes, it is enough that the new one is stored.
LEMMA SessionOnly ==
  ASSUME Inv, Unlocked, Session', UNCHANGED <<library, slots, jobs, saving, file, machine, history>>
  PROVE  Inv'
<1>1. Lists'
  BY DEF Inv, Lists, ListOK, SourceOK, NodesOK, Stored
<1>2. Slots' /\ Held' /\ Off'
  BY DEF Inv, Unlocked, Slots, Downloading, Held, Off
<1> QED
  BY <1>1, <1>2 DEF Inv

\* A session that begins runs a server as it is in the library.
LEMMA RunSession ==
  ASSUME Inv, NEW n \in DOMAIN nodes, NEW all \in BOOLEAN, Run(n, all), UNCHANGED <<library, history>>
  PROVE  Session'
<1>1. Drawn(n, sources)'
  BY IsDrawn DEF Inv, Drawn
<1>2. active' = Server(n) /\ intent' \in {NoServer, Server(n)}
  BY DEF Run
<1>3. Server(n) = [id |-> n, version |-> nodes[n].version, key |-> nodes[n].key]
  BY DEF Server
<1>4. Serves(nodes, sources)'
  BY <1>1, <1>2, <1>3 DEF Serves
<1>5. \A s, t \in targets' : s.id = t.id => s = t
  BY DEF Run, Server
<1> QED
  BY <1>2, <1>3, <1>4, <1>5 DEF Session, Server

\* The session begins, is switched and ends.
LEMMA SessionInv ==
  ASSUME Inv, Connect \/ Reconnect \/ Switch \/ Disconnect \/ Block
  PROVE  Inv'
<1>1. CASE Connect
  BY <1>1, RunSession, SessionOnly DEF Connect
<1>2. CASE Reconnect
  BY <1>2, RunSession, SessionOnly DEF Reconnect
<1>3. CASE Switch
  <2>1. PICK n \in DOMAIN nodes : SwitchTarget(n) /\ active' = CHOOSE s \in targets : s.id = n
    BY <1>3 DEF Switch
  <2>2. active' = Server(n) /\ Server(n).id = n
    BY <2>1 DEF SwitchTarget, Server, Inv, Session
  <2>3. Session'
    BY <1>3, <2>2 DEF Switch, Inv, Session, Serves, Drawn, Server
  <2> QED
    BY <1>3, <2>3, SessionOnly DEF Switch
<1>4. CASE Disconnect
  <2>1. Session'
    BY <1>4 DEF Disconnect, Inv, Session, Serves, Drawn, Server
  <2> QED
    BY <1>4, <2>1, SessionOnly DEF Disconnect
<1>5. CASE Block
  <2>1. Session'
    BY <1>5 DEF Block, Inv, Session, Serves, Drawn, Server
  <2> QED
    BY <1>5, <2>1, SessionOnly DEF Block
<1> QED
  BY <1>1, <1>2, <1>3, <1>4, <1>5

-----------------------------------------------------------------------------
(* Saves *)

\* A library that may be saved is one that may be taken into memory later.
LEMMA Saved ==
  ASSUME Inv, Unlocked, NEW j \in Jobs, NEW new,
         saving' = [job |-> j, new |-> new], jobs'[j].does \in Saves,
         new.sources = Stored', imports' \in Nat, imports <= imports',
         ListOK(Stored)', NodesOK(new.nodes, Stored'), Serves(new.nodes, Stored)', Follows(Stored'),
         PendingOK(new.pending), DOMAIN new.pending \subseteq DOMAIN pending,
         jobs' = [k \in Jobs |-> jobs'[k]], Downloading' = Downloading,
         UNCHANGED <<library, slots, session, machine, removed>>
  PROVE  Inv'
<1>1. Slots'
  BY DEF Inv, Slots
<1>2. ListOK(sources)'
  BY DEF Inv, Lists, ListOK, SourceOK
<1>3. Lists'
  BY <1>2 DEF Inv, Lists, NodesOK
<1>4. Session'
  BY DEF Inv, Lists, Session, Serves, Drawn, Server
<1>5. Held'
  BY DEF Held, Serves, Drawn, NodesOK, Follows, Inv, Slots
<1>6. Off'
  BY DEF Unlocked, Off
<1> QED
  BY <1>1, <1>3, <1>4, <1>5, <1>6 DEF Inv

\* A preview becomes a source with a new id; its servers have ids drawn for it.
LEMMA ConfirmInv ==
  ASSUME Inv, NEW j \in Jobs, Confirm(j)
  PROVE  Inv'
<1>0. Slots /\ Lists /\ Session /\ imports \in Nat
  BY DEF Inv, Lists
<1>1. PICK t, new, list, made, servers, ids, previews :
        /\ t \in DOMAIN pending
        /\ new = Source(imports + 1, pending[t].kind, pending[t].content, 0, <<>>)
        /\ list = Append(sources, new)
        /\ made = ById(ToSet(Prepared(new))) /\ servers = Extended(nodes, made)
        /\ previews = Without(t)
        /\ Save(j, Library(list, servers, ids, previews))
  BY DEF Confirm
<1>2. /\ file' = File(list)
      /\ saving' = [job |-> j, new |-> Library(list, servers, ids, previews)]
      /\ imports' = imports + 1 /\ active = NoServer
      /\ Unlocked /\ Free(j) /\ Begin(j, [does |-> "confirm"])
      /\ UNCHANGED <<library, slots, session, machine, removed>>
  <2>1. /\ file' = File(list)
        /\ saving' = [job |-> j, new |-> Library(list, servers, ids, previews)]
    BY <1>1 DEF Save, Library
  <2> QED
    BY <2>1 DEF Confirm
<1>3. /\ jobs' = [k \in Jobs |-> jobs'[k]] /\ Downloading' = Downloading
      /\ jobs'[j].does \in Saves
  BY <1>0, <1>2, Begun DEF Free, Idle, Begin, Slots, Saves
<1>4. Stored' = list
  BY <1>2 DEF Stored, File, NoFile
<1>5. PendingOK(previews) /\ DOMAIN previews \subseteq DOMAIN pending
  BY <1>0, <1>1, FS_RemoveElement DEF Without, PendingOK, Slots
<1>6. /\ new.id = imports + 1 /\ new.revision = 0 /\ new.content \in Subscriptions
      /\ \A i \in 1..Len(new.content) : NodeId(new, i) = <<imports + 1, new.content[i], i>>
  BY <1>0, <1>1 DEF Source, NodeId, Slots, PendingOK
<1>7. /\ list \in Seq(ToSet(list)) /\ Len(list) = Len(sources) + 1 /\ Len(sources) \in Nat
      /\ list[Len(sources) + 1] = new /\ \A i \in 1..Len(sources) : list[i] = sources[i]
  <2>1. sources \in Seq(ToSet(sources) \cup {new})
    BY <1>0 DEF Lists, ListOK
  <2>2. /\ list \in Seq(ToSet(sources) \cup {new})
        /\ Len(list) = Len(sources) + 1 /\ Len(sources) \in Nat
        /\ list[Len(sources) + 1] = new /\ \A i \in 1..Len(sources) : list[i] = sources[i]
    BY <1>1, <2>1
  <2> QED
    BY <2>2, IsList
<1>8. ListOK(list)'
  <2>1. SourceOK(new)'
    <3>1. \A i \in 1..Len(new.content) : Own(NodeId(new, i), new.id, new.revision)
      BY <1>6, Contents DEF Own
    <3> QED
      BY <1>0, <1>2, <1>6, <3>1 DEF SourceOK, Lists
  <2>2. \A i \in 1..Len(sources) : SourceOK(sources[i])
    BY <1>0 DEF Lists, ListOK
  <2>3. \A i \in 1..Len(sources) : SourceOK(list[i])' /\ list[i].id # new.id
    BY <1>0, <1>2, <1>6, <1>7, <2>2 DEF SourceOK
  <2>4. ASSUME NEW i \in 1..Len(list), NEW k \in 1..Len(list), list[i].id = list[k].id PROVE i = k
    <3>1. /\ i \in 1..Len(sources) \/ i = Len(sources) + 1
          /\ k \in 1..Len(sources) \/ k = Len(sources) + 1
      BY <1>7
    <3> QED
      BY <1>0, <1>7, <2>3, <2>4, <3>1 DEF ListOK, Lists
  <2>5. \A i \in 1..Len(list) : SourceOK(list[i])'
    BY <1>7, <2>1, <2>3
  <2> QED
    BY <1>7, <2>4, <2>5 DEF ListOK
<1>9. ASSUME NEW n \in DOMAIN made
      PROVE  \E i \in 1..Len(new.content) :
                /\ n = <<imports + 1, new.content[i], i>> /\ new.content[i] \in Keys
                /\ made[n].source = imports + 1
  BY <1>1, <1>6, <1>9, Made, Contents
<1>10. NodesOK(servers, list)
  <2> SUFFICES ASSUME NEW n \in DOMAIN servers
               PROVE  \E i \in 1..Len(list) :
                        servers[n].source = list[i].id /\ Own(n, list[i].id, list[i].revision)
    BY DEF NodesOK
  <2>1. CASE n \in DOMAIN made
    BY <1>1, <1>6, <1>7, <1>9, <2>1 DEF Extended, Own
  <2>2. CASE n \notin DOMAIN made
    BY <1>0, <1>1, <1>7, <2>2 DEF Extended, Lists, NodesOK
  <2> QED
    BY <2>1, <2>2
<1>11. Serves(servers, list)'
  <2>1. ASSUME intent # NoServer
        PROVE  /\ Drawn(intent.id, list)'
               /\ intent.id \in DOMAIN servers => servers[intent.id].key = intent.key
    <3>1. Drawn(intent.id, sources)
      BY <1>0, <2>1 DEF Session, Serves
    <3>2. \A key, i, q : intent.id # <<imports + 1, key, i>> /\ intent.id # <<imports + 1, "new", i, q>>
      BY <1>0, <3>1 DEF Drawn
    <3>3. intent.id \notin DOMAIN made
      BY <1>9, <3>2
    <3>4. Drawn(intent.id, list)'
      <4>1. ASSUME NEW i \in 1..Len(list), NEW r \in Nat, NEW k \in Nat,
                   intent.id = <<list[i].id, "new", r, k>>
            PROVE  i \in 1..Len(sources) /\ r < list[i].revision
        <5>1. i \in 1..Len(sources) \/ i = Len(sources) + 1
          BY <1>7
        <5> QED
          BY <1>6, <1>7, <3>1, <3>2, <4>1, <5>1 DEF Drawn
      <4> QED
        BY <1>0, <1>2, <3>1, <4>1 DEF Drawn
    <3> QED
      BY <1>0, <1>1, <2>1, <3>3, <3>4 DEF Extended, Session, Serves
  <2> QED
    BY <1>2, <2>1 DEF Serves
<1>12. Follows(list)
  <2>1. \A i \in 1..Len(sources) : sources[i].id # new.id
    BY <1>0, <1>6 DEF Lists, ListOK, SourceOK
  <2>2. \A k \in 1..Len(list) : k \in 1..Len(sources) \/ k = Len(sources) + 1
    BY <1>7
  <2> QED
    BY <1>0, <1>7, <2>1, <2>2 DEF Follows, Lists, ListOK
<1>13. PICK lib : lib = Library(list, servers, ids, previews)
  OBVIOUS
<1>14. lib.sources = list /\ lib.nodes = servers /\ lib.pending = previews
  BY <1>13 DEF Library
<1> QED
  BY <1>0, <1>2, <1>3, <1>4, <1>5, <1>8, <1>10, <1>11, <1>12, <1>13, <1>14, Saved

\* A refreshed source keeps the ids of the servers it still has, under the next revision.
LEMMA RefreshSaveInv ==
  ASSUME Inv, NEW j \in Jobs, RefreshSave(j)
  PROVE  Inv'
<1>0. Slots /\ Lists /\ Session /\ imports \in Nat
  BY DEF Inv, Lists
<1>1. PICK content, original, new, p, list, made, servers, ids :
        /\ content \in Subscriptions \ {<<>>}
        /\ original = jobs[j].original
        /\ new = Source(original.id, original.kind, content, original.revision + 1,
                        RefreshedIds(original, content))
        /\ p = Position(sources, original.id)
        /\ list = [sources EXCEPT ![p] = new]
        /\ made = ById(ToSet(Prepared(new)))
        /\ servers = Extended(NodesWithout(original.id), made)
        /\ Save(j, Library(list, servers, ids, pending))
  BY DEF RefreshSave
<1>2. /\ file' = File(list)
      /\ saving' = [job |-> j, new |-> Library(list, servers, ids, pending)]
      /\ MutationAllowed(original.id) /\ Unchanged(original)
      /\ Unlocked /\ jobs[j].does = "refresh" /\ jobs' = jobs
      /\ UNCHANGED <<library, slots, session, machine, history>>
  <2>1. /\ file' = File(list)
        /\ saving' = [job |-> j, new |-> Library(list, servers, ids, pending)]
    BY <1>1 DEF Save, Library
  <2> QED
    BY <1>1, <2>1 DEF RefreshSave
<1>3. /\ jobs' = [k \in Jobs |-> jobs'[k]] /\ Downloading' = Downloading
      /\ jobs'[j].does \in Saves
  BY <1>0, <1>2 DEF Slots, Downloading, Saves
<1>4. Stored' = list
  BY <1>2 DEF Stored, File, NoFile
<1>5. /\ p \in 1..Len(sources) /\ sources[p] = original /\ SourceOK(original)
      /\ original.revision \in Nat
  <2>1. PICK i \in 1..Len(sources) : sources[i] = original
    BY <1>2 DEF Unchanged
  <2>2. p \in 1..Len(sources) /\ sources[p].id = original.id
    BY <1>1, <2>1 DEF Position
  <2> QED
    BY <1>0, <2>1, <2>2 DEF Lists, ListOK, SourceOK
<1>6. /\ new.id = original.id /\ new.revision = original.revision + 1 /\ new.content = content
      /\ \A i \in 1..Len(content) : NodeId(new, i) = RefreshedIds(original, content)[i]
  <2>1. 1 \in 1..Len(content)
    BY <1>1, Contents
  <2>2. RefreshedIds(original, content) # <<>>
    BY <2>1 DEF RefreshedIds
  <2> QED
    BY <1>1, <2>2 DEF Source, NodeId
<1>7. /\ list \in Seq(ToSet(list)) /\ Len(list) = Len(sources) /\ Len(sources) \in Nat
      /\ list[p] = new /\ \A i \in 1..Len(sources) : i # p => list[i] = sources[i]
  <2>1. sources \in Seq(ToSet(sources) \cup {new})
    BY <1>0 DEF Lists, ListOK
  <2>2. /\ list \in Seq(ToSet(sources) \cup {new})
        /\ Len(list) = Len(sources) /\ Len(sources) \in Nat
        /\ list[p] = new /\ \A i \in 1..Len(sources) : i # p => list[i] = sources[i]
    BY <1>1, <1>5, <2>1
  <2> QED
    BY <2>2, IsList
<1>8. ASSUME NEW i \in 1..Len(content), NEW n, n = NodeId(new, i)
      PROVE  /\ Own(n, original.id, original.revision + 1)
             /\ \/ n \in NodesOf(original.id) /\ nodes[n].key = content[i]
                \/ n = <<original.id, "new", original.revision, i>>
  <2>1. \/ n \in NodesOf(original.id) /\ nodes[n].key = content[i]
        \/ n = <<original.id, "new", original.revision, i>>
    <3>1. n = RefreshedIds(original, content)[i]
      BY <1>6, <1>8
    <3> QED
      BY <3>1, Refreshed
  <2>2. CASE n \in NodesOf(original.id) /\ nodes[n].key = content[i]
    <3>1. PICK k \in 1..Len(sources) :
             sources[k].id = original.id /\ Own(n, sources[k].id, sources[k].revision)
      BY <1>0, <2>2 DEF NodesOf, Lists, NodesOK
    <3>2. k = p
      BY <1>0, <1>5, <3>1 DEF Lists, ListOK
    <3> QED
      BY <1>5, <2>2, <3>1, <3>2, Owner
  <2>3. CASE n = <<original.id, "new", original.revision, i>>
    <3>1. i \in Nat /\ original.revision < original.revision + 1
      BY <1>5, Contents
    <3> QED
      BY <1>5, <2>3, <3>1 DEF Own
  <2> QED
    BY <2>1, <2>2, <2>3
<1>9. ListOK(list)'
  <2>0. content \in Subscriptions
    BY <1>1
  <2>1. SourceOK(new)'
    BY <1>0, <1>2, <1>5, <1>6, <1>8, <2>0 DEF SourceOK
  <2>2. \A i \in 1..Len(sources) : SourceOK(sources[i])
    BY <1>0 DEF Lists, ListOK
  <2>3. \A i \in 1..Len(list) : SourceOK(list[i])' /\ list[i].id = sources[i].id
    BY <1>2, <1>5, <1>6, <1>7, <2>1, <2>2 DEF SourceOK
  <2> QED
    BY <1>0, <1>7, <2>3 DEF ListOK, Lists
<1>10. ASSUME NEW n \in DOMAIN made
       PROVE  /\ Own(n, original.id, original.revision + 1)
              /\ made[n].source = original.id
              /\ \/ n \in NodesOf(original.id) /\ made[n].key = nodes[n].key
                 \/ \E i \in Nat : n = <<original.id, "new", original.revision, i>>
  <2>1. PICK i \in 1..Len(content) : /\ n = NodeId(new, i)
                                     /\ made[n].key = content[i] /\ made[n].source = original.id
    <3>1. /\ new.content \in Subscriptions /\ n \in DOMAIN ById(ToSet(Prepared(new)))
          /\ new.content = content /\ new.id = original.id
          /\ made = ById(ToSet(Prepared(new)))
      BY <1>1, <1>6, <1>10
    <3>2. PICK i \in 1..Len(new.content) :
             /\ n = NodeId(new, i)
             /\ ById(ToSet(Prepared(new)))[n] =
                  [id |-> n, key |-> new.content[i], source |-> new.id, version |-> new.revision]
      BY <3>1, Made
    <3> QED
      BY <3>1, <3>2
  <2>2. i \in Nat
    BY Contents
  <2> QED
    BY <1>8, <2>1, <2>2
<1>11. NodesOK(servers, list)
  <2> SUFFICES ASSUME NEW n \in DOMAIN servers
               PROVE  \E i \in 1..Len(list) :
                        servers[n].source = list[i].id /\ Own(n, list[i].id, list[i].revision)
    BY DEF NodesOK
  <2>1. CASE n \in DOMAIN made
    <3>1. servers[n] = made[n]
      BY <1>1, <2>1 DEF Extended
    <3>2. p \in 1..Len(list) /\ list[p].id = original.id /\ list[p].revision = original.revision + 1
      BY <1>5, <1>6, <1>7
    <3> QED
      BY <1>10, <2>1, <3>1, <3>2
  <2>2. CASE n \notin DOMAIN made
    <3>1. n \in DOMAIN nodes \ NodesOf(original.id) /\ servers[n] = nodes[n]
      BY <1>1, <2>2 DEF Extended, NodesWithout
    <3>2. PICK i \in 1..Len(sources) :
             nodes[n].source = sources[i].id /\ Own(n, sources[i].id, sources[i].revision)
      BY <1>0, <3>1 DEF Lists, NodesOK
    <3>3. i # p
      BY <1>5, <3>1, <3>2 DEF NodesOf
    <3> QED
      BY <1>7, <3>1, <3>2, <3>3
  <2> QED
    BY <2>1, <2>2
<1>12. Serves(servers, list)'
  <2>1. ASSUME active # NoServer
        PROVE  active.id \in DOMAIN servers /\ servers[active.id] = nodes[active.id]
    <3>1. active.id \in DOMAIN nodes /\ active.id \notin NodesOf(original.id)
      BY <1>0, <1>2, <2>1 DEF Session, Serves, MutationAllowed
    <3>2. PICK i \in 1..Len(sources) : /\ nodes[active.id].source = sources[i].id
                                       /\ Own(active.id, sources[i].id, sources[i].revision)
      BY <1>0, <3>1 DEF Lists, NodesOK
    <3>3. sources[i].id # original.id /\ sources[i].revision \in Nat
      BY <1>0, <3>1, <3>2 DEF NodesOf, Lists, ListOK, SourceOK
    <3>4. active.id \notin DOMAIN made
      BY <1>10, <3>2, <3>3, Owner
    <3> QED
      BY <1>1, <3>1, <3>4 DEF Extended, NodesWithout
  <2>2. ASSUME intent # NoServer
        PROVE  /\ Drawn(intent.id, list)'
               /\ intent.id \in DOMAIN servers => servers[intent.id].key = intent.key
    <3>1. Drawn(intent.id, sources)
      BY <1>0, <2>2 DEF Session, Serves
    <3>2. \A i \in Nat : intent.id # <<original.id, "new", original.revision, i>>
      BY <1>5, <3>1 DEF Drawn
    <3>3. Drawn(intent.id, list)'
      <4>1. ASSUME NEW i \in 1..Len(list), NEW r \in Nat, NEW k \in Nat,
                   intent.id = <<list[i].id, "new", r, k>>
            PROVE  r < list[i].revision
        <5>1. list[i].id = sources[i].id
          BY <1>5, <1>6, <1>7
        <5>2. r < sources[i].revision
          BY <1>7, <3>1, <4>1, <5>1 DEF Drawn
        <5> QED
          BY <1>5, <1>6, <1>7, <5>2
      <4> QED
        BY <1>2, <3>1, <4>1 DEF Drawn
    <3>4. CASE intent.id \in DOMAIN made
      BY <1>0, <1>1, <1>10, <2>2, <3>2, <3>3, <3>4 DEF Extended, NodesOf, Session, Serves
    <3>5. CASE intent.id \notin DOMAIN made
      BY <1>0, <1>1, <2>2, <3>3, <3>5 DEF Extended, NodesWithout, Session, Serves
    <3> QED
      BY <3>4, <3>5
  <2> QED
    BY <1>2, <2>1, <2>2 DEF Serves
<1>13. Follows(list)
  <2> SUFFICES ASSUME NEW i \in 1..Len(sources), NEW k \in 1..Len(list),
                      sources[i].id = list[k].id, sources[i].content # list[k].content
               PROVE  list[k].revision = sources[i].revision + 1
    BY DEF Follows
  <2>1. sources[k].id = list[k].id /\ k \in 1..Len(sources)
    BY <1>5, <1>6, <1>7
  <2>2. i = k
    BY <1>0, <2>1 DEF Lists, ListOK
  <2> QED
    BY <1>5, <1>6, <1>7, <2>2
<1>14. PICK lib : lib = Library(list, servers, ids, pending)
  OBVIOUS
<1>15. lib.sources = list /\ lib.nodes = servers /\ lib.pending = pending
  BY <1>14 DEF Library
<1> QED
  BY <1>0, <1>2, <1>3, <1>4, <1>9, <1>11, <1>12, <1>13, <1>14, <1>15, Saved DEF Slots

\* Taking out one element of a list.
LEMMA Removed ==
  ASSUME NEW S, NEW list \in Seq(S), NEW p \in 1..Len(list)
  PROVE  /\ RemoveAt(list, p) \in Seq(S)
         /\ Len(RemoveAt(list, p)) = Len(list) - 1
         /\ \A i \in 1..(Len(list) - 1) :
              RemoveAt(list, p)[i] = list[IF i < p THEN i ELSE i + 1]
<1>1. PICK front, back :
         front = SubSeq(list, 1, p - 1) /\ back = SubSeq(list, p + 1, Len(list))
  OBVIOUS
<1>2. /\ front \in Seq(S) /\ Len(front) = p - 1
      /\ \A i \in 1..(p - 1) : front[i] = list[i]
  BY <1>1
<1>3. /\ back \in Seq(S) /\ Len(back) = Len(list) - p
      /\ \A i \in 1..(Len(list) - p) : back[i] = list[p + i]
  BY <1>1
<1>4. RemoveAt(list, p) = front \o back
  BY <1>1 DEF RemoveAt
<1>5. front \o back \in Seq(S) /\ Len(front \o back) = Len(list) - 1
  BY <1>2, <1>3
<1>6. ASSUME NEW i \in 1..(Len(list) - 1)
      PROVE  (front \o back)[i] = list[IF i < p THEN i ELSE i + 1]
  <2>1. CASE i < p
    BY <1>2, <1>3, <2>1
  <2>2. CASE ~(i < p)
    <3>1. (front \o back)[i] = back[i - (p - 1)]
      BY <1>2, <1>3, <2>2
    <3>2. i - (p - 1) \in 1..(Len(list) - p) /\ p + (i - (p - 1)) = i + 1
      BY <2>2
    <3> QED
      BY <1>3, <2>2, <3>1, <3>2
  <2> QED
    BY <2>1, <2>2
<1> QED
  BY <1>4, <1>5, <1>6

\* A source goes with its servers; the others stay as they are, in their order.
LEMMA RemoveSourceInv ==
  ASSUME Inv, NEW j \in Jobs, RemoveSource(j)
  PROVE  Inv'
<1>0. Slots /\ Lists /\ Session /\ imports \in Nat
  BY DEF Inv, Lists
<1>1. PICK id, p, list, servers, ids :
        /\ id \in SourceIdsOf(sources)
        /\ MutationAllowed(id)
        /\ p = Position(sources, id) /\ list = RemoveAt(sources, p)
        /\ servers = NodesWithout(id)
        /\ Save(j, Library(list, servers, ids, pending))
  BY DEF RemoveSource
<1>2. /\ file' = File(list)
      /\ saving' = [job |-> j, new |-> Library(list, servers, ids, pending)]
      /\ Unlocked /\ Free(j) /\ Begin(j, [does |-> "remove"])
      /\ UNCHANGED <<library, slots, session, machine, history>>
  <2>1. /\ file' = File(list)
        /\ saving' = [job |-> j, new |-> Library(list, servers, ids, pending)]
    BY <1>1 DEF Save, Library
  <2> QED
    BY <2>1 DEF RemoveSource
<1>3. /\ jobs' = [k \in Jobs |-> jobs'[k]] /\ Downloading' = Downloading
      /\ jobs'[j].does \in Saves
  BY <1>0, <1>2, Begun DEF Free, Idle, Begin, Slots, Saves
<1>4. Stored' = list
  BY <1>2 DEF Stored, File, NoFile
<1>5. p \in 1..Len(sources) /\ sources[p].id = id
  BY <1>1 DEF SourceIdsOf, Position
<1>6. /\ list \in Seq(ToSet(list)) /\ Len(list) = Len(sources) - 1 /\ Len(sources) \in Nat
      /\ \A i \in 1..Len(list) : list[i] = sources[IF i < p THEN i ELSE i + 1]
  <2>1. sources \in Seq(ToSet(sources))
    BY <1>0 DEF Lists, ListOK
  <2>2. /\ list \in Seq(ToSet(sources)) /\ Len(list) = Len(sources) - 1 /\ Len(sources) \in Nat
        /\ \A i \in 1..Len(list) : list[i] = sources[IF i < p THEN i ELSE i + 1]
    <3>1. /\ RemoveAt(sources, p) \in Seq(ToSet(sources))
          /\ Len(RemoveAt(sources, p)) = Len(sources) - 1
          /\ \A i \in 1..(Len(sources) - 1) :
               RemoveAt(sources, p)[i] = sources[IF i < p THEN i ELSE i + 1]
      BY <1>5, <2>1, Removed
    <3>2. list = RemoveAt(sources, p)
      BY <1>1
    <3> QED
      BY <2>1, <3>1, <3>2
  <2> QED
    BY <2>2, IsList
<1>7. \A i \in 1..Len(list) : (IF i < p THEN i ELSE i + 1) \in 1..Len(sources)
  BY <1>5, <1>6
<1>8. ListOK(list)'
  <2>1. \A i \in 1..Len(sources) : SourceOK(sources[i])
    BY <1>0 DEF Lists, ListOK
  <2>2. \A i \in 1..Len(list) : SourceOK(list[i])'
    BY <1>2, <1>6, <1>7, <2>1 DEF SourceOK
  <2>3. ASSUME NEW i \in 1..Len(list), NEW k \in 1..Len(list), list[i].id = list[k].id PROVE i = k
    <3>1. (IF i < p THEN i ELSE i + 1) = (IF k < p THEN k ELSE k + 1)
      BY <1>0, <1>6, <1>7, <2>3, SMTT(60) DEF Lists, ListOK
    <3> QED
      BY <1>5, <3>1
  <2> QED
    BY <1>6, <2>2, <2>3 DEF ListOK
<1>9. \A k \in 1..Len(sources) : sources[k].id # id => \E i \in 1..Len(list) : list[i] = sources[k]
  <2> SUFFICES ASSUME NEW k \in 1..Len(sources), sources[k].id # id
               PROVE  \E i \in 1..Len(list) : list[i] = sources[k]
    OBVIOUS
  <2>1. CASE k < p
    BY <1>5, <1>6, <2>1
  <2>2. CASE k > p
    <3>1. k - 1 \in 1..Len(list) /\ list[k - 1] = sources[k]
      BY <1>5, <1>6, <2>2
    <3> QED
      BY <3>1
  <2> QED
    BY <1>5, <2>1, <2>2
<1>10. NodesOK(servers, list)
  <2> SUFFICES ASSUME NEW n \in DOMAIN servers
               PROVE  \E i \in 1..Len(list) :
                        servers[n].source = list[i].id /\ Own(n, list[i].id, list[i].revision)
    BY DEF NodesOK
  <2>1. n \in DOMAIN nodes /\ nodes[n].source # id /\ servers[n] = nodes[n]
    BY <1>1 DEF NodesWithout, NodesOf
  <2>2. PICK k \in 1..Len(sources) :
           nodes[n].source = sources[k].id /\ Own(n, sources[k].id, sources[k].revision)
    BY <1>0, <2>1 DEF Lists, NodesOK
  <2> QED
    BY <1>9, <2>1, <2>2
<1>11. Serves(servers, list)'
  <2>1. ASSUME active # NoServer
        PROVE  active.id \in DOMAIN servers /\ servers[active.id] = nodes[active.id]
    BY <1>0, <1>1, <2>1 DEF Session, Serves, MutationAllowed, NodesWithout
  <2>2. ASSUME intent # NoServer
        PROVE  /\ Drawn(intent.id, list)'
               /\ intent.id \in DOMAIN servers => servers[intent.id].key = intent.key
    <3>1. Drawn(intent.id, sources)
      BY <1>0, <2>2 DEF Session, Serves
    <3>2. Drawn(intent.id, list)'
      BY <1>2, <1>6, <1>7, <3>1 DEF Drawn
    <3> QED
      BY <1>0, <1>1, <2>2, <3>2 DEF Session, Serves, NodesWithout
  <2> QED
    BY <1>2, <2>1, <2>2 DEF Serves
<1>12. Follows(list)
  <2> SUFFICES ASSUME NEW i \in 1..Len(sources), NEW k \in 1..Len(list),
                      sources[i].id = list[k].id, sources[i].content # list[k].content
               PROVE  FALSE
    BY DEF Follows
  <2> QED
    BY <1>0, <1>6, <1>7 DEF Lists, ListOK
<1>13. PICK lib : lib = Library(list, servers, ids, pending)
  OBVIOUS
<1>14. lib.sources = list /\ lib.nodes = servers /\ lib.pending = pending
  BY <1>13 DEF Library
<1> QED
  BY <1>0, <1>2, <1>3, <1>4, <1>8, <1>10, <1>11, <1>12, <1>13, <1>14, Saved DEF Slots

\* A reset leaves no source and no server.
LEMMA ResetInv ==
  ASSUME Inv, NEW j \in Jobs, ResetLocalState(j)
  PROVE  Inv'
<1>0. Slots /\ Lists /\ Session /\ imports \in Nat
  BY DEF Inv, Lists
<1>1. PICK lib : lib = Library(<<>>, <<>>, <<>>, <<>>)
  OBVIOUS
<1>2. /\ file' = NoFile /\ saving' = [job |-> j, new |-> lib] /\ active = NoServer
      /\ Unlocked /\ Free(j) /\ Begin(j, [does |-> "reset"])
      /\ UNCHANGED <<library, slots, session, machine, history>>
  BY <1>1 DEF ResetLocalState
<1>3. /\ jobs' = [k \in Jobs |-> jobs'[k]] /\ Downloading' = Downloading
      /\ jobs'[j].does \in Saves
  BY <1>0, <1>2, Begun DEF Free, Idle, Begin, Slots, Saves
<1>4. Stored' = <<>>
  BY <1>2 DEF Stored
<1>5. lib.sources = <<>> /\ lib.nodes = <<>> /\ lib.pending = <<>>
  BY <1>1 DEF Library
<1>6. ListOK(<<>>)' /\ NodesOK(<<>>, <<>>) /\ Follows(<<>>)
  BY DEF ListOK, NodesOK, Follows
<1>7. Serves(<<>>, <<>>)'
  BY <1>0, <1>2 DEF Serves, Session, Drawn
<1>8. PendingOK(<<>>) /\ DOMAIN <<>> \subseteq DOMAIN pending
  <2>1. DOMAIN <<>> = {}
    OBVIOUS
  <2> QED
    BY <2>1, FS_EmptySet DEF PendingOK
<1> QED
  BY <1>0, <1>2, <1>3, <1>4, <1>5, <1>6, <1>7, <1>8, Saved

\* What was saved is taken into memory while nobody else changed the library.
LEMMA CommitInv ==
  ASSUME Inv, NEW j \in Jobs, Commit(j)
  PROVE  Inv'
<1>0. Slots /\ Lists /\ Session /\ Held /\ imports \in Nat
  BY DEF Inv, Lists
<1>1. /\ up /\ saving # Nobody /\ saving.job = j /\ saving' = Nobody
      /\ sources' = Stored /\ nodes' = saving.new.nodes /\ pending' = saving.new.pending
      /\ inflight' = IF jobs[j].does = "refresh" THEN inflight - 1 ELSE inflight
      /\ removed' = removed \cup (SourceIdsOf(sources) \ SourceIdsOf(sources'))
      /\ End(j) /\ UNCHANGED <<file, session, up, imports>>
  BY <1>0 DEF Commit, Held
<1>2. /\ jobs[j].does \in Saves /\ PendingOK(pending')
      /\ DOMAIN pending' \subseteq DOMAIN pending /\ NodesOK(nodes', Stored)
      /\ Serves(nodes', Stored)
  BY <1>0, <1>1 DEF Held
<1>3. Slots'
  <2>1. /\ inflight \in Nat /\ Cardinality(DOMAIN pending) \in Nat
        /\ Cardinality(DOMAIN pending') \in Nat
        /\ Cardinality(DOMAIN pending') <= Cardinality(DOMAIN pending)
    BY <1>0, <1>2, FS_CardinalityType, FS_Subset DEF Slots, PendingOK
  <2>2. /\ jobs' = [k \in Jobs |-> jobs'[k]] /\ IsFiniteSet(Downloading')
        /\ Cardinality(Downloading') = inflight'
    <3>1. jobs[j].does \in {"preview", "reserved", "refresh"} <=> jobs[j].does = "refresh"
      BY <1>2 DEF Saves
    <3> QED
      BY <1>0, <1>1, <3>1, Ended DEF Slots
  <2> QED
    BY <1>0, <1>1, <1>2, <2>1, <2>2, LimitsAssumption DEF Slots
<1>4. removed' \subseteq 0..imports
  <2>1. \A i \in 1..Len(sources) : sources[i].id \in 0..imports
    BY <1>0 DEF Lists, ListOK, SourceOK
  <2>2. SourceIdsOf(sources) \subseteq 0..imports
    BY <2>1 DEF SourceIdsOf
  <2>3. removed \subseteq 0..imports
    BY <1>0 DEF Lists
  <2> QED
    BY <1>1, <2>2, <2>3
<1>5. Stored' = Stored /\ ListOK(Stored)'
  <2>1. Stored' = Stored
    BY <1>1 DEF Stored
  <2>2. \A i \in 1..Len(Stored) : Stored[i].id \in SourceIdsOf(sources')
    BY <1>1 DEF SourceIdsOf
  <2> QED
    BY <1>0, <1>1, <2>1, <2>2 DEF Lists, ListOK, SourceOK
<1>6. Lists'
  BY <1>0, <1>1, <1>2, <1>4, <1>5 DEF Lists
<1>7. Session'
  BY <1>0, <1>1, <1>2 DEF Session, Serves, Drawn, Server
<1> QED
  BY <1>1, <1>3, <1>6, <1>7 DEF Inv, Held, Off

-----------------------------------------------------------------------------
(* RouteDeck dies and starts *)

\* A crash leaves the file, which is what was in memory or was being saved.
LEMMA CrashInv ==
  ASSUME Inv, Crash
  PROVE  Inv'
<1>1. Slots'
  <2>1. Downloading' = {}
    BY DEF Crash, Downloading, Idle
  <2>2. DOMAIN pending' = {}
    BY DEF Crash
  <2> QED
    BY <2>1, <2>2, FS_EmptySet, LimitsAssumption DEF Crash, Slots, PendingOK
<1>2. ListOK(sources)' /\ NodesOK(nodes, sources)'
  BY DEF Crash, ListOK, NodesOK
<1>3. ListOK(Stored)'
  BY DEF Crash, Inv, Lists, ListOK, SourceOK, Stored
<1> QED
  BY <1>1, <1>2, <1>3 DEF Crash, Inv, Lists, Session, Serves, Held, Off

\* A start makes the servers of the stored sources anew, under the same ids.
LEMMA StartInv ==
  ASSUME Inv, Start
  PROVE  Inv'
<1>0. /\ Slots /\ Lists /\ active = NoServer /\ intent = NoServer /\ saving = Nobody
      /\ \A s, t \in targets : s.id = t.id => s = t
  BY DEF Inv, Start, Off, Session
<1>1. /\ sources' \in {<<>>, Stored} /\ nodes' = ById(ServersOf(sources')) /\ up'
      /\ UNCHANGED <<slots, jobs, saving, file, session, history>>
  BY DEF Start, Stored
<1>2. ListOK(<<>>)
  BY DEF ListOK
<1>3. ListOK(sources)' /\ ListOK(Stored)' /\ ListOK(sources')
  BY <1>0, <1>1, <1>2 DEF Lists, ListOK, SourceOK, Stored
<1>4. NodesOK(nodes, sources)'
  <2> SUFFICES ASSUME NEW n \in DOMAIN nodes'
               PROVE  \E i \in 1..Len(sources') :
                        /\ nodes'[n].source = sources'[i].id
                        /\ Own(n, sources'[i].id, sources'[i].revision)
    BY DEF NodesOK
  <2>1. nodes'[n] \in ServersOf(sources') /\ nodes'[n].id = n
    BY <1>1 DEF ById
  <2>2. PICK i \in 1..Len(sources') : nodes'[n] \in ToSet(Prepared(sources'[i]))
    BY <2>1 DEF ServersOf
  <2>3. SourceOK(sources'[i])
    BY <1>3 DEF ListOK
  <2>4. PICK k \in 1..Len(sources'[i].content) : nodes'[n] = Prepared(sources'[i])[k]
    BY <2>2 DEF ToSet, Prepared
  <2>5. n = NodeId(sources'[i], k) /\ nodes'[n].source = sources'[i].id
    BY <2>1, <2>4 DEF Prepared
  <2> QED
    BY <2>3, <2>5 DEF SourceOK
<1>5. Slots'
  BY <1>0, <1>1 DEF Slots, Downloading
<1> QED
  BY <1>0, <1>1, <1>3, <1>4, <1>5 DEF Inv, Lists, Session, Serves, Held, Off

-----------------------------------------------------------------------------
(* The theorems *)

\* One lemma for each group of steps.
LEMMA StepInv == Inv /\ [Next]_vars => Inv'
<1> SUFFICES ASSUME Inv, [Next]_vars PROVE Inv'
  OBVIOUS
<1>1. ASSUME NEW j \in Jobs, PreviewBegin(j) PROVE Inv'
  BY <1>1, ReserveInv DEF PreviewBegin
<1>2. ASSUME NEW j \in Jobs, RefreshBegin(j) PROVE Inv'
  BY <1>2, ReserveInv DEF RefreshBegin
<1>3. CASE UNCHANGED vars
  <2>1. Slots' /\ Off'
    BY <1>3 DEF vars, Inv, Slots, Downloading, Off
  <2>2. Lists'
    BY <1>3 DEF vars, Inv, Lists, ListOK, SourceOK, NodesOK, Stored
  <2>3. Session'
    BY <1>3 DEF vars, Inv, Session, Serves, Drawn, Server
  <2>4. Held'
    BY <1>3 DEF vars, Inv, Held, Serves, Drawn, Stored, Follows
  <2> QED
    BY <2>1, <2>2, <2>3, <2>4 DEF Inv
<1> QED
  BY <1>1, <1>2, <1>3, PreviewEndInv, RefreshSnapshotInv, RefreshSaveInv, RefreshFailInv, ConfirmInv, RemoveSourceInv,
     ResetInv, CommitInv, DiscardInv, SessionInv, CrashInv, StartInv DEF Next

\* The invariant, of which the theorems below are consequences.
THEOREM Invariance == Spec => []Inv
<1>1. Init => Inv
  BY InitInv
<1>2. Inv /\ [Next]_vars => Inv'
  BY StepInv
<1> QED
  BY <1>1, <1>2, PTL DEF Spec

\* No error path, discard, reset or crash keeps a preview slot or gives one back twice.
THEOREM SlotsTheorem == Spec => []SlotsAccounted
<1>1. Inv => SlotsAccounted
  BY DEF Inv, Slots, Downloading, SlotsAccounted
<1> QED
  BY <1>1, Invariance, PTL

\* The session runs a server as the library has it, whatever was refreshed, removed or
\* reset meanwhile.
THEOREM SessionTheorem == Spec => []SessionRunsStoredServer
<1>1. Inv => SessionRunsStoredServer
  BY DEF Inv, Session, Serves, SessionRunsStoredServer
<1> QED
  BY <1>1, Invariance, PTL

\* A reconnect finds the server the user chose, or none: no refresh, import or restart
\* gives its id to another.
THEOREM IdTheorem == Spec => []IdKeepsItsServer
<1>1. Inv => IdKeepsItsServer
  BY DEF Inv, Session, Serves, IdKeepsItsServer
<1> QED
  BY <1>1, Invariance, PTL

\* What the user removed does not come back, neither by a download nor from the file.
THEOREM RemovalTheorem == Spec => []RemovedStaysRemoved
<1>1. Inv => RemovedStaysRemoved
  BY DEF Inv, Lists, ListOK, SourceOK, SourceIdsOf, RemovedStaysRemoved
<1> QED
  BY <1>1, Invariance, PTL

\* What a step does to a source of the library: its content changes with the next
\* revision only.
LEMMA StepFollows ==
  ASSUME Inv, [Next]_vars,
         NEW i \in 1..Len(sources), NEW k \in 1..Len(sources'),
         sources[i].id = sources'[k].id, sources[i].content # sources'[k].content
  PROVE  sources'[k].revision = sources[i].revision + 1
<1>1. ASSUME NEW j \in Jobs, Commit(j) PROVE sources'[k].revision = sources[i].revision + 1
  BY <1>1 DEF Inv, Held, Follows, Commit
<1>2. CASE Crash
  BY <1>2 DEF Crash
<1>3. CASE Start
  BY <1>3 DEF Start, Inv, Off
<1>4. CASE UNCHANGED sources
  BY <1>4 DEF Inv, Lists, ListOK
<1> QED
  BY <1>1, <1>2, <1>3, <1>4 DEF Next, vars, PreviewBegin, PreviewEnd, RefreshBegin, Reserve,
     RefreshSnapshot, RefreshSave, RefreshFail, Confirm, RemoveSource, ResetLocalState, Discard,
     Connect, Reconnect, Switch, Disconnect, Block

\* A refresh never replaces the content of a refresh that finished meanwhile.
THEOREM RefreshTheorem == Spec => RefreshBuildsOnLatest
<1>1. Inv /\ [Next]_vars =>
        [\A i \in 1..Len(sources), k \in 1..Len(sources') :
           LET old == sources[i] new == sources'[k] IN
           old.id = new.id /\ old.content # new.content => new.revision = old.revision + 1]_vars
  BY StepFollows
<1> QED
  BY <1>1, Invariance, PTL DEF Spec, RefreshBuildsOnLatest

-----------------------------------------------------------------------------
(* Lists: what is made of a list one element after the other *)

\* What holds of 0, and of n + 1 when it holds of n, holds of every number.
LEMMA Induction ==
  ASSUME NEW T, 0 \in T, \A n \in Nat : n \in T => n + 1 \in T
  PROVE  \A n \in Nat : n \in T
<1> DEFINE Out == Nat \ T
<1> SUFFICES ASSUME Out # {} PROVE FALSE
  OBVIOUS
<1>1. IsWellFoundedOn(OpToRel(<, Nat), Nat)
  BY NatLessThanWellFounded
<1>2. PICK x \in Out : \A y \in Out : ~(<<y, x>> \in OpToRel(<, Nat))
  BY <1>1, WFMin
<1>3. \A y \in Nat : y < x => <<y, x>> \in OpToRel(<, Nat)
  BY DEF OpToRel
<1>4. x \in Nat /\ x # 0 /\ x - 1 \in Nat /\ x - 1 < x /\ (x - 1) + 1 = x
  OBVIOUS
<1>5. x - 1 \in T
  BY <1>2, <1>3, <1>4
<1> QED
  BY <1>4, <1>5

\* f[i] is what the first i steps make of the start.
Steps(f, n, start, step) ==
    f[0] = start /\ \A i \in 1..n : f[i] = step[i][f[i - 1]]

\* What is made of the first i elements, one after the other, is there.
LEMMA Recursion ==
  ASSUME NEW X, NEW start \in X, NEW n \in Nat, NEW step \in [1..n -> [X -> X]]
  PROVE  \E f \in [0..n -> X] : Steps(f, n, start, step)
<1> DEFINE Up(m) == \E f \in [0..m -> X] :
                      f[0] = start /\ \A i \in 1..m : f[i] = step[i][f[i - 1]]
           T == {m \in Nat : m <= n => Up(m)}
<1>1. Up(0)
  <2> DEFINE f == [i \in 0..0 |-> start]
  <2>1. f \in [0..0 -> X] /\ f[0] = start /\ \A i \in 1..0 : f[i] = step[i][f[i - 1]]
    OBVIOUS
  <2> HIDE DEF f
  <2> QED
    BY <2>1
<1>2. ASSUME NEW m \in Nat, m + 1 <= n, Up(m) PROVE Up(m + 1)
  <2>1. PICK f \in [0..m -> X] : f[0] = start /\ \A i \in 1..m : f[i] = step[i][f[i - 1]]
    BY <1>2
  <2> DEFINE g == [i \in 0..(m + 1) |-> IF i = m + 1 THEN step[m + 1][f[m]] ELSE f[i]]
  <2>2. step[m + 1][f[m]] \in X
    BY <1>2
  <2>3. g \in [0..(m + 1) -> X] /\ g[0] = start
    BY <2>1, <2>2
  <2>4. ASSUME NEW i \in 1..(m + 1) PROVE g[i] = step[i][g[i - 1]]
    <3>1. CASE i = m + 1
      BY <3>1
    <3>2. CASE i \in 1..m
      BY <2>1, <3>2
    <3> QED
      BY <3>1, <3>2
  <2> HIDE DEF g
  <2> QED
    BY <2>3, <2>4
<1>3. n \in T
  <2> HIDE DEF Up
  <2>1. 0 \in T
    BY <1>1
  <2>2. ASSUME NEW m \in Nat, m \in T PROVE m + 1 \in T
    BY <1>2, <2>2
  <2> HIDE DEF T
  <2> QED
    BY <2>1, <2>2, Induction
<1> QED
  BY <1>3 DEF Steps

\* What is made of them is made in one way only.
LEMMA RecursionOnce ==
  ASSUME NEW n \in Nat, NEW start, NEW step,
         NEW f, Steps(f, n, start, step), NEW g, Steps(g, n, start, step)
  PROVE  \A i \in 0..n : f[i] = g[i]
<1> DEFINE T == {i \in Nat : i <= n => f[i] = g[i]}
<1>1. 0 \in T
  BY DEF Steps
<1>2. ASSUME NEW i \in Nat, i \in T PROVE i + 1 \in T
  <2> SUFFICES ASSUME i + 1 <= n PROVE f[i + 1] = g[i + 1]
    OBVIOUS
  <2>1. i + 1 \in 1..n /\ (i + 1) - 1 = i /\ f[i] = g[i]
    BY <1>2
  <2>2. f[i + 1] = step[i + 1][f[i]] /\ g[i + 1] = step[i + 1][g[i]]
    BY <2>1 DEF Steps
  <2> QED
    BY <2>1, <2>2
<1>3. \A i \in Nat : i \in T
  <2> HIDE DEF T
  <2> QED
    BY <1>1, <1>2, Induction
<1> QED
  BY <1>3

\* FlattenSeq as such a recursion.
LEMMA Flattened ==
  ASSUME NEW S, NEW seqs \in Seq(Seq(S))
  PROVE  \E f \in [0..Len(seqs) -> Seq(S)] :
            /\ f[0] = <<>> /\ \A i \in 1..Len(seqs) : f[i] = f[i - 1] \o seqs[i]
            /\ FlattenSeq(seqs) = f[Len(seqs)]
<1> DEFINE n == Len(seqs)
           X == Seq(S)
           step == [i \in 1..n |-> [x \in X |-> x \o seqs[i]]]
           Is(f) == f = [i \in 1..n |-> IF i = 1 THEN seqs[i] ELSE f[i - 1] \o seqs[i]]
           h == CHOOSE f : Is(f)
<1>0. n \in Nat /\ \A i \in 1..n : seqs[i] \in X
  OBVIOUS
<1>1. step \in [1..n -> [X -> X]] /\ <<>> \in X
  OBVIOUS
<1>2. \A i \in 1..n : \A x \in X : step[i][x] = x \o seqs[i]
  OBVIOUS
<1> HIDE DEF step
<1>3. PICK f \in [0..n -> X] : f[0] = <<>> /\ \A i \in 1..n : f[i] = step[i][f[i - 1]]
  <2>1. \E f \in [0..n -> X] : Steps(f, n, <<>>, step)
    <3> HIDE DEF X, n, h
    <3> QED
      BY <1>0, <1>1, Recursion
  <2> QED
    BY <2>1 DEF Steps
<1>4. \A i \in 1..n : f[i - 1] \in X /\ f[i] = f[i - 1] \o seqs[i]
  <2> HIDE DEF X, Is, h, n
  <2>1. \A i \in 1..n : i - 1 \in 0..n
    BY <1>0
  <2>2. \A i \in 1..n : f[i - 1] \in X
    BY <2>1
  <2> QED
    BY <1>2, <1>3, <2>2
<1>5. CASE n = 0
  BY <1>3, <1>4, <1>5 DEF FlattenSeq
<1>6. CASE n # 0
  <2> DEFINE k == [i \in 1..n |-> f[i]]
  <2>1. n >= 1 /\ 1 \in 1..n /\ \A i \in 1..n : i # 1 => i - 1 \in 1..n
    BY <1>0, <1>6
  <2>2. f[1] = seqs[1]
    <3>1. f[1] = f[0] \o seqs[1] /\ seqs[1] \in Seq(S)
      BY <1>0, <1>4, <2>1, 1 - 1 = 0
    <3> QED
      BY <1>3, <3>1
  <2>3. Is(k)
    <3>1. ASSUME NEW i \in 1..n
          PROVE  k[i] = IF i = 1 THEN seqs[i] ELSE k[i - 1] \o seqs[i]
      BY <1>4, <2>1, <2>2
    <3> QED
      BY <3>1
  <2>4. Is(h)
    <3> HIDE DEF k
    <3> QED
      BY <2>3
  <2> DEFINE g == [i \in 0..n |-> IF i = 0 THEN <<>> ELSE h[i]]
  <2>5. \A i \in 1..n : h[i] = IF i = 1 THEN seqs[i] ELSE h[i - 1] \o seqs[i]
    <3> HIDE DEF h
    <3> QED
      BY <2>4
  <2> DEFINE T == {i \in Nat : i \in 1..n => h[i] = f[i]}
  <2>6. \A i \in Nat : i \in T
    <3> HIDE DEF h
    <3>1. 0 \in T
      OBVIOUS
    <3>2. ASSUME NEW i \in Nat, i \in T PROVE i + 1 \in T
      <4> SUFFICES ASSUME i + 1 \in 1..n PROVE h[i + 1] = f[i + 1]
        OBVIOUS
      <4>1. (i + 1) - 1 = i
        OBVIOUS
      <4>2. CASE i = 0
        BY <2>2, <2>5, <4>2
      <4>3. CASE i # 0
        <5>1. h[i] = f[i]
          BY <3>2, <4>3
        <5>2. h[i + 1] = h[i] \o seqs[i + 1]
          BY <2>5, <4>1, <4>3, i + 1 # 1
        <5>3. f[i + 1] = f[i] \o seqs[i + 1]
          BY <1>4, <4>1
        <5> QED
          BY <5>1, <5>2, <5>3
      <4> QED
        BY <4>2, <4>3
    <3> HIDE DEF T
    <3> QED
      BY <3>1, <3>2, Induction
  <2>7. h[n] = f[n]
    <3> HIDE DEF h
    <3> QED
      BY <2>1, <2>6
  <2>8. FlattenSeq(seqs) = h[n]
    BY <1>6 DEF FlattenSeq
  <2> HIDE DEF h
  <2> QED
    BY <1>3, <1>4, <2>7, <2>8
<1> QED
  BY <1>5, <1>6

\* No list gives no element.
LEMMA FlattenEmpty == FlattenSeq(<<>>) = <<>>
  BY DEF FlattenSeq

\* Lists one after the other are a list.
LEMMA FlattenIsList ==
  ASSUME NEW S, NEW seqs \in Seq(Seq(S))
  PROVE  FlattenSeq(seqs) \in Seq(S)
<1>1. PICK f \in [0..Len(seqs) -> Seq(S)] : FlattenSeq(seqs) = f[Len(seqs)]
  BY Flattened
<1>2. Len(seqs) \in 0..Len(seqs)
  OBVIOUS
<1> QED
  BY <1>1, <1>2

\* The last list comes last.
LEMMA FlattenAppend ==
  ASSUME NEW S, NEW seqs \in Seq(Seq(S)), NEW s \in Seq(S)
  PROVE  FlattenSeq(Append(seqs, s)) = FlattenSeq(seqs) \o s
<1> DEFINE n == Len(seqs)
           X == Seq(S)
           more == Append(seqs, s)
           step == [i \in 1..n |-> [x \in X |-> x \o seqs[i]]]
<1>2. /\ more \in Seq(Seq(S)) /\ Len(more) = n + 1 /\ n \in Nat
      /\ more[n + 1] = s /\ \A i \in 1..n : more[i] = seqs[i]
  OBVIOUS
<1>3. step \in [1..n -> [X -> X]] /\ <<>> \in X
  OBVIOUS
<1>4. \A i \in 1..n : \A x \in X : step[i][x] = x \o seqs[i]
  OBVIOUS
<1> HIDE DEF step, more
<1>5. PICK f \in [0..n -> X] : /\ f[0] = <<>> /\ \A i \in 1..n : f[i] = f[i - 1] \o seqs[i]
                               /\ FlattenSeq(seqs) = f[n]
  BY Flattened
<1>6. PICK g \in [0..(n + 1) -> X] :
         /\ g[0] = <<>> /\ \A i \in 1..(n + 1) : g[i] = g[i - 1] \o more[i]
         /\ FlattenSeq(more) = g[n + 1]
  <2>1. \E g \in [0..Len(more) -> Seq(S)] :
           /\ g[0] = <<>> /\ \A i \in 1..Len(more) : g[i] = g[i - 1] \o more[i]
           /\ FlattenSeq(more) = g[Len(more)]
    BY <1>2, Flattened
  <2> HIDE DEF n
  <2> QED
    BY <1>2, <2>1
<1> HIDE DEF X, n
<1>0. \A i \in 1..n : i \in 1..(n + 1) /\ i - 1 \in 0..n /\ i - 1 \in 0..(n + 1)
  BY <1>2
<1>01. \A i \in 1..n : f[i - 1] \in X /\ g[i - 1] \in X
  BY <1>0
<1>7. \A i \in 1..n : f[i] = step[i][f[i - 1]]
  BY <1>01, <1>4, <1>5
<1>8. \A i \in 1..n : g[i] = step[i][g[i - 1]]
  BY <1>2, <1>0, <1>01, <1>4, <1>6, ZenonT(60)
<1>9. f[n] = g[n]
  <2>1. Steps(f, n, <<>>, step) /\ Steps(g, n, <<>>, step)
    BY <1>5, <1>6, <1>7, <1>8 DEF Steps
  <2>2. n \in Nat
    BY <1>2
  <2>3. \A i \in 0..n : f[i] = g[i]
    BY <2>1, <2>2, RecursionOnce
  <2> QED
    BY <2>2, <2>3
<1>10. g[n + 1] = g[n] \o s
  <2>1. n + 1 \in 1..(n + 1) /\ (n + 1) - 1 = n
    BY <1>2
  <2>2. g[n + 1] = g[(n + 1) - 1] \o more[n + 1]
    BY <1>6, <2>1
  <2> QED
    BY <1>2, <2>1, <2>2
<1>11. f[n] \in X
  BY <1>2, <1>5
<1> QED
  BY <1>5, <1>6, <1>9, <1>10, <1>11 DEF X, more

\* f[i] is what is kept of the first i.
Keeps(f, list, set) ==
    /\ f[0] = <<>>
    /\ \A i \in 1..Len(list) :
         f[i] = IF list[i] \in set THEN Append(f[i - 1], list[i]) ELSE f[i - 1]

\* Filtered as such a recursion.
LEMMA FilteredSteps ==
  ASSUME NEW S, NEW list \in Seq(S), NEW set
  PROVE  \E f \in [0..Len(list) -> Seq(S)] :
            Keeps(f, list, set) /\ Filtered(list, set) = f[Len(list)]
<1> DEFINE n == Len(list)
           X == Seq(S)
           step == [i \in 1..n |-> [x \in X |-> IF list[i] \in set THEN Append(x, list[i]) ELSE x]]
           Is(f) == f = [i \in 0..n |-> IF i = 0 THEN <<>>
                                        ELSE IF list[i] \in set THEN Append(f[i - 1], list[i])
                                             ELSE f[i - 1]]
           h == CHOOSE f : Is(f)
<1>0. n \in Nat /\ \A i \in 1..n : list[i] \in S
  OBVIOUS
<1>1. step \in [1..n -> [X -> X]] /\ <<>> \in X
  OBVIOUS
<1>2. \A i \in 1..n : \A x \in X :
        step[i][x] = IF list[i] \in set THEN Append(x, list[i]) ELSE x
  OBVIOUS
<1> HIDE DEF step
<1>3. PICK f \in [0..n -> X] : f[0] = <<>> /\ \A i \in 1..n : f[i] = step[i][f[i - 1]]
  <2>1. \E f \in [0..n -> X] : Steps(f, n, <<>>, step)
    <3> HIDE DEF X, n, h
    <3> QED
      BY <1>0, <1>1, Recursion
  <2> QED
    BY <2>1 DEF Steps
<1>4. \A i \in 1..n : /\ f[i - 1] \in X
                      /\ f[i] = IF list[i] \in set THEN Append(f[i - 1], list[i]) ELSE f[i - 1]
  <2> HIDE DEF X, Is, h, n
  <2>1. \A i \in 1..n : i - 1 \in 0..n
    BY <1>0
  <2>2. \A i \in 1..n : f[i - 1] \in X
    BY <2>1
  <2> QED
    BY <1>2, <1>3, <2>2
<1>5. Is(f)
  <2>1. ASSUME NEW i \in 0..n
        PROVE  f[i] = IF i = 0 THEN <<>>
                      ELSE IF list[i] \in set THEN Append(f[i - 1], list[i]) ELSE f[i - 1]
    <3> HIDE DEF X, n, h, Is
    <3>1. i # 0 => i \in 1..n
      BY <1>0
    <3> QED
      BY <1>3, <1>4, <3>1
  <2> HIDE DEF X, n, h
  <2> QED
    BY <1>3, <2>1
<1>6. Is(h)
  <2> HIDE DEF Is
  <2> QED
    BY <1>5
<1>7. \A i \in 0..n : h[i] = IF i = 0 THEN <<>>
                             ELSE IF list[i] \in set THEN Append(h[i - 1], list[i]) ELSE h[i - 1]
  <2> HIDE DEF h, n
  <2> QED
    BY <1>6
<1>8. Filtered(list, set) = h[n]
  BY DEF Filtered
<1> DEFINE T == {i \in Nat : i <= n => h[i] = f[i]}
<1>9. \A i \in Nat : i \in T
  <2> HIDE DEF h, n, X, Is
  <2>1. 0 \in T
    BY <1>0, <1>3, <1>7
  <2>2. ASSUME NEW i \in Nat, i \in T PROVE i + 1 \in T
    <3> SUFFICES ASSUME i + 1 <= n PROVE h[i + 1] = f[i + 1]
      OBVIOUS
    <3>1. i + 1 \in 1..n /\ i + 1 \in 0..n /\ i + 1 # 0 /\ (i + 1) - 1 = i /\ h[i] = f[i]
      BY <1>0, <2>2
    <3> QED
      BY <1>4, <1>7, <3>1
  <2> HIDE DEF T
  <2> QED
    BY <2>1, <2>2, Induction
<1> HIDE DEF h, n, Is, X
<1>10. h[n] = f[n]
  BY <1>0, <1>9
<1> QED
  BY <1>3, <1>4, <1>8, <1>10 DEF n, X, Keeps

\* Nothing is left of nothing.
LEMMA FilteredEmpty ==
  ASSUME NEW set
  PROVE  Filtered(<<>>, set) = <<>>
<1>1. PICK none : none = <<>>
  OBVIOUS
<1>2. none \in Seq({}) /\ Len(none) = 0
  BY <1>1
<1>3. \E f : Keeps(f, none, set) /\ Filtered(none, set) = f[Len(none)]
  BY <1>2, FilteredSteps
<1> QED
  BY <1>1, <1>2, <1>3 DEF Keeps

\* What is left of a list is a list.
LEMMA FilteredIsList ==
  ASSUME NEW S, NEW list \in Seq(S), NEW set
  PROVE  Filtered(list, set) \in Seq(S)
<1>1. PICK f \in [0..Len(list) -> Seq(S)] : Keeps(f, list, set) /\ Filtered(list, set) = f[Len(list)]
  BY FilteredSteps
<1>2. Len(list) \in 0..Len(list)
  OBVIOUS
<1> QED
  BY <1>1, <1>2

\* The last one is filtered last.
LEMMA FilteredAppend ==
  ASSUME NEW S, NEW list \in Seq(S), NEW e \in S, NEW set
  PROVE  Filtered(Append(list, e), set)
              = IF e \in set THEN Append(Filtered(list, set), e) ELSE Filtered(list, set)
<1> DEFINE n == Len(list)
           X == Seq(S)
           more == Append(list, e)
           step == [i \in 1..n |-> [x \in X |-> IF list[i] \in set THEN Append(x, list[i]) ELSE x]]
<1>2. /\ more \in Seq(S) /\ Len(more) = n + 1 /\ n \in Nat
      /\ more[n + 1] = e /\ \A i \in 1..n : more[i] = list[i]
  OBVIOUS
<1>4. \A i \in 1..n : \A x \in X :
        step[i][x] = IF list[i] \in set THEN Append(x, list[i]) ELSE x
  OBVIOUS
<1> HIDE DEF step, more
<1>5. PICK f \in [0..n -> X] :
         /\ f[0] = <<>>
         /\ \A i \in 1..n : f[i] = IF list[i] \in set THEN Append(f[i - 1], list[i]) ELSE f[i - 1]
         /\ Filtered(list, set) = f[n]
  <2>1. \E f \in [0..n -> X] : Keeps(f, list, set) /\ Filtered(list, set) = f[n]
    BY FilteredSteps
  <2> QED
    BY <2>1 DEF Keeps
<1>6. PICK g \in [0..(n + 1) -> X] :
         /\ g[0] = <<>>
         /\ \A i \in 1..(n + 1) :
              g[i] = IF more[i] \in set THEN Append(g[i - 1], more[i]) ELSE g[i - 1]
         /\ Filtered(more, set) = g[n + 1]
  <2>1. \E g \in [0..Len(more) -> Seq(S)] :
           Keeps(g, more, set) /\ Filtered(more, set) = g[Len(more)]
    BY <1>2, FilteredSteps
  <2> HIDE DEF n
  <2> QED
    BY <1>2, <2>1 DEF Keeps
<1> HIDE DEF X, n
<1>0. \A i \in 1..n : i \in 1..(n + 1) /\ i - 1 \in 0..n /\ i - 1 \in 0..(n + 1)
  BY <1>2
<1>01. \A i \in 1..n : f[i - 1] \in X /\ g[i - 1] \in X
  BY <1>0
<1>7. \A i \in 1..n : f[i] = step[i][f[i - 1]]
  BY <1>01, <1>4, <1>5
<1>8. \A i \in 1..n : g[i] = step[i][g[i - 1]]
  BY <1>2, <1>0, <1>01, <1>4, <1>6
<1>9. f[n] = g[n]
  <2>1. Steps(f, n, <<>>, step) /\ Steps(g, n, <<>>, step)
    BY <1>5, <1>6, <1>7, <1>8 DEF Steps
  <2>2. n \in Nat
    BY <1>2
  <2>3. \A i \in 0..n : f[i] = g[i]
    BY <2>1, <2>2, RecursionOnce
  <2> QED
    BY <2>2, <2>3
<1>10. g[n + 1] = IF e \in set THEN Append(g[n], e) ELSE g[n]
  <2>1. n + 1 \in 1..(n + 1) /\ (n + 1) - 1 = n
    BY <1>2
  <2> QED
    BY <1>2, <1>6, <2>1
<1>11. f[n] \in X
  BY <1>2, <1>5
<1> QED
  BY <1>5, <1>6, <1>9, <1>10, <1>11 DEF X, more

\* What holds of the empty list, and of a list with one more when it holds of the list.
LEMMA ListInduction ==
  ASSUME NEW S, NEW T, <<>> \in T, \A s \in Seq(S), e \in S : s \in T => Append(s, e) \in T
  PROVE  \A s \in Seq(S) : s \in T
<1> SUFFICES ASSUME NEW s \in Seq(S) PROVE s \in T
  OBVIOUS
<1> DEFINE U == {i \in Nat : i <= Len(s) => SubSeq(s, 1, i) \in T}
<1>1. 0 \in U
  <2>1. SubSeq(s, 1, 0) = <<>>
    OBVIOUS
  <2> QED
    BY <2>1
<1>2. ASSUME NEW i \in Nat, i \in U PROVE i + 1 \in U
  <2> SUFFICES ASSUME i + 1 <= Len(s) PROVE SubSeq(s, 1, i + 1) \in T
    OBVIOUS
  <2>1. SubSeq(s, 1, i) \in Seq(S) /\ s[i + 1] \in S
    OBVIOUS
  <2>2. SubSeq(s, 1, i + 1) = Append(SubSeq(s, 1, i), s[i + 1])
    OBVIOUS
  <2>3. SubSeq(s, 1, i) \in T
    BY <1>2
  <2> QED
    BY <2>1, <2>2, <2>3
<1>3. \A i \in Nat : i \in U
  <2> HIDE DEF U
  <2> QED
    BY <1>1, <1>2, Induction
<1>4. PICK n : n = Len(s)
  OBVIOUS
<1>5. n \in Nat /\ n <= Len(s) /\ SubSeq(s, 1, n) = s
  BY <1>4
<1>6. SubSeq(s, 1, n) \in T
  BY <1>3, <1>5
<1> QED
  BY <1>5, <1>6

\* One list after the other is filtered one after the other.
LEMMA FilteredConcat ==
  ASSUME NEW S, NEW a \in Seq(S), NEW b \in Seq(S), NEW set
  PROVE  Filtered(a \o b, set) = Filtered(a, set) \o Filtered(b, set)
<1> DEFINE T == {s \in Seq(S) : Filtered(a \o s, set) = Filtered(a, set) \o Filtered(s, set)}
<1>0. Filtered(a, set) \in Seq(S)
  BY FilteredIsList
<1>1. <<>> \in T
  <2>1. a \o <<>> = a /\ Filtered(a, set) \o <<>> = Filtered(a, set) /\ <<>> \in Seq(S)
    BY <1>0
  <2> QED
    BY <2>1, FilteredEmpty
<1>2. ASSUME NEW s \in Seq(S), NEW e \in S, s \in T PROVE Append(s, e) \in T
  <2> DEFINE fa == Filtered(a, set)
             fs == Filtered(s, set)
  <2>1. Filtered(a \o s, set) = fa \o fs
    BY <1>2
  <2>2. fs \in Seq(S) /\ fa \in Seq(S)
    BY <1>0, FilteredIsList
  <2>3. PICK c : c = a \o s
    OBVIOUS
  <2>4. c \in Seq(S) /\ a \o Append(s, e) = Append(c, e) /\ Append(s, e) \in Seq(S)
    BY <2>3
  <2>5. Filtered(Append(c, e), set)
          = IF e \in set THEN Append(Filtered(c, set), e) ELSE Filtered(c, set)
    <3>1. c \in Seq(S)
      BY <2>4
    <3> QED
      BY <3>1, FilteredAppend
  <2>9. Filtered(Append(s, e), set) = IF e \in set THEN Append(fs, e) ELSE fs
    BY FilteredAppend
  <2>6. Filtered(c, set) = fa \o fs
    BY <2>1, <2>3
  <2>7. Append(fa \o fs, e) = fa \o Append(fs, e)
    <3>1. PICK f, g, h : f = fa /\ g = fs /\ h = f \o g
      OBVIOUS
    <3>2. f \in Seq(S) /\ g \in Seq(S) /\ h \in Seq(S) /\ <<e>> \in Seq(S)
      BY <2>2, <3>1
    <3>3. Append(h, e) = h \o <<e>> /\ Append(g, e) = g \o <<e>>
      BY <3>2, AppendIsConcat
    <3>4. h \o <<e>> = f \o (g \o <<e>>)
      BY <3>1, <3>2, ConcatAssociative, SMTT(60)
    <3> QED
      BY <3>1, <3>3, <3>4
  <2>8. Filtered(Append(c, e), set) = fa \o Filtered(Append(s, e), set)
    <3> HIDE DEF fa, fs
    <3> QED
      BY <2>5, <2>6, <2>7, <2>9
  <2> QED
    BY <2>4, <2>8
<1>3. \A s \in Seq(S) : s \in T
  <2> HIDE DEF T
  <2> QED
    BY <1>1, <1>2, ListInduction
<1> QED
  BY <1>3

\* A list of which everything is wanted, and one of which nothing is.
LEMMA FilteredAll ==
  ASSUME NEW S, NEW list \in Seq(S), NEW set
  PROVE  /\ S \subseteq set => Filtered(list, set) = list
         /\ S \cap set = {} => Filtered(list, set) = <<>>
<1> DEFINE T == {s \in Seq(S) : /\ S \subseteq set => Filtered(s, set) = s
                                /\ S \cap set = {} => Filtered(s, set) = <<>>}
<1>1. <<>> \in T
  <2>1. <<>> \in Seq(S)
    OBVIOUS
  <2> QED
    BY <2>1, FilteredEmpty
<1>2. ASSUME NEW s \in Seq(S), NEW e \in S, s \in T PROVE Append(s, e) \in T
  <2>1. Filtered(Append(s, e), set)
          = IF e \in set THEN Append(Filtered(s, set), e) ELSE Filtered(s, set)
    BY FilteredAppend
  <2>2. Append(s, e) \in Seq(S)
    OBVIOUS
  <2> QED
    BY <1>2, <2>1, <2>2
<1>3. \A s \in Seq(S) : s \in T
  <2> HIDE DEF T
  <2> QED
    BY <1>1, <1>2, ListInduction
<1> QED
  BY <1>3

-----------------------------------------------------------------------------
(* The servers of a list of sources *)

\* The ids of the servers of a list of sources, as they are listed and as a set.
Listed(list) == IdsOf(Servers(list))
IdsIn(list) == {n.id : n \in ServersOf(list)}

\* Sources that may be in a list, and all servers they have.
Sources(S) == \A s \in S : s.content \in Subscriptions
AllServers(S) == UNION {ToSet(Prepared(s)) : s \in S}

\* The servers of a source.
LEMMA PreparedIsList ==
  ASSUME NEW s, s.content \in Subscriptions
  PROVE  /\ Prepared(s) \in Seq(ToSet(Prepared(s)))
         /\ Len(Prepared(s)) = Len(s.content) /\ Len(s.content) \in Nat
         /\ ToSet(Prepared(s)) = {Prepared(s)[i] : i \in 1..Len(s.content)}
<1>1. Len(s.content) \in Nat
  BY SubscriptionsAssumption
<1>2. PICK p : p = Prepared(s)
  OBVIOUS
<1>3. p = [i \in 1..Len(s.content) |-> p[i]] /\ DOMAIN p = 1..Len(s.content)
  BY <1>2 DEF Prepared
<1>4. p \in Seq(ToSet(p)) /\ Len(p) = Len(s.content)
  BY <1>1, <1>3 DEF ToSet
<1>5. ToSet(p) = {p[i] : i \in 1..Len(s.content)}
  BY <1>3 DEF ToSet
<1> QED
  BY <1>1, <1>2, <1>4, <1>5

\* The servers of no source, and of a list with one more.
LEMMA ServersEmpty == Servers(<<>>) = <<>> /\ ServersOf(<<>>) = {}
<1>1. ServersOf(<<>>) = {}
  BY DEF ServersOf
<1>2. [i \in 1..Len(<<>>) |-> Prepared(<<>>[i])] = <<>>
  OBVIOUS
<1>3. Servers(<<>>) = FlattenSeq([i \in 1..Len(<<>>) |-> Prepared(<<>>[i])])
  BY DEF Servers
<1>4. Servers(<<>>) = FlattenSeq(<<>>)
  BY <1>2, <1>3, Zenon
<1> QED
  BY <1>1, <1>4, FlattenEmpty, Zenon

\* The servers of sources of S are servers of S.
LEMMA ServersIsList ==
  ASSUME NEW S, Sources(S), NEW list \in Seq(S)
  PROVE  Servers(list) \in Seq(AllServers(S))
<1>1. PICK p : p = [i \in 1..Len(list) |-> Prepared(list[i])]
  OBVIOUS
<1>2. ASSUME NEW i \in 1..Len(list) PROVE p[i] \in Seq(AllServers(S))
  <2>1. list[i] \in S
    OBVIOUS
  <2>2. p[i] = Prepared(list[i])
    BY <1>1
  <2>3. Prepared(list[i]) \in Seq(ToSet(Prepared(list[i])))
    BY <2>1, PreparedIsList DEF Sources
  <2>4. ToSet(Prepared(list[i])) \subseteq AllServers(S)
    BY <2>1 DEF AllServers
  <2> QED
    BY <2>2, <2>3, <2>4, SeqMonotonic
<1>3. p \in Seq(Seq(AllServers(S)))
  <2>1. p \in [1..Len(list) -> Seq(AllServers(S))] /\ Len(list) \in Nat
    BY <1>1, <1>2
  <2> QED
    BY <2>1
<1>4. FlattenSeq(p) \in Seq(AllServers(S))
  BY <1>3, FlattenIsList
<1> QED
  BY <1>1, <1>4 DEF Servers

\* The servers of one more source come last.
LEMMA ServersAppend ==
  ASSUME NEW S, Sources(S), NEW list \in Seq(S), NEW s \in S
  PROVE  Servers(Append(list, s)) = Servers(list) \o Prepared(s)
<1>1. PICK p, q, m, t : /\ p = [i \in 1..Len(list) |-> Prepared(list[i])]
                        /\ m = Append(list, s) /\ t = Prepared(s)
                        /\ q = [i \in 1..Len(m) |-> Prepared(m[i])]
  OBVIOUS
<1>2. p \in Seq(Seq(AllServers(S))) /\ t \in Seq(AllServers(S))
  <2>1. ASSUME NEW r \in S PROVE Prepared(r) \in Seq(AllServers(S))
    <3>1. Prepared(r) \in Seq(ToSet(Prepared(r)))
      BY PreparedIsList DEF Sources
    <3>2. ToSet(Prepared(r)) \subseteq AllServers(S)
      BY DEF AllServers
    <3> QED
      BY <3>1, <3>2, SeqMonotonic
  <2>2. p \in [1..Len(list) -> Seq(AllServers(S))] /\ Len(list) \in Nat
    BY <1>1, <2>1
  <2> QED
    BY <1>1, <2>1, <2>2
<1>3. /\ Len(m) = Len(list) + 1 /\ Len(list) \in Nat /\ m[Len(list) + 1] = s
      /\ \A i \in 1..Len(list) : m[i] = list[i]
  BY <1>1
<1>4. q = Append(p, t)
  <2>1. Len(p) = Len(list) /\ DOMAIN q = 1..(Len(list) + 1)
    BY <1>1, <1>3
  <2>2. \A i \in 1..(Len(list) + 1) : q[i] = IF i <= Len(list) THEN p[i] ELSE t
    BY <1>1, <1>3
  <2>3. /\ DOMAIN Append(p, t) = 1..(Len(list) + 1)
        /\ \A i \in 1..(Len(list) + 1) : Append(p, t)[i] = IF i <= Len(list) THEN p[i] ELSE t
    BY <1>2, <1>3, <2>1
  <2>4. q = [i \in 1..(Len(list) + 1) |-> q[i]] /\ Append(p, t) = [i \in 1..(Len(list) + 1) |-> Append(p, t)[i]]
    BY <1>1, <1>2, <1>3, <2>1, <2>3
  <2> QED
    BY <2>2, <2>3, <2>4
<1>5. FlattenSeq(Append(p, t)) = FlattenSeq(p) \o t
  BY <1>2, FlattenAppend
<1>6. Servers(m) = FlattenSeq(q) /\ Servers(list) = FlattenSeq(p)
  BY <1>1 DEF Servers
<1> QED
  BY <1>1, <1>4, <1>5, <1>6, Zenon

\* The servers of one list of sources after another.
LEMMA ServersConcat ==
  ASSUME NEW S, Sources(S), NEW a \in Seq(S), NEW b \in Seq(S)
  PROVE  Servers(a \o b) = Servers(a) \o Servers(b)
<1> DEFINE T == {l \in Seq(S) : Servers(a \o l) = Servers(a) \o Servers(l)}
<1>0. \A l \in Seq(S) : Servers(l) \in Seq(AllServers(S))
  BY ServersIsList
<1>1. <<>> \in T
  <2>1. a \o <<>> = a /\ <<>> \in Seq(S)
    OBVIOUS
  <2>2. Servers(a) \o <<>> = Servers(a)
    BY <1>0, ConcatEmptySeq
  <2> QED
    BY <2>1, <2>2, ServersEmpty
<1>2. ASSUME NEW l \in Seq(S), NEW e \in S, l \in T PROVE Append(l, e) \in T
  <2>1. PICK c, d, f, g, h : c = a \o l /\ d = Append(l, e)
                             /\ f = Servers(a) /\ g = Servers(l) /\ h = Prepared(e)
    OBVIOUS
  <2>2. c \in Seq(S) /\ d \in Seq(S) /\ a \o d = Append(c, e)
    BY <2>1
  <2>3. Servers(Append(c, e)) = Servers(c) \o Prepared(e)
    <3>1. c \in Seq(S)
      BY <2>2
    <3> QED
      BY <3>1, ServersAppend
  <2>4. Servers(Append(l, e)) = Servers(l) \o Prepared(e)
    BY ServersAppend
  <2>5. Servers(c) = f \o g
    BY <1>2, <2>1
  <2>6. f \in Seq(AllServers(S)) /\ g \in Seq(AllServers(S)) /\ h \in Seq(AllServers(S))
    <3>1. Prepared(e) \in Seq(ToSet(Prepared(e)))
      BY PreparedIsList DEF Sources
    <3>2. ToSet(Prepared(e)) \subseteq AllServers(S)
      BY DEF AllServers
    <3> QED
      BY <1>0, <2>1, <3>1, <3>2, SeqMonotonic
  <2>7. (f \o g) \o h = f \o (g \o h)
    BY <2>6, ConcatAssociative
  <2>8. Servers(a \o d) = Servers(a) \o Servers(d)
    <3> HIDE DEF T
    <3>1. Servers(a \o d) = (f \o g) \o h
      BY <2>1, <2>2, <2>3, <2>5, Zenon
    <3>2. Servers(d) = g \o h
      BY <2>1, <2>4, Zenon
    <3> QED
      BY <2>1, <2>7, <3>1, <3>2, Zenon
  <2> QED
    BY <2>1, <2>2, <2>8
<1>3. \A l \in Seq(S) : l \in T
  <2> HIDE DEF T
  <2> QED
    BY <1>1, <1>2, ListInduction
<1> QED
  BY <1>3

\* The servers of one source.
LEMMA ServersOfOne ==
  ASSUME NEW S, Sources(S), NEW s \in S
  PROVE  Servers(<<s>>) = Prepared(s)
<1>1. PICK none : none = <<>>
  OBVIOUS
<1>2. none \in Seq(S) /\ Append(none, s) = <<s>>
  BY <1>1
<1>3. Servers(Append(none, s)) = Servers(none) \o Prepared(s)
  BY <1>2, ServersAppend
<1>4. Prepared(s) \in Seq(ToSet(Prepared(s)))
  BY PreparedIsList DEF Sources
<1>5. <<>> \o Prepared(s) = Prepared(s)
  BY <1>4, ConcatEmptySeq
<1> QED
  BY <1>1, <1>2, <1>3, <1>5, ServersEmpty, Zenon

\* What is in a list of servers is what the sources have.
LEMMA ServersInList ==
  ASSUME NEW S, Sources(S), NEW list \in Seq(S)
  PROVE  Servers(list) \in Seq(ServersOf(list))
<1>1. list \in Seq(ToSet(list)) /\ ToSet(list) = {list[i] : i \in 1..Len(list)}
  BY DEF ToSet
<1>2. ToSet(list) \subseteq S
  BY <1>1
<1>3. Servers(list) \in Seq(AllServers(ToSet(list)))
  <2>1. PICK R : R = ToSet(list)
    OBVIOUS
  <2>2. Sources(R) /\ list \in Seq(R)
    BY <1>1, <1>2, <2>1 DEF Sources
  <2>3. Servers(list) \in Seq(AllServers(R))
    BY <2>2, ServersIsList
  <2> QED
    BY <2>1, <2>3
<1>4. AllServers(ToSet(list)) = ServersOf(list)
  BY <1>1 DEF AllServers, ServersOf
<1> QED
  BY <1>3, <1>4

\* The servers that two lists have, one after the other.
LEMMA ServersOfConcat ==
  ASSUME NEW S, NEW a \in Seq(S), NEW b \in Seq(S)
  PROVE  ServersOf(a \o b) = ServersOf(a) \cup ServersOf(b)
<1>1. PICK c : c = a \o b
  OBVIOUS
<1>2. /\ Len(c) = Len(a) + Len(b) /\ Len(a) \in Nat /\ Len(b) \in Nat
      /\ \A i \in 1..Len(a) : c[i] = a[i]
      /\ \A i \in 1..Len(b) : c[Len(a) + i] = b[i]
  BY <1>1
<1>3. \A i \in 1..Len(c) : i \in 1..Len(a) \/ \E k \in 1..Len(b) : i = Len(a) + k
  <2> SUFFICES ASSUME NEW i \in 1..Len(c), i \notin 1..Len(a)
               PROVE  \E k \in 1..Len(b) : i = Len(a) + k
    OBVIOUS
  <2>1. i - Len(a) \in 1..Len(b) /\ i = Len(a) + (i - Len(a))
    BY <1>2
  <2> QED
    BY <2>1
<1>4. /\ \A i \in 1..Len(a) : i \in 1..Len(c)
      /\ \A i \in 1..Len(b) : Len(a) + i \in 1..Len(c)
  BY <1>2
<1>5. ServersOf(c) \subseteq ServersOf(a) \cup ServersOf(b)
  <2> SUFFICES ASSUME NEW n \in ServersOf(c) PROVE n \in ServersOf(a) \cup ServersOf(b)
    OBVIOUS
  <2>1. PICK i \in 1..Len(c) : n \in ToSet(Prepared(c[i]))
    BY DEF ServersOf
  <2>2. CASE i \in 1..Len(a)
    BY <1>2, <2>1, <2>2 DEF ServersOf
  <2>3. ASSUME NEW k \in 1..Len(b), i = Len(a) + k PROVE n \in ServersOf(b)
    <3>1. c[i] = b[k]
      BY <1>2, <2>3
    <3> QED
      BY <2>1, <3>1 DEF ServersOf
  <2> QED
    BY <1>3, <2>2, <2>3
<1>6. ServersOf(a) \subseteq ServersOf(c) /\ ServersOf(b) \subseteq ServersOf(c)
  <2>1. ASSUME NEW n \in ServersOf(a) PROVE n \in ServersOf(c)
    <3>1. PICK i \in 1..Len(a) : n \in ToSet(Prepared(a[i]))
      BY DEF ServersOf
    <3> QED
      BY <1>2, <1>4, <3>1 DEF ServersOf
  <2>2. ASSUME NEW n \in ServersOf(b) PROVE n \in ServersOf(c)
    <3>1. PICK i \in 1..Len(b) : n \in ToSet(Prepared(b[i]))
      BY DEF ServersOf
    <3>2. Len(a) + i \in 1..Len(c) /\ c[Len(a) + i] = b[i]
      BY <1>2, <1>4
    <3> QED
      BY <3>1, <3>2 DEF ServersOf
  <2> QED
    BY <2>1, <2>2
<1> QED
  BY <1>1, <1>5, <1>6

\* The ids of one list of servers after another.
LEMMA IdsConcat ==
  ASSUME NEW M, NEW a \in Seq(M), NEW b \in Seq(M)
  PROVE  IdsOf(a \o b) = IdsOf(a) \o IdsOf(b)
<1>1. PICK c, f, g : c = a \o b /\ f = IdsOf(a) /\ g = IdsOf(b)
  OBVIOUS
<1>2. /\ Len(c) = Len(a) + Len(b) /\ Len(a) \in Nat /\ Len(b) \in Nat
      /\ \A i \in 1..(Len(a) + Len(b)) : c[i] = IF i <= Len(a) THEN a[i] ELSE b[i - Len(a)]
  BY <1>1
<1>3. /\ f \in Seq({n.id : n \in M}) /\ Len(f) = Len(a) /\ \A i \in 1..Len(a) : f[i] = a[i].id
      /\ g \in Seq({n.id : n \in M}) /\ Len(g) = Len(b) /\ \A i \in 1..Len(b) : g[i] = b[i].id
  BY <1>1 DEF IdsOf
<1>0. PICK h : h = f \o g
  OBVIOUS
<1>4. /\ h = [i \in 1..(Len(a) + Len(b)) |-> h[i]]
      /\ \A i \in 1..(Len(a) + Len(b)) : h[i] = IF i <= Len(a) THEN f[i] ELSE g[i - Len(a)]
  <2>1. PICK I : I = {n.id : n \in M}
    OBVIOUS
  <2>2. f \in Seq(I) /\ g \in Seq(I) /\ Len(f) = Len(a) /\ Len(g) = Len(b)
    BY <1>3, <2>1
  <2>3. /\ h \in Seq(I) /\ Len(h) = Len(a) + Len(b)
        /\ \A i \in 1..(Len(a) + Len(b)) : h[i] = IF i <= Len(a) THEN f[i] ELSE g[i - Len(a)]
    BY <1>0, <2>2, ConcatProperties
  <2>4. h = [i \in 1..Len(h) |-> h[i]]
    BY <2>3
  <2> QED
    BY <2>3, <2>4
<1>5. IdsOf(c) = [i \in 1..(Len(a) + Len(b)) |-> IdsOf(c)[i]]
      /\ \A i \in 1..(Len(a) + Len(b)) : IdsOf(c)[i] = c[i].id
  BY <1>2 DEF IdsOf
<1>6. ASSUME NEW i \in 1..(Len(a) + Len(b)) PROVE IdsOf(c)[i] = h[i]
  <2>1. CASE i <= Len(a)
    <3>1. i \in 1..Len(a)
      BY <1>2, <2>1
    <3> QED
      BY <1>2, <1>3, <1>4, <1>5, <2>1, <3>1
  <2>2. CASE ~(i <= Len(a))
    <3>1. i - Len(a) \in 1..Len(b)
      BY <1>2, <2>2
    <3> QED
      BY <1>2, <1>3, <1>4, <1>5, <2>2, <3>1, SMTT(60)
  <2> QED
    BY <2>1, <2>2
<1>7. IdsOf(c) = h
  BY <1>4, <1>5, <1>6
<1> QED
  BY <1>0, <1>1, <1>7, Zenon

\* The ids of a list of sources are those of its servers.
LEMMA ListedInList ==
  ASSUME NEW S, Sources(S), NEW list \in Seq(S)
  PROVE  Listed(list) \in Seq(IdsIn(list)) /\ Len(Listed(list)) = Len(Servers(list))
<1>1. PICK l : l = Servers(list)
  OBVIOUS
<1>2. l \in Seq(ServersOf(list))
  BY <1>1, ServersInList
<1>3. IdsOf(l) \in Seq({n.id : n \in ServersOf(list)}) /\ Len(IdsOf(l)) = Len(l)
  BY <1>2 DEF IdsOf
<1> QED
  BY <1>1, <1>3 DEF Listed, IdsIn

\* The ids of two lists of sources, one after the other.
LEMMA ListedConcat ==
  ASSUME NEW S, Sources(S), NEW a \in Seq(S), NEW b \in Seq(S)
  PROVE  Listed(a \o b) = Listed(a) \o Listed(b)
<1>1. PICK c, f, g : c = a \o b /\ f = Servers(a) /\ g = Servers(b)
  OBVIOUS
<1>2. f \in Seq(AllServers(S)) /\ g \in Seq(AllServers(S))
  BY <1>1, ServersIsList
<1>3. Servers(a \o b) = Servers(a) \o Servers(b)
  BY ServersConcat
<1>4. IdsOf(f \o g) = IdsOf(f) \o IdsOf(g)
  BY <1>2, IdsConcat
<1> QED
  BY <1>1, <1>3, <1>4, Zenon DEF Listed

\* A list around one of its places, a and b being what is before and after it.
Splits(list, a, b, p) ==
    LET S == {list[i] : i \in (1..Len(list)) \ {p}} IN
    /\ a \in Seq(S) /\ b \in Seq(S)
    /\ list = (a \o <<list[p]>>) \o b
    /\ RemoveAt(list, p) = a \o b
    /\ \A e : [list EXCEPT ![p] = e] = (a \o <<e>>) \o b

\* There is such a before and after.
LEMMA Around ==
  ASSUME NEW S, NEW list \in Seq(S), NEW p \in 1..Len(list)
  PROVE  \E a, b : Splits(list, a, b, p)
<1> DEFINE a == SubSeq(list, 1, p - 1)
           b == SubSeq(list, p + 1, Len(list))
           R == {list[i] : i \in (1..Len(list)) \ {p}}
<1>1. /\ a \in Seq(R) /\ Len(a) = p - 1 /\ \A i \in 1..(p - 1) : a[i] = list[i]
      /\ b \in Seq(R) /\ Len(b) = Len(list) - p /\ \A i \in 1..(Len(list) - p) : b[i] = list[p + i]
  <2>1. p \in Nat /\ Len(list) \in Nat /\ 1 <= p /\ p <= Len(list)
    OBVIOUS
  <2>2. \A i \in 1..(p - 1) : list[i] \in R
    BY <2>1
  <2>3. \A i \in (p + 1)..Len(list) : list[i] \in R
    BY <2>1
  <2> HIDE DEF R
  <2>4. a \in Seq(R) /\ Len(a) = p - 1 /\ \A i \in 1..(p - 1) : a[i] = list[i]
    BY <2>1, <2>2
  <2>5. b \in Seq(R) /\ Len(b) = Len(list) - p /\ \A i \in 1..(Len(list) - p) : b[i] = list[p + i]
    BY <2>1, <2>3
  <2> QED
    BY <2>4, <2>5
<1>2. RemoveAt(list, p) = a \o b
  BY DEF RemoveAt
<1>3. ASSUME NEW e PROVE [list EXCEPT ![p] = e] = (a \o <<e>>) \o b
  <2> DEFINE W == R \cup {e}
  <2>0. Len(list) \in Nat /\ p \in Nat /\ 1 <= p /\ p <= Len(list)
    OBVIOUS
  <2>1. a \in Seq(W) /\ b \in Seq(W) /\ <<e>> \in Seq(W)
    <3> HIDE DEF a, b, R
    <3> QED
      BY <1>1, SeqMonotonic
  <2> HIDE DEF a, b, R, W
  <2>2. PICK c : c = a \o <<e>>
    OBVIOUS
  <2>3. c \in Seq(W) /\ Len(c) = p /\ \A i \in 1..p : c[i] = IF i < p THEN list[i] ELSE e
    BY <1>1, <2>0, <2>1, <2>2
  <2>4. PICK d : d = c \o b
    OBVIOUS
  <2>5. /\ Len(d) = Len(list) /\ d = [i \in 1..Len(list) |-> d[i]]
        /\ \A i \in 1..Len(list) : d[i] = IF i <= p THEN c[i] ELSE b[i - p]
    <3>1. Len(c) = p /\ Len(b) = Len(list) - p /\ Len(c) + Len(b) = Len(list)
      BY <1>1, <2>0, <2>3
    <3>2. /\ d \in Seq(W) /\ Len(d) = Len(c) + Len(b)
          /\ \A i \in 1..(Len(c) + Len(b)) : d[i] = IF i <= Len(c) THEN c[i] ELSE b[i - Len(c)]
      BY <2>1, <2>3, <2>4, ConcatProperties
    <3>3. d = [i \in 1..Len(d) |-> d[i]]
      BY <3>2
    <3> QED
      BY <3>1, <3>2, <3>3
  <2>6. \A i \in 1..Len(list) : d[i] = IF i = p THEN e ELSE list[i]
    <3> SUFFICES ASSUME NEW i \in 1..Len(list) PROVE d[i] = IF i = p THEN e ELSE list[i]
      OBVIOUS
    <3>1. CASE i <= p
      BY <2>0, <2>3, <2>5, <3>1
    <3>2. CASE i > p
      <4>1. i - p \in 1..(Len(list) - p) /\ p + (i - p) = i
        BY <2>0, <3>2
      <4> QED
        BY <1>1, <2>0, <2>5, <3>2, <4>1
    <3> QED
      BY <2>0, <3>1, <3>2
  <2>7. [list EXCEPT ![p] = e] = d
    BY <2>5, <2>6
  <2> QED
    BY <2>2, <2>4, <2>7
<1>4. [list EXCEPT ![p] = list[p]] = list
  OBVIOUS
<1>5. list = (a \o <<list[p]>>) \o b
  <2> HIDE DEF a, b
  <2> QED
    BY <1>3, <1>4
<1> HIDE DEF a, b
<1> QED
  BY <1>1, <1>2, <1>3, <1>5 DEF Splits

\* A source that may be stored: it has servers, and each has an id of its own.
Distinct(s) ==
    /\ s.content # <<>>
    /\ \A i, k \in 1..Len(s.content) : NodeId(s, i) = NodeId(s, k) => i = k

\* A list of such sources.
Apart(list) == \A i \in 1..Len(list) : Distinct(list[i])

\* The part of ListOK that is not about what has been drawn or removed.
Owned(list) ==
    /\ list \in Seq(ToSet(list))
    /\ \A i \in 1..Len(list) :
         /\ list[i].revision \in Nat /\ list[i].content \in Subscriptions
         /\ \A k \in 1..Len(list[i].content) : Own(NodeId(list[i], k), list[i].id, list[i].revision)
    /\ \A i, k \in 1..Len(list) : list[i].id = list[k].id => i = k

\* Servers of which no two have the same id.
Unique(servers) == \A m, n \in servers : m.id = n.id => m = n

\* What may be stored is such a list.
LEMMA OwnedList ==
  ASSUME NEW list, ListOK(list)
  PROVE  Owned(list) /\ Sources(ToSet(list)) /\ list \in Seq(ToSet(list))
<1>1. Owned(list)
  BY DEF ListOK, SourceOK, Owned
<1>2. ToSet(list) = {list[i] : i \in 1..Len(list)}
  BY <1>1 DEF Owned, ToSet
<1> QED
  BY <1>1, <1>2 DEF Owned, Sources

\* A server of a source: which it is, and that its id says so.
LEMMA OfSource ==
  ASSUME NEW s, s.content \in Subscriptions, NEW n \in ToSet(Prepared(s))
  PROVE  \E k \in 1..Len(s.content) :
            n = [id |-> NodeId(s, k), key |-> s.content[k], source |-> s.id, version |-> s.revision]
<1>1. PICK k \in 1..Len(s.content) : n = Prepared(s)[k]
  BY PreparedIsList
<1>2. Prepared(s)[k]
        = [id |-> NodeId(s, k), key |-> s.content[k], source |-> s.id, version |-> s.revision]
  BY DEF Prepared
<1> QED
  BY <1>1, <1>2

\* A server of a list: it belongs to one of the sources, under an id of it.
LEMMA OfList ==
  ASSUME NEW list, Owned(list), NEW n \in ServersOf(list)
  PROVE  \E i \in 1..Len(list) :
            /\ n \in ToSet(Prepared(list[i])) /\ n.source = list[i].id
            /\ Own(n.id, list[i].id, list[i].revision)
<1>1. PICK i \in 1..Len(list) : n \in ToSet(Prepared(list[i]))
  BY DEF ServersOf
<1>2. list[i].content \in Subscriptions
  BY DEF Owned
<1>3. PICK k \in 1..Len(list[i].content) :
         n = [id |-> NodeId(list[i], k), key |-> list[i].content[k],
              source |-> list[i].id, version |-> list[i].revision]
  BY <1>1, <1>2, OfSource
<1>4. n.source = list[i].id /\ n.id = NodeId(list[i], k)
  BY <1>3
<1> QED
  BY <1>1, <1>4 DEF Owned

\* No two servers of a list have the same id.
LEMMA UniqueIds ==
  ASSUME NEW list, Owned(list), Apart(list)
  PROVE  Unique(ServersOf(list))
<1> SUFFICES ASSUME NEW m \in ServersOf(list), NEW n \in ServersOf(list), m.id = n.id
             PROVE  m = n
  BY DEF Unique
<1>1. PICK i \in 1..Len(list) : m \in ToSet(Prepared(list[i])) /\ Own(m.id, list[i].id, list[i].revision)
  BY OfList
<1>2. PICK k \in 1..Len(list) : n \in ToSet(Prepared(list[k])) /\ Own(n.id, list[k].id, list[k].revision)
  BY OfList
<1>3. list[i].revision \in Nat /\ list[i].content \in Subscriptions
  BY DEF Owned
<1>4. list[k].id = list[i].id
  BY <1>1, <1>2, <1>3, Owner
<1>5. i = k
  BY <1>4 DEF Owned
<1>6. PICK a \in 1..Len(list[i].content) :
         m = [id |-> NodeId(list[i], a), key |-> list[i].content[a],
              source |-> list[i].id, version |-> list[i].revision]
  BY <1>1, <1>3, OfSource
<1>7. PICK b \in 1..Len(list[i].content) :
         n = [id |-> NodeId(list[i], b), key |-> list[i].content[b],
              source |-> list[i].id, version |-> list[i].revision]
  BY <1>2, <1>3, <1>5, OfSource
<1>8. a = b
  <2>1. NodeId(list[i], a) = NodeId(list[i], b)
    BY <1>6, <1>7
  <2> QED
    BY <2>1 DEF Apart, Distinct
<1> QED
  BY <1>6, <1>7, <1>8

\* Servers by their ids, when no two have the same.
LEMMA ByIdFacts ==
  ASSUME NEW M, Unique(M)
  PROVE  /\ DOMAIN ById(M) = {n.id : n \in M}
         /\ \A n \in M : ById(M)[n.id] = n
         /\ ById(M) = [i \in {n.id : n \in M} |-> ById(M)[i]]
<1>1. \A n \in M : ById(M)[n.id] \in M /\ ById(M)[n.id].id = n.id
  BY DEF ById
<1>2. \A n \in M : ById(M)[n.id] = n
  BY <1>1 DEF Unique
<1> QED
  BY <1>2 DEF ById

\* A function that gives each id its server is the servers by their ids.
LEMMA ByIdIs ==
  ASSUME NEW M, Unique(M), NEW f, f = [i \in {n.id : n \in M} |-> f[i]], \A n \in M : f[n.id] = n
  PROVE  f = ById(M)
<1>1. PICK g, D : g = ById(M) /\ D = {n.id : n \in M}
  OBVIOUS
<1>2. /\ g = [i \in D |-> g[i]] /\ \A n \in M : g[n.id] = n
      /\ f = [i \in D |-> f[i]]
  BY <1>1, ByIdFacts
<1>3. \A i \in D : f[i] = g[i]
  BY <1>1, <1>2
<1>4. f = g
  BY <1>2, <1>3
<1> QED
  BY <1>1, <1>4

\* More servers are added by their ids.
LEMMA ByIdExtended ==
  ASSUME NEW A, NEW B, Unique(A \cup B)
  PROVE  Extended(ById(A), ById(B)) = ById(A \cup B)
<1>1. Unique(A) /\ Unique(B)
  BY DEF Unique
<1>2. PICK f, g, h : f = ById(A) /\ g = ById(B) /\ h = Extended(f, g)
  OBVIOUS
<1>3. /\ DOMAIN f = {n.id : n \in A} /\ \A n \in A : f[n.id] = n
      /\ DOMAIN g = {n.id : n \in B} /\ \A n \in B : g[n.id] = n
  BY <1>1, <1>2, ByIdFacts
<1>4. /\ h = [i \in {n.id : n \in A \cup B} |-> h[i]]
      /\ \A i \in {n.id : n \in A \cup B} : h[i] = IF i \in DOMAIN g THEN g[i] ELSE f[i]
  <2>1. DOMAIN f \cup DOMAIN g = {n.id : n \in A \cup B}
    BY <1>3
  <2>2. h = [i \in DOMAIN f \cup DOMAIN g |-> IF i \in DOMAIN g THEN g[i] ELSE f[i]]
    BY <1>2 DEF Extended
  <2> QED
    BY <2>1, <2>2
<1>5. ASSUME NEW n \in A \cup B PROVE h[n.id] = n
  <2>1. CASE n.id \in DOMAIN g
    <3>1. PICK m \in B : m.id = n.id
      BY <1>3, <2>1
    <3>2. m = n
      BY <3>1 DEF Unique
    <3> QED
      BY <1>3, <1>4, <2>1, <3>1, <3>2
  <2>2. CASE n.id \notin DOMAIN g
    BY <1>3, <1>4, <2>2
  <2> QED
    BY <2>1, <2>2
<1>6. h = ById(A \cup B)
  BY <1>4, <1>5, ByIdIs
<1> QED
  BY <1>2, <1>6

\* The servers that are left when a source has lost its own.
LEMMA ByIdWithout ==
  ASSUME NEW M, Unique(M), nodes = ById(M), NEW id
  PROVE  NodesWithout(id) = ById({n \in M : n.source # id})
<1> DEFINE L == {n \in M : n.source # id}
<1>1. Unique(L)
  BY DEF Unique
<1>2. DOMAIN nodes = {n.id : n \in M} /\ \A n \in M : nodes[n.id] = n
  BY ByIdFacts
<1>3. DOMAIN nodes \ NodesOf(id) = {n.id : n \in L}
  BY <1>2 DEF NodesOf
<1>4. PICK f : f = NodesWithout(id)
  OBVIOUS
<1>5. f = [i \in {n.id : n \in L} |-> f[i]] /\ \A n \in L : f[n.id] = n
  BY <1>2, <1>3, <1>4 DEF NodesWithout
<1>6. f = ById(L)
  <2> HIDE DEF L
  <2> QED
    BY <1>1, <1>5, ByIdIs
<1> QED
  BY <1>4, <1>6

\* The ids of the servers of one source.
OwnIds(s) == {n.id : n \in ToSet(Prepared(s))}

\* They are listed by their places in it.
LEMMA IdsOfOne ==
  ASSUME NEW s, s.content \in Subscriptions
  PROVE  /\ IdsOf(Prepared(s)) \in Seq(OwnIds(s))
         /\ Len(IdsOf(Prepared(s))) = Len(s.content) /\ Len(s.content) \in Nat
         /\ \A i \in 1..Len(s.content) : IdsOf(Prepared(s))[i] = NodeId(s, i)
         /\ OwnIds(s) = {NodeId(s, i) : i \in 1..Len(s.content)}
<1>1. PICK p, q : p = Prepared(s) /\ q = IdsOf(p)
  OBVIOUS
<1>2. /\ p \in Seq(ToSet(p)) /\ Len(p) = Len(s.content) /\ Len(s.content) \in Nat
      /\ ToSet(p) = {p[i] : i \in 1..Len(s.content)}
  BY <1>1, PreparedIsList
<1>3. \A i \in 1..Len(s.content) : p[i].id = NodeId(s, i)
  BY <1>1 DEF Prepared
<1>4. /\ q \in Seq({n.id : n \in ToSet(p)}) /\ Len(q) = Len(s.content)
      /\ \A i \in 1..Len(s.content) : q[i] = NodeId(s, i)
  BY <1>1, <1>2, <1>3 DEF IdsOf
<1>5. OwnIds(s) = {n.id : n \in ToSet(p)}
  BY <1>1 DEF OwnIds
<1>6. OwnIds(s) = {NodeId(s, i) : i \in 1..Len(s.content)}
  BY <1>2, <1>3, <1>5, SMTT(60)
<1> QED
  BY <1>1, <1>2, <1>4, <1>5, <1>6

\* The list of one more source.
LEMMA ListedAppend ==
  ASSUME NEW S, Sources(S), NEW list \in Seq(S), NEW s \in S
  PROVE  Listed(Append(list, s)) = Listed(list) \o IdsOf(Prepared(s))
<1>1. PICK m, f, g : m = Append(list, s) /\ f = Servers(list) /\ g = Prepared(s)
  OBVIOUS
<1>2. Servers(m) = f \o g
  BY <1>1, ServersAppend
<1>3. f \in Seq(AllServers(S)) /\ g \in Seq(AllServers(S))
  <2>1. Prepared(s) \in Seq(ToSet(Prepared(s)))
    BY PreparedIsList DEF Sources
  <2>2. ToSet(Prepared(s)) \subseteq AllServers(S)
    BY DEF AllServers
  <2> QED
    BY <1>1, <2>1, <2>2, ServersIsList, SeqMonotonic
<1>4. IdsOf(f \o g) = IdsOf(f) \o IdsOf(g)
  BY <1>3, IdsConcat
<1> QED
  BY <1>1, <1>2, <1>4, Zenon DEF Listed

\* The list of one source.
LEMMA ListedOfOne ==
  ASSUME NEW S, Sources(S), NEW s \in S
  PROVE  Listed(<<s>>) = IdsOf(Prepared(s))
<1>1. Servers(<<s>>) = Prepared(s)
  BY ServersOfOne
<1> QED
  BY <1>1, Zenon DEF Listed

\* The ids of a list with one more source.
LEMMA IdsInAppend ==
  ASSUME NEW S, NEW list \in Seq(S), NEW s \in S
  PROVE  /\ IdsIn(Append(list, s)) = IdsIn(list) \cup OwnIds(s)
         /\ ServersOf(Append(list, s)) = ServersOf(list) \cup ToSet(Prepared(s))
<1>1. PICK m : m = Append(list, s)
  OBVIOUS
<1>2. /\ Len(m) = Len(list) + 1 /\ Len(list) \in Nat /\ m[Len(list) + 1] = s
      /\ \A i \in 1..Len(list) : m[i] = list[i]
  BY <1>1
<1>3. \A i \in 1..Len(m) : i \in 1..Len(list) \/ i = Len(list) + 1
  BY <1>2
<1>4. ServersOf(m) \subseteq ServersOf(list) \cup ToSet(Prepared(s))
  BY <1>2, <1>3 DEF ServersOf
<1>5. ServersOf(list) \subseteq ServersOf(m)
  <2> SUFFICES ASSUME NEW n \in ServersOf(list) PROVE n \in ServersOf(m)
    OBVIOUS
  <2>1. PICK i \in 1..Len(list) : n \in ToSet(Prepared(list[i]))
    BY DEF ServersOf
  <2>2. i \in 1..Len(m) /\ m[i] = list[i]
    BY <1>2
  <2> QED
    BY <2>1, <2>2 DEF ServersOf
<1>6. ToSet(Prepared(s)) \subseteq ServersOf(m)
  <2>1. Len(list) + 1 \in 1..Len(m)
    BY <1>2
  <2> QED
    BY <1>2, <2>1 DEF ServersOf
<1>7. ServersOf(m) = ServersOf(list) \cup ToSet(Prepared(s))
  BY <1>4, <1>5, <1>6
<1>8. IdsIn(m) = IdsIn(list) \cup OwnIds(s)
  BY <1>7 DEF IdsIn, OwnIds
<1> QED
  BY <1>1, <1>7, <1>8

\* Two lists of different things, none of them twice.
LEMMA InjectiveConcat ==
  ASSUME NEW A, NEW B, A \cap B = {}, NEW f \in Seq(A), NEW g \in Seq(B),
         IsInjective(f), IsInjective(g)
  PROVE  IsInjective(f \o g)
<1>1. PICK h : h = f \o g
  OBVIOUS
<1>2. f \in Seq(A \cup B) /\ g \in Seq(A \cup B)
  BY SeqMonotonic
<1>3. /\ h \in Seq(A \cup B) /\ Len(h) = Len(f) + Len(g)
      /\ \A i \in 1..(Len(f) + Len(g)) : h[i] = IF i <= Len(f) THEN f[i] ELSE g[i - Len(f)]
  BY <1>1, <1>2, ConcatProperties
<1>4. Len(f) \in Nat /\ Len(g) \in Nat
  OBVIOUS
<1>5. /\ \A i \in 1..Len(f) : f[i] \in A
      /\ \A i \in 1..Len(g) : g[i] \in B
      /\ \A i, k \in 1..Len(f) : f[i] = f[k] => i = k
      /\ \A i, k \in 1..Len(g) : g[i] = g[k] => i = k
  BY DEF IsInjective
<1>6. ASSUME NEW i \in 1..(Len(f) + Len(g)), NEW k \in 1..(Len(f) + Len(g)), h[i] = h[k]
      PROVE  i = k
  <2>1. CASE i <= Len(f) /\ k <= Len(f)
    BY <1>3, <1>4, <1>5, <1>6, <2>1
  <2>2. CASE i > Len(f) /\ k > Len(f)
    <3>1. i - Len(f) \in 1..Len(g) /\ k - Len(f) \in 1..Len(g)
      BY <1>4, <2>2
    <3>2. h[i] = g[i - Len(f)] /\ h[k] = g[k - Len(f)]
      BY <1>3, <1>4, <2>2
    <3>3. i - Len(f) = k - Len(f)
      BY <1>5, <1>6, <3>1, <3>2
    <3> QED
      BY <1>4, <3>3
  <2>3. CASE i <= Len(f) /\ k > Len(f)
    <3>1. i \in 1..Len(f) /\ k - Len(f) \in 1..Len(g)
      BY <1>4, <2>3
    <3>2. h[i] \in A /\ h[k] \in B
      BY <1>3, <1>4, <1>5, <2>3, <3>1
    <3> QED
      BY <1>6, <3>2
  <2>4. CASE i > Len(f) /\ k <= Len(f)
    <3>1. k \in 1..Len(f) /\ i - Len(f) \in 1..Len(g)
      BY <1>4, <2>4
    <3>2. h[k] \in A /\ h[i] \in B
      BY <1>3, <1>4, <1>5, <2>4, <3>1, SMTT(60)
    <3> QED
      BY <1>6, <3>2
  <2> QED
    BY <1>4, <2>1, <2>2, <2>3, <2>4
<1>7. IsInjective(h)
  BY <1>3, <1>4, <1>6 DEF IsInjective
<1> QED
  BY <1>1, <1>7

\* The servers of a list are listed once each, and all of them.
LEMMA ListedOnce ==
  ASSUME NEW list, Owned(list), Apart(list)
  PROVE  IsInjective(Listed(list)) /\ ToSet(Listed(list)) = IdsIn(list)
<1> DEFINE S == ToSet(list)
           T == {l \in Seq(S) : Owned(l) => /\ IsInjective(Listed(l))
                                            /\ ToSet(Listed(l)) = IdsIn(l)}
<1>0. /\ list \in Seq(S) /\ Sources(S) /\ \A s \in S : Distinct(s)
  <2>1. list \in Seq(S) /\ S = {list[i] : i \in 1..Len(list)}
    BY DEF Owned, ToSet
  <2> QED
    BY <2>1 DEF Owned, Sources, Apart
<1> HIDE DEF S
<1>1. <<>> \in T
  <2>1. Listed(<<>>) = <<>> /\ IdsIn(<<>>) = {}
    <3>1. IdsOf(<<>>) = <<>>
      BY DEF IdsOf
    <3> QED
      BY <3>1, ServersEmpty DEF Listed, IdsIn
  <2>2. IsInjective(<<>>) /\ ToSet(<<>>) = {} /\ <<>> \in Seq(S)
    BY DEF IsInjective, ToSet
  <2> QED
    BY <2>1, <2>2
<1>2. ASSUME NEW l \in Seq(S), NEW e \in S, l \in T PROVE Append(l, e) \in T
  <2>1. PICK m : m = Append(l, e)
    OBVIOUS
  <2>2. /\ m \in Seq(S) /\ Len(m) = Len(l) + 1 /\ Len(l) \in Nat /\ m[Len(l) + 1] = e
        /\ \A i \in 1..Len(l) : m[i] = l[i]
    BY <2>1
  <2> SUFFICES ASSUME Owned(m) PROVE IsInjective(Listed(m)) /\ ToSet(Listed(m)) = IdsIn(m)
    BY <2>1, <2>2
  <2>3. Len(l) + 1 \in 1..Len(m) /\ \A i \in 1..Len(l) : i \in 1..Len(m) /\ i # Len(l) + 1
    BY <2>2
  <2>4. Owned(l)
    <3>1. l \in Seq(ToSet(l))
      BY IsList
    <3> QED
      BY <2>2, <2>3, <3>1 DEF Owned
  <2>5. /\ e.content \in Subscriptions /\ e.revision \in Nat
        /\ \A k \in 1..Len(e.content) : Own(NodeId(e, k), e.id, e.revision)
        /\ \A i \in 1..Len(l) : l[i].id # e.id
    BY <2>2, <2>3 DEF Owned
  <2>6. PICK f, g : f = Listed(l) /\ g = IdsOf(Prepared(e))
    OBVIOUS
  <2>7. Listed(m) = f \o g
    BY <1>0, <2>1, <2>6, ListedAppend
  <2>8. f \in Seq(IdsIn(l)) /\ IsInjective(f) /\ ToSet(f) = IdsIn(l)
    BY <1>0, <1>2, <2>4, <2>6, ListedInList
  <2>9. g \in Seq(OwnIds(e)) /\ IsInjective(g) /\ ToSet(g) = OwnIds(e)
    <3>1. /\ g \in Seq(OwnIds(e)) /\ Len(g) = Len(e.content) /\ Len(e.content) \in Nat
          /\ \A i \in 1..Len(e.content) : g[i] = NodeId(e, i)
          /\ OwnIds(e) = {NodeId(e, i) : i \in 1..Len(e.content)}
      BY <2>5, <2>6, IdsOfOne
    <3>2. DOMAIN g = 1..Len(e.content)
      BY <3>1
    <3>3. \A i, k \in 1..Len(e.content) : NodeId(e, i) = NodeId(e, k) => i = k
      BY <1>0 DEF Distinct
    <3>4. IsInjective(g)
      BY <3>1, <3>2, <3>3 DEF IsInjective
    <3>5. ToSet(g) = {g[i] : i \in 1..Len(e.content)}
      BY <3>2 DEF ToSet
    <3> QED
      BY <3>1, <3>4, <3>5
  <2>10. IdsIn(l) \cap OwnIds(e) = {}
    <3> SUFFICES ASSUME NEW n \in IdsIn(l), n \in OwnIds(e) PROVE FALSE
      OBVIOUS
    <3>1. PICK v \in ServersOf(l) : n = v.id
      BY DEF IdsIn
    <3>2. PICK i \in 1..Len(l) : Own(n, l[i].id, l[i].revision)
      BY <2>4, <3>1, OfList
    <3>3. PICK k \in 1..Len(e.content) : n = NodeId(e, k)
      BY <2>5, IdsOfOne
    <3>4. Own(n, e.id, e.revision)
      BY <2>5, <3>3
    <3>5. l[i].id = e.id
      BY <2>5, <3>2, <3>4, Owner
    <3> QED
      BY <2>5, <3>5
  <2>11. IsInjective(f \o g)
    BY <2>8, <2>9, <2>10, InjectiveConcat
  <2>12. ToSet(f \o g) = IdsIn(l) \cup OwnIds(e)
    <3>1. PICK h, W : h = f \o g /\ W = IdsIn(l) \cup OwnIds(e)
      OBVIOUS
    <3>2. f \in Seq(W) /\ g \in Seq(W)
      BY <2>8, <2>9, <3>1, SeqMonotonic
    <3>3. Range(h) = Range(f) \cup Range(g) /\ h \in Seq(W)
      BY <3>1, <3>2, RangeConcatenation
    <3>4. \A q \in Seq(W) : Range(q) = ToSet(q)
      BY DEF Range, ToSet
    <3> QED
      BY <2>8, <2>9, <3>1, <3>2, <3>3, <3>4
  <2>13. IdsIn(m) = IdsIn(l) \cup OwnIds(e)
    BY <2>1, IdsInAppend
  <2> QED
    BY <2>7, <2>11, <2>12, <2>13
<1>3. \A l \in Seq(S) : l \in T
  <2> HIDE DEF T
  <2> QED
    BY <1>1, <1>2, ListInduction
<1> QED
  BY <1>0, <1>3

-----------------------------------------------------------------------------
(* What the next start shows *)

\* The inductive invariant of what is shown: memory is what a start makes of the sources
\* in it, what is being saved is what a start makes of the file, and when nothing is
\* being saved the file has the sources in memory.
Shown ==
    /\ Apart(sources) /\ Apart(Stored)
    /\ nodes = ById(ServersOf(sources)) /\ order = Listed(sources)
    /\ saving # Nobody => /\ saving.new.nodes = ById(ServersOf(Stored))
                          /\ saving.new.order = Listed(Stored)
    /\ Unlocked /\ readable => sources = Stored

\* Servers of other sources than that one.
LEMMA Others ==
  ASSUME Owned(sources), NEW p \in 1..Len(sources),
         NEW a \in Seq({sources[i] : i \in (1..Len(sources)) \ {p}})
  PROVE  /\ Sources(ToSet(sources)) /\ a \in Seq(ToSet(sources))
         /\ ServersOf(a) \subseteq ServersOf(sources)
         /\ \A n \in ServersOf(a) : n.source # sources[p].id
<1> DEFINE S == {sources[i] : i \in (1..Len(sources)) \ {p}}
<1>1. ToSet(sources) = {sources[i] : i \in 1..Len(sources)}
  BY DEF Owned, ToSet
<1>2. a \in Seq(ToSet(sources))
  BY <1>1, SeqMonotonic
<1>3. Sources(ToSet(sources))
  BY <1>1 DEF Owned, Sources
<1>4. ASSUME NEW n \in ServersOf(a)
      PROVE  n \in ServersOf(sources) /\ n.source # sources[p].id
  <2>1. PICK i \in 1..Len(a) : n \in ToSet(Prepared(a[i]))
    BY DEF ServersOf
  <2>2. a[i] \in S
    OBVIOUS
  <2>3. PICK k \in (1..Len(sources)) \ {p} : a[i] = sources[k]
    BY <2>2
  <2>4. n \in ServersOf(sources)
    BY <2>1, <2>3 DEF ServersOf
  <2>5. sources[k].content \in Subscriptions /\ sources[k].id # sources[p].id
    BY <2>3 DEF Owned
  <2>6. n.source = sources[k].id
    <3>1. PICK q \in 1..Len(sources[k].content) :
             n = [id |-> NodeId(sources[k], q), key |-> sources[k].content[q],
                  source |-> sources[k].id, version |-> sources[k].revision]
      BY <2>1, <2>3, <2>5, OfSource
    <3> QED
      BY <3>1
  <2> QED
    BY <2>4, <2>5, <2>6
<1> QED
  BY <1>2, <1>3, <1>4

\* What is there around a source: the ids in the list, those that stay without it.
LEMMA AroundSource ==
  ASSUME Lists, Shown, NEW p \in 1..Len(sources), NEW a, NEW b, Splits(sources, a, b, p)
  PROVE  /\ Sources(ToSet(sources)) /\ a \in Seq(ToSet(sources)) /\ b \in Seq(ToSet(sources))
         /\ order = (Listed(a) \o IdsOf(Prepared(sources[p]))) \o Listed(b)
         /\ Listed(a) \in Seq(IdsIn(a)) /\ Listed(b) \in Seq(IdsIn(b))
         /\ \A n \in IdsIn(a) : n \in DOMAIN nodes /\ nodes[n].source # sources[p].id
         /\ \A n \in IdsIn(b) : n \in DOMAIN nodes /\ nodes[n].source # sources[p].id
         /\ \A n \in OwnIds(sources[p]) : n \in DOMAIN nodes /\ nodes[n].source = sources[p].id
         /\ {n \in ServersOf(sources) : n.source # sources[p].id} = ServersOf(a \o b)
<1> DEFINE S == ToSet(sources)
           s == sources[p]
<1>1. Owned(sources) /\ s \in S /\ s.content \in Subscriptions /\ Unique(ServersOf(sources))
  <2>1. Owned(sources)
    BY OwnedList DEF Lists
  <2>2. s \in S /\ s.content \in Subscriptions
    BY <2>1 DEF Owned, ToSet
  <2> QED
    BY <2>1, <2>2, UniqueIds DEF Shown
<1>2. /\ a \in Seq({sources[i] : i \in (1..Len(sources)) \ {p}})
      /\ b \in Seq({sources[i] : i \in (1..Len(sources)) \ {p}})
      /\ sources = (a \o <<s>>) \o b
  BY DEF Splits
<1>3. /\ Sources(S) /\ a \in Seq(S) /\ b \in Seq(S)
      /\ ServersOf(a) \subseteq ServersOf(sources) /\ ServersOf(b) \subseteq ServersOf(sources)
      /\ \A n \in ServersOf(a) \cup ServersOf(b) : n.source # s.id
  BY <1>1, <1>2, Others
<1> HIDE DEF S
<1>4. PICK c : c = a \o <<s>>
  OBVIOUS
<1>5. <<s>> \in Seq(S) /\ c \in Seq(S) /\ sources = c \o b
  BY <1>1, <1>2, <1>3, <1>4
<1>6. order = (Listed(a) \o IdsOf(Prepared(s))) \o Listed(b)
  <2>1. Listed(c \o b) = Listed(c) \o Listed(b)
    BY <1>3, <1>5, ListedConcat
  <2>2. PICK one : one = <<s>>
    OBVIOUS
  <2>3. Listed(a \o one) = Listed(a) \o Listed(one)
    BY <1>3, <1>5, <2>2, ListedConcat
  <2>4. Listed(<<s>>) = IdsOf(Prepared(s))
    BY <1>1, <1>3, ListedOfOne
  <2>5. order = Listed(sources)
    BY DEF Shown
  <2> QED
    BY <1>4, <1>5, <2>1, <2>2, <2>3, <2>4, <2>5, Zenon
<1>7. Listed(a) \in Seq(IdsIn(a)) /\ Listed(b) \in Seq(IdsIn(b))
  BY <1>3, ListedInList
<1>8. ServersOf(sources) = (ServersOf(a) \cup ToSet(Prepared(s))) \cup ServersOf(b)
  <2>1. ServersOf(c \o b) = ServersOf(c) \cup ServersOf(b)
    BY <1>3, <1>5, ServersOfConcat
  <2>2. Append(a, s) = c
    BY <1>1, <1>3, <1>4, AppendIsConcat
  <2>3. ServersOf(Append(a, s)) = ServersOf(a) \cup ToSet(Prepared(s))
    BY <1>1, <1>3, IdsInAppend
  <2> QED
    BY <1>5, <2>1, <2>2, <2>3, Zenon
<1>9. DOMAIN nodes = {n.id : n \in ServersOf(sources)} /\ \A n \in ServersOf(sources) : nodes[n.id] = n
  BY <1>1, ByIdFacts DEF Shown
<1>10. \A n \in ToSet(Prepared(s)) : n.source = s.id
  <2> SUFFICES ASSUME NEW n \in ToSet(Prepared(s)) PROVE n.source = s.id
    OBVIOUS
  <2>1. PICK q \in 1..Len(s.content) :
           n = [id |-> NodeId(s, q), key |-> s.content[q], source |-> s.id, version |-> s.revision]
    BY <1>1, OfSource
  <2> QED
    BY <2>1
<1> HIDE DEF s
<1>11. /\ \A n \in IdsIn(a) : n \in DOMAIN nodes /\ nodes[n].source # s.id
       /\ \A n \in IdsIn(b) : n \in DOMAIN nodes /\ nodes[n].source # s.id
  BY <1>3, <1>9 DEF IdsIn
<1>12. \A n \in OwnIds(s) : n \in DOMAIN nodes /\ nodes[n].source = s.id
  BY <1>8, <1>9, <1>10 DEF OwnIds
<1>13. {n \in ServersOf(sources) : n.source # s.id} = ServersOf(a \o b)
  <2>1. ServersOf(a \o b) = ServersOf(a) \cup ServersOf(b)
    BY <1>3, ServersOfConcat
  <2> QED
    BY <1>3, <1>8, <1>10, <2>1
<1> QED
  BY <1>3, <1>6, <1>7, <1>11, <1>12, <1>13 DEF S, s

\* Without the source the others' ids stay, in their order.
LEMMA WithoutSource ==
  ASSUME Lists, Shown, NEW p \in 1..Len(sources), NEW a, NEW b, Splits(sources, a, b, p)
  PROVE  /\ OrderWithout(sources[p].id) = Listed(a) \o Listed(b)
         /\ Listed(a) \o Listed(b) = Listed(a \o b)
         /\ NodesWithout(sources[p].id) = ById(ServersOf(a \o b))
<1> DEFINE id == sources[p].id
           D == DOMAIN NodesWithout(id)
           S == ToSet(sources)
<1>1. /\ Sources(S) /\ a \in Seq(S) /\ b \in Seq(S)
      /\ Listed(a) \in Seq(IdsIn(a)) /\ Listed(b) \in Seq(IdsIn(b))
      /\ \A n \in IdsIn(a) : n \in DOMAIN nodes /\ nodes[n].source # id
      /\ \A n \in IdsIn(b) : n \in DOMAIN nodes /\ nodes[n].source # id
      /\ \A n \in OwnIds(sources[p]) : n \in DOMAIN nodes /\ nodes[n].source = id
  BY AroundSource
<1>2. IdsIn(a) \subseteq D /\ IdsIn(b) \subseteq D /\ OwnIds(sources[p]) \cap D = {}
  BY <1>1 DEF NodesWithout, NodesOf
<1>3. PICK f, g, h, e : f = Listed(a) /\ g = IdsOf(Prepared(sources[p])) /\ h = Listed(b) /\ e = f \o g
  OBVIOUS
<1>4. sources[p].content \in Subscriptions
  BY OwnedList DEF Lists, Owned
<1>5. /\ f \in Seq(IdsIn(a)) /\ g \in Seq(OwnIds(sources[p])) /\ h \in Seq(IdsIn(b))
  BY <1>1, <1>3, <1>4, IdsOfOne
<1> DEFINE W == IdsIn(a) \cup (OwnIds(sources[p]) \cup IdsIn(b))
<1>6. f \in Seq(W) /\ g \in Seq(W) /\ h \in Seq(W) /\ e \in Seq(W)
  <2>1. f \in Seq(W) /\ g \in Seq(W) /\ h \in Seq(W)
    BY <1>5, SeqMonotonic
  <2> HIDE DEF W
  <2> QED
    BY <1>3, <2>1
<1>7. Filtered(f, D) = f /\ Filtered(g, D) = <<>> /\ Filtered(h, D) = h
  <2> HIDE DEF D
  <2> QED
    BY <1>2, <1>5, FilteredAll
<1>8. Filtered(e \o h, D) = f \o h
  <2> HIDE DEF D, W
  <2>1. Filtered(f \o g, D) = Filtered(f, D) \o Filtered(g, D)
    BY <1>6, FilteredConcat, SMTT(60)
  <2>2. Filtered(e \o h, D) = Filtered(e, D) \o Filtered(h, D)
    BY <1>6, FilteredConcat, SMTT(60)
  <2>3. f \o <<>> = f
    BY <1>5, ConcatEmptySeq
  <2> QED
    BY <1>3, <1>7, <2>1, <2>2, <2>3, Zenon
<1>9. order = e \o h
  BY <1>3, AroundSource
<1>10. OrderWithout(id) = f \o h
  BY <1>8, <1>9 DEF OrderWithout
<1>11. Listed(a \o b) = Listed(a) \o Listed(b)
  <2> HIDE DEF S
  <2> QED
    BY <1>1, ListedConcat
<1>12. NodesWithout(id) = ById(ServersOf(a \o b))
  <2>1. Unique(ServersOf(sources)) /\ nodes = ById(ServersOf(sources))
    BY OwnedList, UniqueIds DEF Lists, Shown
  <2>2. {n \in ServersOf(sources) : n.source # id} = ServersOf(a \o b)
    BY AroundSource
  <2>3. NodesWithout(id) = ById({n \in ServersOf(sources) : n.source # id})
    <3> HIDE DEF id
    <3> QED
      BY <2>1, ByIdWithout
  <2> QED
    BY <2>2, <2>3
<1> QED
  BY <1>3, <1>10, <1>11, <1>12, Zenon

\* Without a source there is nothing to show.
LEMMA NothingShown == ById(ServersOf(<<>>)) = <<>> /\ Listed(<<>>) = <<>> /\ Apart(<<>>)
<1>1. ById({}) = <<>> /\ IdsOf(<<>>) = <<>>
  BY DEF ById, IdsOf
<1> QED
  BY <1>1, ServersEmpty DEF Listed, Apart

\* A save that keeps what is shown: the saved library is as the next start shows it.
LEMMA SavedShown ==
  ASSUME Shown, NEW j, NEW new, saving' = [job |-> j, new |-> new],
         UNCHANGED <<sources, nodes, order>>,
         Apart(Stored'), new.nodes = ById(ServersOf(Stored')), new.order = Listed(Stored')
  PROVE  Shown'
<1>1. saving' # Nobody /\ ~Unlocked'
  BY DEF Nobody, Unlocked
<1> QED
  BY <1>1 DEF Shown

\* An imported source comes at the end.
LEMMA ConfirmShown ==
  ASSUME Inv, Inv', Shown, NEW j \in Jobs, Confirm(j)
  PROVE  Shown'
<1>1. PICK t, new, list, servers, ids, previews :
        /\ t \in DOMAIN pending
        /\ new = Source(imports + 1, pending[t].kind, pending[t].content, 0, <<>>)
        /\ new.content # <<>>
        /\ list = Append(sources, new)
        /\ servers = Extended(nodes, ById(ToSet(Prepared(new))))
        /\ ids = order \o IdsOf(Prepared(new))
        /\ Save(j, Library(list, servers, ids, previews))
  BY DEF Confirm
<1>2. PICK lib : lib = Library(list, servers, ids, previews)
  OBVIOUS
<1>3. /\ file' = File(lib.sources) /\ saving' = [job |-> j, new |-> lib]
      /\ lib.sources = list /\ lib.nodes = servers /\ lib.order = ids
  BY <1>1, <1>2 DEF Save, Library
<1>4. Stored' = list /\ UNCHANGED <<sources, nodes, order>>
  BY <1>3 DEF Confirm, Stored, File, NoFile
<1>5. Owned(sources) /\ Owned(list) /\ Sources(ToSet(list)) /\ list \in Seq(ToSet(list))
  <2>1. ListOK(sources) /\ ListOK(Stored)'
    BY DEF Inv, Lists
  <2>2. Owned(sources) /\ Owned(Stored')
    BY <2>1 DEF ListOK, SourceOK, Owned
  <2>3. list \in Seq(ToSet(list)) /\ \A i \in 1..Len(list) : list[i].content \in Subscriptions
    BY <1>4, <2>2 DEF Owned
  <2>4. ToSet(list) = {list[i] : i \in 1..Len(list)}
    BY <2>3 DEF ToSet
  <2> QED
    BY <1>4, <2>2, <2>3, <2>4 DEF Sources
<1>6. /\ sources \in Seq(ToSet(list)) /\ new \in ToSet(list)
      /\ Len(list) = Len(sources) + 1 /\ Len(sources) \in Nat
      /\ list[Len(sources) + 1] = new /\ \A i \in 1..Len(sources) : list[i] = sources[i]
  <2>1. sources \in Seq(ToSet(sources)) /\ ToSet(sources) = {sources[i] : i \in 1..Len(sources)}
    BY <1>5 DEF Owned, ToSet
  <2>2. /\ Len(list) = Len(sources) + 1 /\ Len(sources) \in Nat
        /\ list[Len(sources) + 1] = new /\ \A i \in 1..Len(sources) : list[i] = sources[i]
    BY <1>1, <2>1
  <2>3. ToSet(list) = {list[i] : i \in 1..Len(list)}
    BY <1>5 DEF ToSet
  <2>4. \A i \in 1..Len(sources) : i \in 1..Len(list)
    BY <2>2
  <2>5. ToSet(sources) \subseteq ToSet(list) /\ new \in ToSet(list)
    BY <2>1, <2>2, <2>3, <2>4
  <2> QED
    BY <2>1, <2>2, <2>5, SeqMonotonic
<1>7. Apart(list)
  <2>1. \A i \in 1..Len(new.content) : NodeId(new, i) = <<imports + 1, new.content[i], i>>
    BY <1>1 DEF Source, NodeId
  <2>2. Distinct(new)
    BY <1>1, <2>1 DEF Distinct
  <2>3. \A i \in 1..Len(list) : i \in 1..Len(sources) \/ i = Len(sources) + 1
    BY <1>6
  <2> QED
    BY <1>6, <2>2, <2>3 DEF Apart, Shown
<1>8. Unique(ServersOf(list))
  BY <1>5, <1>7, UniqueIds
<1>9. servers = ById(ServersOf(list))
  <2>1. PICK A, B : A = ServersOf(sources) /\ B = ToSet(Prepared(new))
    OBVIOUS
  <2>2. ServersOf(list) = A \cup B
    BY <1>1, <1>6, <2>1, IdsInAppend
  <2>3. Extended(ById(A), ById(B)) = ById(A \cup B)
    BY <1>8, <2>2, ByIdExtended
  <2> QED
    BY <1>1, <2>1, <2>2, <2>3 DEF Shown
<1>10. ids = Listed(list)
  <2>1. Listed(Append(sources, new)) = Listed(sources) \o IdsOf(Prepared(new))
    BY <1>5, <1>6, ListedAppend
  <2> QED
    BY <1>1, <2>1, Zenon DEF Shown
<1> QED
  BY <1>3, <1>4, <1>7, <1>9, <1>10, SavedShown

\* The list has a source and what is around it.
LEMMA SplitsThere ==
  ASSUME Lists, NEW p \in 1..Len(sources)
  PROVE  \E a, b : Splits(sources, a, b, p)
<1>1. sources \in Seq(ToSet(sources))
  BY DEF Lists, ListOK
<1> QED
  BY <1>1, Around

\* A source goes with its servers.
LEMMA RemoveShown ==
  ASSUME Inv, Inv', Shown, NEW j \in Jobs, RemoveSource(j)
  PROVE  Shown'
<1>1. PICK id, p, list :
        /\ id \in SourceIdsOf(sources)
        /\ p = Position(sources, id) /\ list = RemoveAt(sources, p)
        /\ Save(j, Library(list, NodesWithout(id), OrderWithout(id), pending))
  BY DEF RemoveSource
<1>2. PICK lib : lib = Library(list, NodesWithout(id), OrderWithout(id), pending)
  OBVIOUS
<1>3. /\ file' = File(lib.sources) /\ saving' = [job |-> j, new |-> lib]
      /\ lib.sources = list /\ lib.nodes = NodesWithout(id) /\ lib.order = OrderWithout(id)
  BY <1>1, <1>2 DEF Save, Library
<1>4. Stored' = list /\ UNCHANGED <<sources, nodes, order>>
  BY <1>3 DEF RemoveSource, Stored, File, NoFile
<1>5. p \in 1..Len(sources) /\ sources[p].id = id
  BY <1>1 DEF SourceIdsOf, Position
<1>6. Lists
  BY DEF Inv
<1>7. PICK a, b : Splits(sources, a, b, p)
  BY <1>5, <1>6, SplitsThere
<1>8. list = a \o b
  BY <1>1, <1>7 DEF Splits
<1>9. /\ OrderWithout(sources[p].id) = Listed(a) \o Listed(b)
      /\ Listed(a) \o Listed(b) = Listed(a \o b)
      /\ NodesWithout(sources[p].id) = ById(ServersOf(a \o b))
  BY <1>5, <1>6, <1>7, WithoutSource
<1>10. lib.order = Listed(Stored') /\ lib.nodes = ById(ServersOf(Stored'))
  BY <1>3, <1>4, <1>5, <1>8, <1>9, Zenon
<1>11. Apart(list)
  <2>1. sources \in Seq(ToSet(sources))
    BY <1>6 DEF Lists, ListOK
  <2>2. /\ Len(list) = Len(sources) - 1
        /\ \A i \in 1..(Len(sources) - 1) : list[i] = sources[IF i < p THEN i ELSE i + 1]
    BY <1>1, <1>5, <2>1, Removed
  <2>3. \A i \in 1..Len(list) : (IF i < p THEN i ELSE i + 1) \in 1..Len(sources)
    BY <1>5, <2>1, <2>2
  <2> QED
    BY <2>2, <2>3 DEF Apart, Shown
<1> QED
  BY <1>3, <1>4, <1>10, <1>11, SavedShown

\* A reset leaves nothing, and nothing to show.
LEMMA ResetShown ==
  ASSUME Shown, NEW j \in Jobs, ResetLocalState(j)
  PROVE  Shown'
<1>1. PICK lib : lib = Library(<<>>, <<>>, <<>>, <<>>)
  OBVIOUS
<1>2. /\ file' = NoFile /\ saving' = [job |-> j, new |-> lib]
      /\ lib.nodes = <<>> /\ lib.order = <<>> /\ UNCHANGED <<sources, nodes, order>>
  BY <1>1 DEF ResetLocalState, Library
<1>3. Stored' = <<>>
  BY <1>2 DEF Stored
<1> QED
  BY <1>2, <1>3, NothingShown, SavedShown

\* What was saved is what the command takes into memory.
LEMMA CommitShown ==
  ASSUME Inv, Shown, NEW j \in Jobs, Commit(j)
  PROVE  Shown'
<1>1. /\ sources' = Stored /\ nodes' = saving.new.nodes /\ order' = saving.new.order
      /\ saving # Nobody /\ saving' = Nobody /\ file' = file
  BY DEF Inv, Held, Commit
<1>2. Stored' = Stored
  BY <1>1 DEF Stored
<1> QED
  BY <1>1, <1>2 DEF Shown

\* A crash empties the memory, a start fills it from the file, or leaves it empty when
\* the file cannot be read.
LEMMA MachineShown ==
  ASSUME Inv, Shown, Crash \/ Start
  PROVE  Shown'
<1>1. Stored' = Stored /\ Apart(<<>>)
  BY DEF Crash, Start, Stored, Apart
<1>2. CASE Crash
  BY <1>1, <1>2, NothingShown DEF Crash, Shown, Unlocked
<1>3. CASE Start
  <2>1. saving = Nobody /\ saving' = Nobody
    BY <1>3 DEF Inv, Off, Start
  <2>2. \/ readable' = TRUE /\ sources' = Stored
        \/ readable' = FALSE /\ sources' = <<>>
    BY <1>3 DEF Start
  <2>3. nodes' = ById(ServersOf(sources')) /\ order' = Listed(sources')
    BY <1>3 DEF Start, Listed
  <2> QED
    BY <1>1, <2>1, <2>2, <2>3 DEF Shown, Unlocked
<1> QED
  BY <1>2, <1>3

\* The first start shows the file of an earlier version.
LEMMA InitShown == Init => Shown
<1> SUFFICES ASSUME Init PROVE Shown
  OBVIOUS
<1>1. Apart(Stored)
  <2>1. CASE file = NoFile
    BY <2>1 DEF Stored, Apart
  <2>2. CASE file # NoFile
    <3>1. PICK c \in Subscriptions \ {<<>>} :
             file = File(<<Source(Legacy, "subscription", c, 0, <<>>)>>)
      BY <2>2 DEF Init
    <3> DEFINE s == Source(Legacy, "subscription", c, 0, <<>>)
    <3>2. Stored = <<s>>
      BY <2>2, <3>1 DEF Stored, File
    <3>3. Distinct(s)
      BY DEF NodeId, Source, Distinct
    <3> HIDE DEF s
    <3> QED
      BY <3>2, <3>3 DEF Apart
  <2> QED
    BY <2>1, <2>2
<1> QED
  BY <1>1, NothingShown DEF Init, Shown, Unlocked

\* A list of what is before a source, the source, and what is after it.
Joined(a, s, b) == (a \o <<s>>) \o b

\* The servers of such a list.
LEMMA ListedAround ==
  ASSUME NEW S, Sources(S), NEW a \in Seq(S), NEW b \in Seq(S), NEW s \in S
  PROVE  /\ Listed(Joined(a, s, b)) = (Listed(a) \o IdsOf(Prepared(s))) \o Listed(b)
         /\ ServersOf(Joined(a, s, b)) = ServersOf(a \o b) \cup ToSet(Prepared(s))
<1>1. PICK c, one : one = <<s>> /\ c = a \o one
  OBVIOUS
<1>2. one \in Seq(S) /\ c \in Seq(S) /\ Append(a, s) = c
  <2>1. one \in Seq(S) /\ c \in Seq(S)
    BY <1>1
  <2>2. Append(a, s) = a \o <<s>>
    BY AppendIsConcat
  <2> QED
    BY <1>1, <2>1, <2>2, Zenon
<1>3. Listed(c \o b) = (Listed(a) \o IdsOf(Prepared(s))) \o Listed(b)
  <2>1. Listed(c \o b) = Listed(c) \o Listed(b)
    BY <1>2, ListedConcat
  <2>2. Listed(a \o one) = Listed(a) \o Listed(one)
    BY <1>2, ListedConcat
  <2>3. Listed(<<s>>) = IdsOf(Prepared(s))
    BY ListedOfOne
  <2> QED
    BY <1>1, <2>1, <2>2, <2>3, Zenon
<1>4. ServersOf(c \o b) = ServersOf(a \o b) \cup ToSet(Prepared(s))
  <2>1. ServersOf(c \o b) = ServersOf(c) \cup ServersOf(b)
    BY <1>2, ServersOfConcat
  <2>2. ServersOf(a \o b) = ServersOf(a) \cup ServersOf(b)
    BY ServersOfConcat
  <2>3. ServersOf(Append(a, s)) = ServersOf(a) \cup ToSet(Prepared(s))
    BY IdsInAppend
  <2>4. ServersOf(c) = ServersOf(a) \cup ToSet(Prepared(s))
    BY <1>2, <2>3, Zenon
  <2> QED
    BY <2>1, <2>2, <2>4
<1> QED
  BY <1>1, <1>3, <1>4, Zenon DEF Joined

\* n is the id of the server in the list that has the key of the i-th one of `content`, as
\* many of that key being before the one as before the other.
KeptAs(original, content, i, n) ==
    \E q \in Places(original.id, content[i]) :
        /\ n = order[q]
        /\ Cardinality({r \in Places(original.id, content[i]) : r <= q})
             = Cardinality({k \in 1..i : content[k] = content[i]})

\* A server of a refreshed source has such an id, or a new one.
LEMMA Kept ==
  ASSUME NEW original, NEW content, NEW i \in 1..Len(content),
         NEW n, n = RefreshedIds(original, content)[i]
  PROVE  n = <<original.id, "new", original.revision, i>> \/ KeptAs(original, content, i, n)
<1> DEFINE nth  == Cardinality({k \in 1..i : content[k] = content[i]})
           kept == Nth(Places(original.id, content[i]), nth)
<1>1. RefreshedIds(original, content)[i]
        = IF kept # {} THEN order[CHOOSE q \in kept : TRUE]
                       ELSE <<original.id, "new", original.revision, i>>
  BY DEF RefreshedIds
<1>2. kept # {} => (CHOOSE q \in kept : TRUE) \in kept
  OBVIOUS
<1>3. \A q \in kept : /\ q \in Places(original.id, content[i])
                      /\ Cardinality({r \in Places(original.id, content[i]) : r <= q}) = nth
  BY DEF Nth
<1> HIDE DEF kept, nth
<1>4. CASE kept = {}
  BY <1>1, <1>4
<1>5. CASE kept # {}
  <2>1. PICK q \in kept : n = order[q]
    BY <1>1, <1>2, <1>5
  <2> QED
    BY <1>3, <2>1 DEF nth, KeptAs
<1> QED
  BY <1>4, <1>5

\* The next refresh draws ids that the source does not have.
LEMMA DrawnLater ==
  ASSUME NEW id, NEW rev \in Nat, NEW y, NEW n, Own(n, id, rev)
  PROVE  n # <<id, "new", rev, y>>
<1> SUFFICES ASSUME n = <<id, "new", rev, y>> PROVE FALSE
  OBVIOUS
<1>1. \A key, i : n # <<id, key, i>>
  OBVIOUS
<1>2. PICK r \in Nat, i \in Nat : r < rev /\ n = <<id, "new", r, i>>
  BY <1>1 DEF Own
<1>3. r = rev
  BY <1>2
<1> QED
  BY <1>2, <1>3

\* One more of a key is one more to count.
LEMMA Counted ==
  ASSUME NEW content, NEW i \in Nat, NEW k \in Nat, i < k, content[i] = content[k]
  PROVE  Cardinality({q \in 1..i : content[q] = content[i]})
            # Cardinality({q \in 1..k : content[q] = content[k]})
<1> DEFINE few == {q \in 1..i : content[q] = content[i]}
           many == {q \in 1..k : content[q] = content[k]}
<1>1. few \in SUBSET many /\ (k \in many \/ k = 0)
  OBVIOUS
<1>2. k \notin few /\ k # 0
  OBVIOUS
<1>3. IsFiniteSet(many)
  <2>1. IsFiniteSet(1..k)
    BY FS_Interval
  <2>2. many \in SUBSET (1..k)
    OBVIOUS
  <2> HIDE DEF many
  <2> QED
    BY <2>1, <2>2, FS_Subset
<1>4. Cardinality(few) = Cardinality(many) => few = many
  <2> HIDE DEF few, many
  <2> QED
    BY <1>1, <1>2, <1>3, FS_Subset
<1> QED
  BY <1>1, <1>2, <1>4

\* A refreshed source has servers, and gives each an id of its own.
LEMMA RefreshedApart ==
  ASSUME Lists, Shown, NEW p \in 1..Len(sources), NEW content \in Subscriptions \ {<<>>},
         NEW i \in 1..Len(content), NEW k \in 1..Len(content),
         RefreshedIds(sources[p], content)[i] = RefreshedIds(sources[p], content)[k]
  PROVE  i = k
<1>1. Owned(sources)
  BY OwnedList DEF Lists
<1>2. PICK original, n : original = sources[p] /\ n = RefreshedIds(original, content)[i]
  OBVIOUS
<1>3. original.revision \in Nat
  BY <1>1, <1>2 DEF Owned
<1>4. \A x, y \in 1..Len(order) : order[x] = order[y] => x = y
  <2>1. IsInjective(Listed(sources))
    BY <1>1, ListedOnce DEF Shown
  <2>2. Listed(sources) \in Seq(IdsIn(sources))
    BY OwnedList, ListedInList DEF Lists
  <2>3. order = Listed(sources)
    BY DEF Shown
  <2>4. order \in Seq(IdsIn(sources)) /\ IsInjective(order)
    BY <2>1, <2>2, <2>3
  <2>5. DOMAIN order = 1..Len(order)
    BY <2>4
  <2> QED
    BY <2>4, <2>5 DEF IsInjective
<1>5. ASSUME NEW x, NEW q \in Places(original.id, x)
      PROVE  \A y : order[q] # <<original.id, "new", original.revision, y>>
  <2>1. order[q] \in NodesOf(original.id)
    BY <1>5 DEF Places
  <2>2. PICK m \in 1..Len(sources) :
           nodes[order[q]].source = sources[m].id /\ Own(order[q], sources[m].id, sources[m].revision)
    BY <2>1 DEF NodesOf, Lists, NodesOK
  <2>3. m = p
    BY <1>1, <1>2, <2>1, <2>2 DEF NodesOf, Owned
  <2>4. Own(order[q], original.id, original.revision)
    BY <1>2, <2>2, <2>3
  <2> QED
    BY <1>3, <2>4, DrawnLater
<1>6. Len(content) \in Nat
  BY SubscriptionsAssumption
<1>7. /\ n = <<original.id, "new", original.revision, i>> \/ KeptAs(original, content, i, n)
      /\ n = <<original.id, "new", original.revision, k>> \/ KeptAs(original, content, k, n)
  BY <1>2, Kept
<1>8. \A m : KeptAs(original, content, m, n) => \A y : n # <<original.id, "new", original.revision, y>>
  BY <1>5 DEF KeptAs
<1>9. CASE n = <<original.id, "new", original.revision, i>>
  <2>1. n = <<original.id, "new", original.revision, k>>
    BY <1>7, <1>8, <1>9
  <2> QED
    BY <1>9, <2>1
<1>10. CASE n # <<original.id, "new", original.revision, i>>
  <2>1. PICK x \in Places(original.id, content[i]) :
           /\ n = order[x]
           /\ Cardinality({r \in Places(original.id, content[i]) : r <= x})
                = Cardinality({m \in 1..i : content[m] = content[i]})
    BY <1>7, <1>10 DEF KeptAs
  <2>2. PICK y \in Places(original.id, content[k]) :
           /\ n = order[y]
           /\ Cardinality({r \in Places(original.id, content[k]) : r <= y})
                = Cardinality({m \in 1..k : content[m] = content[k]})
    BY <1>7, <1>8, <1>10 DEF KeptAs
  <2>3. /\ x \in 1..Len(order) /\ nodes[order[x]].key = content[i]
        /\ y \in 1..Len(order) /\ nodes[order[y]].key = content[k]
    BY <2>1, <2>2 DEF Places
  <2>4. x = y
    BY <1>4, <2>1, <2>2, <2>3
  <2>5. content[i] = content[k]
    BY <2>3, <2>4
  <2>6. Cardinality({m \in 1..i : content[m] = content[i]})
          = Cardinality({m \in 1..k : content[m] = content[k]})
    BY <2>1, <2>2, <2>4, <2>5
  <2>7. ~(i < k) /\ ~(k < i)
    BY <1>6, <2>5, <2>6, Counted
  <2> QED
    BY <1>6, <2>7
<1> QED
  BY <1>9, <1>10

\* The ids of a refreshed source come where its first one was.
LEMMA SplicedIn ==
  ASSUME Lists, Shown, NEW p \in 1..Len(sources), NEW a, NEW b, Splits(sources, a, b, p),
         NEW X, NEW ids \in Seq(X)
  PROVE  Spliced(sources[p].id, ids) = (Listed(a) \o ids) \o Listed(b)
<1> DEFINE id == sources[p].id
           others == OrderWithout(id)
           first  == IF NodesOf(id) = {} THEN Len(order) + 1
                     ELSE CHOOSE i \in 1..Len(order) :
                            /\ nodes[order[i]].source = id
                            /\ \A k \in 1..(i - 1) : nodes[order[k]].source # id
<1>1. PICK f, g, h : f = Listed(a) /\ g = IdsOf(Prepared(sources[p])) /\ h = Listed(b)
  OBVIOUS
<1>2. others = f \o h
  <2>1. OrderWithout(sources[p].id) = Listed(a) \o Listed(b)
    BY WithoutSource
  <2> QED
    BY <1>1, <2>1, Zenon
<1>3. /\ f \in Seq(IdsIn(a)) /\ h \in Seq(IdsIn(b)) /\ order = (f \o g) \o h
      /\ \A n \in IdsIn(a) : n \in DOMAIN nodes /\ nodes[n].source # id
      /\ \A n \in OwnIds(sources[p]) : n \in DOMAIN nodes /\ nodes[n].source = id
  BY <1>1, AroundSource
<1>4. g \in Seq(OwnIds(sources[p])) /\ Len(g) \in Nat /\ 1 <= Len(g)
  <2>1. sources[p].content \in Subscriptions /\ sources[p].content # <<>>
    BY OwnedList DEF Lists, Owned, Shown, Apart, Distinct
  <2>2. 1 \in 1..Len(sources[p].content)
    BY <2>1, Contents
  <2> QED
    BY <1>1, <2>1, <2>2, IdsOfOne
<1> DEFINE W == IdsIn(a) \cup (OwnIds(sources[p]) \cup IdsIn(b))
<1>5. PICK e : e = f \o g
  OBVIOUS
<1>6. f \in Seq(W) /\ g \in Seq(W) /\ h \in Seq(W) /\ e \in Seq(W)
  <2>1. f \in Seq(W) /\ g \in Seq(W) /\ h \in Seq(W)
    BY <1>3, <1>4, SeqMonotonic
  <2> HIDE DEF W
  <2> QED
    BY <1>5, <2>1
<1> HIDE DEF W
<1>7. /\ Len(f) \in Nat /\ Len(f) + 1 \in 1..Len(order)
      /\ \A i \in 1..Len(f) : nodes[order[i]].source # id
      /\ nodes[order[Len(f) + 1]].source = id
      /\ order[Len(f) + 1] \in DOMAIN nodes
  <2>1. /\ Len(e) = Len(f) + Len(g) /\ Len(f) \in Nat /\ Len(h) \in Nat
        /\ \A i \in 1..(Len(f) + Len(g)) : e[i] = IF i <= Len(f) THEN f[i] ELSE g[i - Len(f)]
    BY <1>5, <1>6, ConcatProperties
  <2>2. order = e \o h
    BY <1>3, <1>5
  <2>3. /\ Len(order) = Len(e) + Len(h)
        /\ \A i \in 1..(Len(e) + Len(h)) : order[i] = IF i <= Len(e) THEN e[i] ELSE h[i - Len(e)]
    BY <1>6, <2>2, ConcatProperties
  <2>4. \A i \in 1..Len(f) : order[i] = f[i]
    BY <1>4, <2>1, <2>3
  <2>5. Len(f) + 1 \in 1..Len(order) /\ order[Len(f) + 1] = g[1]
    <3>1. Len(f) + 1 \in 1..(Len(f) + Len(g)) /\ (Len(f) + 1) - Len(f) = 1 /\ ~(Len(f) + 1 <= Len(f))
      BY <1>4, <2>1
    <3>2. e[Len(f) + 1] = g[1]
      BY <2>1, <3>1
    <3>3. Len(f) + 1 \in 1..(Len(e) + Len(h)) /\ Len(f) + 1 <= Len(e)
      BY <2>1, <3>1
    <3> QED
      BY <2>3, <3>2, <3>3
  <2>6. g[1] \in OwnIds(sources[p]) /\ \A i \in 1..Len(f) : f[i] \in IdsIn(a)
    BY <1>3, <1>4
  <2> QED
    BY <1>3, <2>1, <2>4, <2>5, <2>6
<1>8. first = Len(f) + 1
  <2>1. NodesOf(id) # {}
    BY <1>7 DEF NodesOf
  <2>2. Len(order) \in Nat \/ 1..Len(order) # {}
    BY <1>7
  <2>3. ASSUME NEW i \in 1..Len(order), nodes[order[i]].source = id,
               \A k \in 1..(i - 1) : nodes[order[k]].source # id
        PROVE  i = Len(f) + 1
    <3>1. ~(i <= Len(f))
      BY <1>7, <2>3
    <3>2. ~(Len(f) + 1 < i)
      BY <1>7, <2>3
    <3> QED
      BY <1>7, <3>1, <3>2
  <2>4. \A k \in 1..((Len(f) + 1) - 1) : nodes[order[k]].source # id
    BY <1>7
  <2> QED
    BY <1>7, <2>1, <2>3, <2>4
<1>9. SubSeq(others, 1, first - 1) = f /\ SubSeq(others, first, Len(others)) = h
  <2>1. first - 1 = Len(f)
    BY <1>7, <1>8
  <2>2. PICK o : o = f \o h
    OBVIOUS
  <2>3. Len(o) = Len(f) + Len(h)
    BY <1>6, <2>2, ConcatProperties
  <2>4. SubSeq(o, 1, Len(f)) = f /\ SubSeq(o, Len(f) + 1, Len(f) + Len(h)) = h
    BY <1>6, <2>2
  <2> HIDE DEF others, first
  <2> QED
    BY <1>2, <1>8, <2>1, <2>2, <2>3, <2>4, Zenon
<1>10. Spliced(id, ids) = SubSeq(others, 1, first - 1) \o ids \o SubSeq(others, first, Len(others))
  BY DEF Spliced
<1> HIDE DEF others, first, id
<1>11. Spliced(id, ids) = f \o ids \o h
  BY <1>9, <1>10, Zenon
<1> QED
  BY <1>1, <1>11, Zenon DEF id

\* A refreshed source stays where it was, with its ids where they were.
LEMMA RefreshShown ==
  ASSUME Inv, Inv', Shown, NEW j \in Jobs, RefreshSave(j)
  PROVE  Shown'
<1>1. PICK content, original, new, p, list, made, servers, ids :
        /\ content \in Subscriptions \ {<<>>}
        /\ original = jobs[j].original
        /\ new = Source(original.id, original.kind, content, original.revision + 1,
                        RefreshedIds(original, content))
        /\ p = Position(sources, original.id)
        /\ list = [sources EXCEPT ![p] = new]
        /\ made = ById(ToSet(Prepared(new)))
        /\ servers = Extended(NodesWithout(original.id), made)
        /\ ids = Spliced(original.id, IdsOf(Prepared(new)))
        /\ Unchanged(original)
        /\ Save(j, Library(list, servers, ids, pending))
  BY DEF RefreshSave
<1>2. PICK lib : lib = Library(list, servers, ids, pending)
  OBVIOUS
<1>3. /\ file' = File(lib.sources) /\ saving' = [job |-> j, new |-> lib]
      /\ lib.sources = list /\ lib.nodes = servers /\ lib.order = ids
  BY <1>1, <1>2 DEF Save, Library
<1>4. Stored' = list /\ UNCHANGED <<sources, nodes, order>>
  BY <1>3 DEF RefreshSave, Stored, File, NoFile
<1>5. Lists /\ Owned(sources) /\ Owned(list)
  <2>1. Lists /\ ListOK(Stored)'
    BY DEF Inv, Lists
  <2>2. Owned(sources) /\ Owned(Stored')
    BY <2>1 DEF Lists, ListOK, SourceOK, Owned
  <2> QED
    BY <1>4, <2>1, <2>2
<1>6. p \in 1..Len(sources) /\ sources[p] = original
  <2>1. PICK i \in 1..Len(sources) : sources[i] = original
    BY <1>1 DEF Unchanged
  <2>2. p \in 1..Len(sources) /\ sources[p].id = original.id
    BY <1>1, <2>1 DEF Position
  <2> QED
    BY <1>5, <2>1, <2>2 DEF Owned
<1>7. PICK a, b : Splits(sources, a, b, p)
  BY <1>5, <1>6, SplitsThere
<1>8. list = Joined(a, new, b)
  BY <1>1, <1>7 DEF Splits, Joined
<1>9. Distinct(new)
  <2>1. new.content = content /\ 1 \in 1..Len(content)
    BY <1>1, Contents DEF Source
  <2>2. RefreshedIds(original, content) # <<>>
    BY <2>1 DEF RefreshedIds
  <2>3. \A i \in 1..Len(content) : NodeId(new, i) = RefreshedIds(original, content)[i]
    BY <1>1, <2>2 DEF Source, NodeId
  <2>4. \A i, k \in 1..Len(content) :
          RefreshedIds(original, content)[i] = RefreshedIds(original, content)[k] => i = k
    BY <1>1, <1>5, <1>6, RefreshedApart
  <2> QED
    BY <2>1, <2>3, <2>4 DEF Distinct
<1>10. Apart(list)
  <2>1. sources \in Seq(ToSet(sources) \cup {new})
    BY <1>5, SeqMonotonic DEF Owned
  <2>2. /\ Len(list) = Len(sources)
        /\ list[p] = new /\ \A i \in 1..Len(sources) : i # p => list[i] = sources[i]
    <3>1. list = [sources EXCEPT ![p] = new]
      BY <1>1
    <3> QED
      BY <1>6, <2>1, <3>1
  <2> QED
    BY <1>9, <2>2 DEF Apart, Shown
<1>11. PICK S : S = ToSet(sources) \cup {new}
  OBVIOUS
<1>12. Sources(S) /\ a \in Seq(S) /\ b \in Seq(S) /\ new \in S
  <2>1. Sources(ToSet(sources)) /\ a \in Seq(ToSet(sources)) /\ b \in Seq(ToSet(sources))
    BY <1>5, <1>6, <1>7, AroundSource
  <2>2. new.content \in Subscriptions
    BY <1>1 DEF Source
  <2> QED
    BY <1>11, <2>1, <2>2, SeqMonotonic DEF Sources
<1>13. /\ Listed(list) = (Listed(a) \o IdsOf(Prepared(new))) \o Listed(b)
       /\ ServersOf(list) = ServersOf(a \o b) \cup ToSet(Prepared(new))
  <2>1. /\ Listed(Joined(a, new, b)) = (Listed(a) \o IdsOf(Prepared(new))) \o Listed(b)
        /\ ServersOf(Joined(a, new, b)) = ServersOf(a \o b) \cup ToSet(Prepared(new))
    BY <1>12, ListedAround
  <2> QED
    BY <1>8, <2>1, Zenon
<1>14. ids = Listed(list)
  <2>1. IdsOf(Prepared(new)) \in Seq(OwnIds(new))
    BY <1>12, IdsOfOne DEF Sources
  <2>2. Spliced(sources[p].id, IdsOf(Prepared(new)))
          = (Listed(a) \o IdsOf(Prepared(new))) \o Listed(b)
    BY <1>5, <1>6, <1>7, <2>1, SplicedIn
  <2> QED
    BY <1>1, <1>6, <1>13, <2>2, Zenon
<1>15. servers = ById(ServersOf(list))
  <2>1. Unique(ServersOf(list))
    BY <1>5, <1>10, UniqueIds
  <2>2. PICK A, B : A = ServersOf(a \o b) /\ B = ToSet(Prepared(new))
    OBVIOUS
  <2>3. Extended(ById(A), ById(B)) = ById(A \cup B)
    BY <1>13, <2>1, <2>2, ByIdExtended
  <2>4. NodesWithout(sources[p].id) = ById(ServersOf(a \o b))
    BY <1>5, <1>6, <1>7, WithoutSource
  <2> QED
    BY <1>1, <1>6, <1>13, <2>2, <2>3, <2>4, Zenon
<1> QED
  BY <1>3, <1>4, <1>10, <1>14, <1>15, SavedShown

\* The other steps leave the library and the file alone.
LEMMA SameShown ==
  ASSUME Shown, UNCHANGED <<sources, nodes, order, saving, file, up, readable>>
  PROVE  Shown'
<1>1. Stored' = Stored /\ (Unlocked' <=> Unlocked)
  BY DEF Stored, Unlocked
<1> QED
  BY <1>1 DEF Shown

\* One lemma for each step that saves, commits, dies or starts.
LEMMA StepShown == Inv /\ Inv' /\ Shown /\ [Next]_vars => Shown'
<1> SUFFICES ASSUME Inv, Inv', Shown, [Next]_vars PROVE Shown'
  OBVIOUS
<1>1. ASSUME NEW j \in Jobs, PreviewBegin(j) \/ RefreshBegin(j) PROVE Shown'
  BY <1>1, SameShown DEF PreviewBegin, RefreshBegin, Reserve
<1>2. ASSUME NEW j \in Jobs, PreviewEnd(j) \/ RefreshSnapshot(j) \/ RefreshFail(j) PROVE Shown'
  BY <1>2, SameShown DEF PreviewEnd, RefreshSnapshot, RefreshFail, slots
<1>3. CASE Discard \/ Connect \/ Reconnect \/ Switch \/ Disconnect \/ Block
  BY <1>3, SameShown DEF Discard, Connect, Reconnect, Switch, Disconnect, Block
<1>4. CASE UNCHANGED vars
  BY <1>4, SameShown DEF vars
<1> QED
  BY <1>1, <1>2, <1>3, <1>4, RefreshShown, ConfirmShown, RemoveShown, ResetShown, CommitShown,
     MachineShown DEF Next

\* What the user sees is what the next start shows, when memory is what was last read
\* or written.
THEOREM RestartTheorem == Spec => []RestartShowsTheSame
<1>1. Init => Shown
  BY InitShown
<1>2. Inv /\ Inv' /\ Shown /\ [Next]_vars => Shown'
  BY StepShown
<1>3. Shown => RestartShowsTheSame
  BY DEF Shown, RestartShowsTheSame, Listed
<1> QED
  BY <1>1, <1>2, <1>3, Invariance, PTL DEF Spec

-----------------------------------------------------------------------------
(* Types and limits *)

\* A source and previews within the bounds.
Bounded(s) == s.id \in SourceIds /\ s.kind \in Kinds /\ s.revision \in 0..MaxRevision
AllBounded(list) == \A i \in 1..Len(list) : Bounded(list[i])
PreviewsOK(previews) == \A t \in DOMAIN previews : t \in Tokens /\ previews[t].kind \in Kinds

\* A refresh begins only where there is a revision left for it.
JobOK(does) ==
    /\ does.does = "preview" => does.kind \in Kinds
    /\ does.does = "refresh" => does.original.revision < MaxRevision

\* The inductive invariant of types: the library in memory fits, and so does one that is
\* being saved; what the next start reads may be too large, and is then not shown.
Typed ==
    /\ AllBounded(sources) /\ AllBounded(Stored)
    /\ Fits(sources) /\ (saving # Nobody => Fits(Stored))
    /\ PreviewsOK(pending) /\ (saving # Nobody => PreviewsOK(saving.new.pending))
    /\ \A j \in Jobs : JobOK(jobs[j])
    /\ blocked \in {"no", "recovery", "exit"} /\ up \in BOOLEAN /\ readable \in BOOLEAN
    /\ imports \in 0..MaxImports

\* Nothing fits.
LEMMA NothingFits == Fits(<<>>) /\ AllBounded(<<>>)
<1>1. Len(Servers(<<>>)) = 0
  <2>1. PICK l : l = Servers(<<>>)
    OBVIOUS
  <2>2. l = <<>>
    BY <2>1, ServersEmpty
  <2> QED
    BY <2>1, <2>2
<1> QED
  BY <1>1, LimitsAssumption DEF Fits, AllBounded

\* What runs after a thread has begun or ended a command.
LEMMA JobsBegun ==
  ASSUME Slots, \A k \in Jobs : JobOK(jobs[k]), NEW j \in Jobs
  PROVE  /\ \A does : JobOK(does) /\ Begin(j, does) => \A k \in Jobs : JobOK(jobs'[k])
         /\ End(j) => \A k \in Jobs : JobOK(jobs'[k])
<1>1. ASSUME NEW does, JobOK(does), Begin(j, does) PROVE \A k \in Jobs : JobOK(jobs'[k])
  <2>1. jobs' = [k \in Jobs |-> IF k = j THEN does ELSE jobs[k]]
    BY <1>1 DEF Begin, Slots
  <2> QED
    BY <1>1, <2>1
<1>2. JobOK(Idle)
  BY DEF JobOK, Idle
<1>3. ASSUME End(j) PROVE \A k \in Jobs : JobOK(jobs'[k])
  <2>1. Begin(j, Idle)
    BY <1>3 DEF Begin, End
  <2> QED
    BY <1>1, <1>2, <2>1
<1> QED
  BY <1>1, <1>3

\* Steps that leave the library and the file alone.
LEMMA SameTyped ==
  ASSUME Typed, UNCHANGED <<sources, saving, file, up, readable, imports>>,
         PreviewsOK(pending'), \A k \in Jobs : JobOK(jobs'[k]), blocked' \in {"no", "recovery", "exit"}
  PROVE  Typed'
<1>1. Stored' = Stored
  BY DEF Stored
<1>2. Fits(sources)' = Fits(sources) /\ Fits(Stored)' = Fits(Stored)
  BY <1>1
<1>3. AllBounded(sources)' = AllBounded(sources) /\ AllBounded(Stored)' = AllBounded(Stored)
  BY <1>1
<1> QED
  BY <1>1, <1>2, <1>3 DEF Typed, PreviewsOK

\* Downloads and previews.
LEMMA SlotsTyped ==
  ASSUME Inv, Typed, NEW j \in Jobs,
         PreviewBegin(j) \/ PreviewEnd(j) \/ RefreshBegin(j) \/ RefreshSnapshot(j) \/ RefreshFail(j)
  PROVE  Typed'
<1>1. Slots /\ PreviewsOK(pending) /\ \A k \in Jobs : JobOK(jobs[k])
  BY DEF Inv, Typed
<1>2. blocked \in {"no", "recovery", "exit"}
  BY DEF Typed
<1>3. CASE PreviewBegin(j)
  <2>1. PICK k \in Kinds : Reserve(j, [does |-> "preview", kind |-> k])
    BY <1>3 DEF PreviewBegin
  <2>2. JobOK([does |-> "preview", kind |-> k])
    BY DEF JobOK
  <2>3. \A m \in Jobs : JobOK(jobs'[m])
    BY <1>1, <2>1, <2>2, JobsBegun DEF Reserve
  <2> QED
    BY <1>1, <1>2, <2>1, <2>3, SameTyped DEF Reserve
<1>4. CASE RefreshBegin(j)
  <2>1. JobOK([does |-> "reserved"])
    BY DEF JobOK
  <2>2. \A m \in Jobs : JobOK(jobs'[m])
    BY <1>1, <1>4, <2>1, JobsBegun DEF RefreshBegin, Reserve
  <2> QED
    BY <1>1, <1>2, <1>4, <2>2, SameTyped DEF RefreshBegin, Reserve
<1>5. CASE RefreshSnapshot(j)
  <2>1. PICK i \in 1..Len(sources) :
           /\ sources[i].revision < MaxRevision
           /\ Begin(j, [does |-> "refresh", original |-> sources[i]])
    BY <1>5 DEF RefreshSnapshot
  <2>2. JobOK([does |-> "refresh", original |-> sources[i]])
    BY <2>1 DEF JobOK
  <2>3. \A m \in Jobs : JobOK(jobs'[m])
    BY <1>1, <2>1, <2>2, JobsBegun
  <2> QED
    BY <1>1, <1>2, <1>5, <2>3, SameTyped DEF RefreshSnapshot, slots
<1>6. CASE PreviewEnd(j)
  <2>1. \A m \in Jobs : JobOK(jobs'[m])
    BY <1>1, <1>6, JobsBegun DEF PreviewEnd
  <2>2. PreviewsOK(pending')
    <3>1. jobs[j].kind \in Kinds
      BY <1>1, <1>6 DEF PreviewEnd, JobOK
    <3>2. ASSUME NEW c \in Subscriptions, NEW t \in Tokens \ DOMAIN pending,
                 pending' = [p \in DOMAIN pending \cup {t} |->
                               IF p = t THEN [kind |-> jobs[j].kind, content |-> c] ELSE pending[p]]
          PROVE  PreviewsOK(pending')
      BY <1>1, <3>1, <3>2 DEF PreviewsOK
    <3> QED
      BY <1>1, <1>6, <3>2 DEF PreviewEnd
  <2> QED
    BY <1>2, <1>6, <2>1, <2>2, SameTyped DEF PreviewEnd
<1>7. CASE RefreshFail(j)
  <2>1. \A m \in Jobs : JobOK(jobs'[m])
    BY <1>1, <1>7, JobsBegun DEF RefreshFail
  <2> QED
    BY <1>1, <1>2, <1>7, <2>1, SameTyped DEF RefreshFail
<1> QED
  BY <1>3, <1>4, <1>5, <1>6, <1>7

\* A discarded preview.
LEMMA DiscardTyped ==
  ASSUME Typed, Discard
  PROVE  Typed'
<1>1. /\ PreviewsOK(pending) /\ \A k \in Jobs : JobOK(jobs[k])
      /\ blocked \in {"no", "recovery", "exit"}
  BY DEF Typed
<1>2. PreviewsOK(pending')
  BY <1>1 DEF Discard, Without, PreviewsOK
<1> QED
  BY <1>1, <1>2, SameTyped DEF Discard

\* The session.
LEMMA SessionTyped ==
  ASSUME Typed, \/ Connect \/ Reconnect \/ Switch \/ Disconnect \/ Block \/ UNCHANGED vars
  PROVE  Typed'
<1>1. /\ PreviewsOK(pending) /\ \A k \in Jobs : JobOK(jobs[k])
      /\ blocked \in {"no", "recovery", "exit"}
  BY DEF Typed
<1>2. CASE Connect \/ Reconnect \/ Switch \/ Disconnect
  BY <1>1, <1>2, SameTyped DEF Connect, Reconnect, Switch, Disconnect
<1>3. CASE Block
  BY <1>1, <1>3, SameTyped DEF Block
<1>4. CASE UNCHANGED vars
  BY <1>1, <1>4, SameTyped DEF vars
<1> QED
  BY <1>2, <1>3, <1>4

\* What is saved fits.
LEMMA SavedTyped ==
  ASSUME Typed, NEW j \in Jobs, NEW new, saving' = [job |-> j, new |-> new],
         AllBounded(Stored'), Fits(Stored'), PreviewsOK(new.pending),
         \A k \in Jobs : JobOK(jobs'[k]), imports' \in 0..MaxImports,
         UNCHANGED <<sources, pending, blocked, up, readable>>
  PROVE  Typed'
<1>1. Fits(sources)' = Fits(sources) /\ Fits(Stored)' = Fits(Stored')
  OBVIOUS
<1>2. AllBounded(sources)' = AllBounded(sources) /\ AllBounded(Stored)' = AllBounded(Stored')
  OBVIOUS
<1>3. PreviewsOK(saving.new.pending)' = PreviewsOK(new.pending)
  OBVIOUS
<1> QED
  BY <1>1, <1>2, <1>3 DEF Typed, PreviewsOK

\* An import.
LEMMA ConfirmTyped ==
  ASSUME Inv, Typed, NEW j \in Jobs, Confirm(j)
  PROVE  Typed'
<1>1. PICK t, new, list, servers, ids :
        /\ t \in DOMAIN pending
        /\ new = Source(imports + 1, pending[t].kind, pending[t].content, 0, <<>>)
        /\ list = Append(sources, new)
        /\ Fits(list)
        /\ Save(j, Library(list, servers, ids, Without(t)))
  BY DEF Confirm
<1>2. PICK lib : lib = Library(list, servers, ids, Without(t))
  OBVIOUS
<1>3. /\ file' = File(lib.sources) /\ saving' = [job |-> j, new |-> lib]
      /\ lib.sources = list /\ lib.pending = Without(t)
  BY <1>1, <1>2 DEF Save, Library
<1>4. /\ Stored' = list /\ imports' = imports + 1 /\ imports < MaxImports
      /\ Begin(j, [does |-> "confirm"]) /\ UNCHANGED <<sources, pending, blocked, up, readable>>
  BY <1>3 DEF Confirm, Stored, File, NoFile
<1>5. \A k \in Jobs : JobOK(jobs'[k])
  <2>1. JobOK([does |-> "confirm"])
    BY DEF JobOK
  <2> QED
    BY <1>4, <2>1, JobsBegun DEF Inv, Typed
<1>6. imports' \in 0..MaxImports
  BY <1>4, LimitsAssumption DEF Typed
<1>7. AllBounded(list)
  <2>1. Bounded(new)
    BY <1>1, <1>4, <1>6, LimitsAssumption DEF Bounded, Source, SourceIds, Legacy, Typed, PreviewsOK
  <2>2. sources \in Seq(ToSet(sources))
    BY DEF Inv, Lists, ListOK
  <2>3. /\ Len(list) = Len(sources) + 1 /\ Len(sources) \in Nat
        /\ list[Len(sources) + 1] = new /\ \A i \in 1..Len(sources) : list[i] = sources[i]
    BY <1>1, <2>2
  <2>4. \A i \in 1..Len(list) : i \in 1..Len(sources) \/ i = Len(sources) + 1
    BY <2>3
  <2> QED
    BY <2>1, <2>3, <2>4 DEF AllBounded, Typed
<1>8. PreviewsOK(lib.pending)
  BY <1>3 DEF Typed, PreviewsOK, Without
<1> QED
  BY <1>1, <1>3, <1>4, <1>5, <1>6, <1>7, <1>8, SavedTyped

\* A refresh.
LEMMA RefreshTyped ==
  ASSUME Inv, Typed, NEW j \in Jobs, RefreshSave(j)
  PROVE  Typed'
<1>1. PICK content, original, new, p, list, servers, ids :
        /\ original = jobs[j].original
        /\ new = Source(original.id, original.kind, content, original.revision + 1,
                        RefreshedIds(original, content))
        /\ p = Position(sources, original.id)
        /\ list = [sources EXCEPT ![p] = new]
        /\ Unchanged(original) /\ jobs[j].does = "refresh"
        /\ Fits(list)
        /\ Save(j, Library(list, servers, ids, pending))
  BY DEF RefreshSave
<1>2. PICK lib : lib = Library(list, servers, ids, pending)
  OBVIOUS
<1>3. /\ file' = File(lib.sources) /\ saving' = [job |-> j, new |-> lib]
      /\ lib.sources = list /\ lib.pending = pending
  BY <1>1, <1>2 DEF Save, Library
<1>4. Stored' = list /\ UNCHANGED <<sources, pending, jobs, blocked, up, readable, imports>>
  BY <1>3 DEF RefreshSave, Stored, File, NoFile
<1>5. /\ p \in 1..Len(sources) /\ Bounded(original) /\ sources \in Seq(ToSet(sources))
  <2>1. PICK i \in 1..Len(sources) : sources[i] = original
    BY <1>1 DEF Unchanged
  <2>2. p \in 1..Len(sources)
    BY <1>1, <2>1 DEF Position
  <2> QED
    BY <2>1, <2>2 DEF Inv, Lists, ListOK, Typed, AllBounded
<1>6. Bounded(new)
  <2>1. original.revision < MaxRevision
    BY <1>1 DEF Typed, JobOK
  <2> QED
    BY <1>1, <1>5, <2>1, LimitsAssumption DEF Bounded, Source
<1>7. AllBounded(list)
  <2>1. sources \in Seq(ToSet(sources) \cup {new})
    BY <1>5, SeqMonotonic
  <2>2. /\ Len(list) = Len(sources)
        /\ list[p] = new /\ \A i \in 1..Len(sources) : i # p => list[i] = sources[i]
    BY <1>1, <1>5, <2>1
  <2> QED
    BY <1>6, <2>2 DEF AllBounded, Typed
<1>8. imports' \in 0..MaxImports /\ PreviewsOK(lib.pending) /\ \A k \in Jobs : JobOK(jobs'[k])
  BY <1>3, <1>4 DEF Typed
<1> QED
  BY <1>1, <1>3, <1>4, <1>7, <1>8, SavedTyped

\* A removal: fewer sources, fewer servers.
LEMMA RemoveTyped ==
  ASSUME Inv, Shown, Typed, NEW j \in Jobs, RemoveSource(j)
  PROVE  Typed'
<1>1. PICK id, p, list, servers, ids :
        /\ id \in SourceIdsOf(sources)
        /\ p = Position(sources, id) /\ list = RemoveAt(sources, p)
        /\ Save(j, Library(list, servers, ids, pending))
  BY DEF RemoveSource
<1>2. PICK lib : lib = Library(list, servers, ids, pending)
  OBVIOUS
<1>3. /\ file' = File(lib.sources) /\ saving' = [job |-> j, new |-> lib]
      /\ lib.sources = list /\ lib.pending = pending
  BY <1>1, <1>2 DEF Save, Library
<1>4. /\ Stored' = list /\ Begin(j, [does |-> "remove"])
      /\ UNCHANGED <<sources, pending, blocked, up, readable, imports>>
  BY <1>3 DEF RemoveSource, Stored, File, NoFile
<1>5. p \in 1..Len(sources) /\ Lists
  BY <1>1 DEF SourceIdsOf, Position, Inv
<1>6. /\ Len(list) = Len(sources) - 1 /\ Len(sources) \in Nat
      /\ \A i \in 1..(Len(sources) - 1) : list[i] = sources[IF i < p THEN i ELSE i + 1]
  <2>1. sources \in Seq(ToSet(sources))
    BY <1>5 DEF Lists, ListOK
  <2> QED
    BY <1>1, <1>5, <2>1, Removed
<1>7. AllBounded(list)
  <2>1. \A i \in 1..Len(list) : (IF i < p THEN i ELSE i + 1) \in 1..Len(sources)
    BY <1>5, <1>6
  <2> QED
    BY <1>6, <2>1 DEF AllBounded, Typed
<1>8. Fits(list)
  <2>1. PICK a, b : Splits(sources, a, b, p)
    BY <1>5, SplitsThere
  <2>2. list = a \o b
    BY <1>1, <2>1 DEF Splits
  <2>3. PICK f, g, h, S : /\ f = Listed(a) /\ g = IdsOf(Prepared(sources[p])) /\ h = Listed(b)
                          /\ S = ToSet(sources)
    OBVIOUS
  <2>4. /\ Sources(S) /\ a \in Seq(S) /\ b \in Seq(S)
        /\ order = (f \o g) \o h /\ f \in Seq(IdsIn(a)) /\ h \in Seq(IdsIn(b))
    BY <1>5, <2>1, <2>3, AroundSource
  <2>5. Listed(a \o b) = f \o h
    <3>1. Listed(a) \o Listed(b) = Listed(a \o b)
      BY <1>5, <2>1, WithoutSource
    <3> QED
      BY <2>3, <3>1, Zenon
  <2>6. g \in Seq(OwnIds(sources[p]))
    BY <1>5, <2>3, OwnedList, IdsOfOne DEF Lists, Owned
  <2>7. Len(f \o h) = Len(f) + Len(h) /\ Len(order) = Len(f) + Len(g) + Len(h)
    BY <2>4, <2>6
  <2>8. Len(Listed(list)) = Len(Servers(list))
    <3>1. list \in Seq(S)
      BY <2>2, <2>4
    <3> QED
      BY <2>4, <3>1, ListedInList
  <2>9. Len(order) = Len(Servers(sources))
    <3>1. Len(Listed(sources)) = Len(Servers(sources))
      BY <1>5, OwnedList, ListedInList DEF Lists
    <3> QED
      BY <3>1 DEF Shown
  <2>10. Len(Listed(list)) = Len(f \o h)
    BY <2>2, <2>5, Zenon
  <2>11. Len(f) \in Nat /\ Len(g) \in Nat /\ Len(h) \in Nat
    BY <2>4, <2>6
  <2>12. Len(sources) <= MaxSources /\ Len(Servers(sources)) <= MaxNodes
    BY DEF Typed, Fits
  <2>13. Len(list) <= MaxSources
    BY <1>6, <2>12, LimitsAssumption
  <2>14. Len(Servers(list)) <= MaxNodes
    BY <2>7, <2>8, <2>9, <2>10, <2>11, <2>12, LimitsAssumption
  <2> QED
    BY <2>13, <2>14 DEF Fits
<1>9. \A k \in Jobs : JobOK(jobs'[k])
  <2>1. JobOK([does |-> "remove"])
    BY DEF JobOK
  <2> QED
    BY <1>4, <2>1, JobsBegun DEF Inv, Typed
<1>10. imports' \in 0..MaxImports /\ PreviewsOK(lib.pending)
  BY <1>3, <1>4 DEF Typed
<1> QED
  BY <1>3, <1>4, <1>7, <1>8, <1>9, <1>10, SavedTyped

\* A reset.
LEMMA ResetTyped ==
  ASSUME Inv, Typed, NEW j \in Jobs, ResetLocalState(j)
  PROVE  Typed'
<1>1. PICK lib : lib = Library(<<>>, <<>>, <<>>, <<>>)
  OBVIOUS
<1>2. /\ file' = NoFile /\ saving' = [job |-> j, new |-> lib]
      /\ lib.pending = <<>> /\ Begin(j, [does |-> "reset"])
      /\ UNCHANGED <<sources, pending, blocked, up, readable, imports>>
  BY <1>1 DEF ResetLocalState, Library
<1>3. Stored' = <<>> /\ AllBounded(Stored') /\ Fits(Stored')
  <2>1. Stored' = <<>>
    BY <1>2 DEF Stored
  <2> QED
    BY <2>1, NothingFits
<1>4. PreviewsOK(lib.pending)
  BY <1>2 DEF PreviewsOK
<1>5. \A k \in Jobs : JobOK(jobs'[k])
  <2>1. JobOK([does |-> "reset"])
    BY DEF JobOK
  <2> QED
    BY <1>2, <2>1, JobsBegun DEF Inv, Typed
<1>6. imports' \in 0..MaxImports
  BY <1>2 DEF Typed
<1> QED
  BY <1>2, <1>3, <1>4, <1>5, <1>6, SavedTyped

\* What was saved fits, and is taken into memory.
LEMMA CommitTyped ==
  ASSUME Inv, Typed, NEW j \in Jobs, Commit(j)
  PROVE  Typed'
<1>1. /\ saving # Nobody /\ saving' = Nobody /\ sources' = Stored /\ Stored' = Stored
      /\ pending' = saving.new.pending /\ readable' = TRUE /\ UNCHANGED <<blocked, up, imports>>
      /\ End(j)
  BY DEF Inv, Held, Commit, Stored
<1>2. \A k \in Jobs : JobOK(jobs'[k])
  BY <1>1, JobsBegun DEF Inv, Typed
<1>3. Fits(sources)' = Fits(Stored) /\ AllBounded(sources)' = AllBounded(Stored)
  BY <1>1
<1>4. AllBounded(Stored)' = AllBounded(Stored) /\ PreviewsOK(pending)' = PreviewsOK(saving.new.pending)
  BY <1>1
<1> QED
  BY <1>1, <1>2, <1>3, <1>4 DEF Typed

\* A crash empties the memory; a start takes a stored library that fits.
LEMMA MachineTyped ==
  ASSUME Inv, Typed, Crash \/ Start
  PROVE  Typed'
<1>1. Stored' = Stored /\ AllBounded(Stored)' = AllBounded(Stored)
  BY DEF Crash, Start, Stored
<1>2. CASE Crash
  <2>1. Fits(sources)' /\ AllBounded(sources)'
    BY <1>2, NothingFits DEF Crash
  <2>2. PreviewsOK(pending)' /\ \A k \in Jobs : JobOK(jobs'[k])
    BY <1>2 DEF Crash, PreviewsOK, JobOK, Idle
  <2>3. /\ saving' = Nobody /\ blocked' = "no" /\ up' = FALSE /\ readable' = TRUE
        /\ imports' = imports
    BY <1>2 DEF Crash
  <2> QED
    BY <1>1, <2>1, <2>2, <2>3 DEF Typed
<1>3. CASE Start
  <2>1. saving = Nobody /\ UNCHANGED <<saving, pending, jobs, blocked, imports>>
    BY <1>3 DEF Inv, Off, Start
  <2>2. Fits(sources') /\ AllBounded(sources') /\ up' \in BOOLEAN /\ readable' \in BOOLEAN
    <3>1. CASE Fits(Stored) /\ readable' = TRUE /\ sources' = Stored
      BY <1>3, <3>1 DEF Typed, Start
    <3>2. CASE readable' = FALSE /\ sources' = <<>>
      BY <1>3, <3>2, NothingFits DEF Start
    <3> QED
      BY <1>3, <3>1, <3>2 DEF Start
  <2> QED
    BY <1>1, <2>1, <2>2 DEF Typed, PreviewsOK
<1> QED
  BY <1>2, <1>3

\* Nothing is in memory before the first start.
LEMMA InitTyped == Init => Typed
<1> SUFFICES ASSUME Init PROVE Typed
  OBVIOUS
<1>1. Fits(sources) /\ AllBounded(sources)
  BY NothingFits DEF Init
<1>2. AllBounded(Stored)
  <2>1. CASE file = NoFile
    BY <2>1, NothingFits DEF Stored
  <2>2. CASE file # NoFile
    <3>1. PICK c \in Subscriptions \ {<<>>} :
             file = File(<<Source(Legacy, "subscription", c, 0, <<>>)>>)
      BY <2>2 DEF Init
    <3> DEFINE s == Source(Legacy, "subscription", c, 0, <<>>)
    <3>2. Stored = <<s>>
      BY <2>2, <3>1 DEF Stored, File
    <3>3. Bounded(s)
      BY LimitsAssumption DEF Bounded, Source, SourceIds, Legacy, Kinds
    <3> HIDE DEF s
    <3> QED
      BY <3>2, <3>3 DEF AllBounded
  <2> QED
    BY <2>1, <2>2
<1>3. PreviewsOK(pending) /\ \A k \in Jobs : JobOK(jobs[k])
  BY DEF Init, PreviewsOK, JobOK, Idle
<1>4. /\ saving = Nobody /\ blocked = "no" /\ up = FALSE /\ readable = TRUE /\ imports = 0
  BY DEF Init
<1>5. imports \in 0..MaxImports
  BY <1>4, LimitsAssumption
<1> QED
  BY <1>1, <1>2, <1>3, <1>4, <1>5 DEF Typed

\* One lemma for each group of steps.
LEMMA StepTyped == Inv /\ Shown /\ Typed /\ [Next]_vars => Typed'
  BY DiscardTyped, SlotsTyped, SessionTyped, ConfirmTyped, RefreshTyped, RemoveTyped, ResetTyped, CommitTyped,
     MachineTyped DEF Next

\* The types, the limits of the library, and that every server is listed exactly once.
THEOREM TypeTheorem == Spec => []TypeOK
<1>1. Init => Shown /\ Typed
  BY InitShown, InitTyped
<1>2. Inv /\ Inv' /\ Shown /\ Typed /\ [Next]_vars => Shown' /\ Typed'
  BY StepShown, StepTyped
<1>3. ASSUME Inv, Shown, Typed PROVE TypeOK
  <2>1. Owned(sources) /\ Sources(ToSet(sources)) /\ sources \in Seq(ToSet(sources))
    BY <1>3, OwnedList DEF Inv, Lists
  <2>2. \A i \in 1..Len(sources) :
          /\ sources[i].id \in SourceIds /\ sources[i].kind \in Kinds
          /\ sources[i].content \in Subscriptions /\ sources[i].revision \in 0..MaxRevision
    BY <1>3, <2>1 DEF Typed, AllBounded, Bounded, Owned
  <2>3. Len(sources) <= MaxSources /\ Len(Servers(sources)) <= MaxNodes
    BY <1>3 DEF Typed, Fits
  <2>4. IsInjective(order) /\ ToSet(order) = IdsIn(sources) /\ Len(order) = Len(Servers(sources))
    <3>1. IsInjective(Listed(sources)) /\ ToSet(Listed(sources)) = IdsIn(sources)
      BY <1>3, <2>1, ListedOnce DEF Shown
    <3>2. Len(Listed(sources)) = Len(Servers(sources))
      BY <2>1, ListedInList
    <3>3. order = Listed(sources)
      BY <1>3 DEF Shown
    <3> QED
      BY <3>1, <3>2, <3>3
  <2>5. DOMAIN nodes = IdsIn(sources)
    <3>1. Unique(ServersOf(sources))
      BY <1>3, <2>1, UniqueIds DEF Shown
    <3>2. nodes = ById(ServersOf(sources))
      BY <1>3 DEF Shown
    <3> QED
      BY <3>1, <3>2, ByIdFacts DEF IdsIn
  <2>6. inflight \in 0..MaxPreviews
    <3>1. inflight \in Nat /\ Cardinality(DOMAIN pending) \in Nat
      BY <1>3, FS_CardinalityType DEF Inv, Slots, PendingOK
    <3> QED
      BY <1>3, <3>1, LimitsAssumption DEF Inv, Slots
  <2>7. saving # Nobody => saving.job \in Jobs /\ jobs[saving.job] # Idle
    BY <1>3 DEF Inv, Held, Saves, Idle
  <2>8. DOMAIN pending \subseteq Tokens
    BY <1>3 DEF Typed, PreviewsOK
  <2>9. DOMAIN nodes = ToSet(order) /\ Len(order) <= MaxNodes
    BY <2>3, <2>4, <2>5
  <2>10. /\ blocked \in {"no", "recovery", "exit"} /\ up \in BOOLEAN /\ readable \in BOOLEAN
         /\ imports \in 0..MaxImports
    BY <1>3 DEF Typed
  <2> QED
    BY <2>2, <2>3, <2>4, <2>6, <2>7, <2>8, <2>9, <2>10 DEF TypeOK
<1> QED
  BY <1>1, <1>2, <1>3, Invariance, PTL DEF Spec

=============================================================================
