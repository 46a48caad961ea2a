----------------------- MODULE SessionDirectoryProofs ------------------------
(***************************************************************************)
(* CleanupIsSafe of SessionDirectory, for every set of execution files and  *)
(* any number of foreign files: what the owners, the helper and a cleanup   *)
(* leave behind is, wherever they are killed, empty or marked and known.    *)
(***************************************************************************)
EXTENDS SessionDirectory, TLAPS

\* No engine file is what stands for a directory or for a file of somebody else.
NamesApart == EngineFiles \cap {"itself", "foreign"} = {}

\* Where an owner makes its session, has it, and leaves it.
Creating == {"new", "tmp", "moved", "marking"}
Standing == {"made", "sealing", "up", "unsealing", "sealed", "first", "rewriting"}
Leaving  == {"gone", "closing", "evidence", "marker", "directory"}

\* The files an owner or the helper writes.
FileNames ==
    EngineFiles \cup {"config.json", "config.tmp", "session-owner.json", "tun-journal.json"}

Phases == Creating \cup Standing \cup Leaving \cup {"undo"}

\* What is there, whatever was torn and whatever others put there.
Layout ==
    /\ dirs \subseteq Directories /\ part \subseteq disk
    /\ disk \subseteq dirs \X (FileNames \cup {"foreign"})
    /\ foreign \subseteq disk /\ foreign \subseteq Directories \X {"foreign"}
    /\ at \in [Homes -> Phases]
    /\ \A d \in Homes : Children(d) \cap dirs # {} => d \in dirs

\* A session in use has its directory, and what it has written.
InUse ==
    /\ \A h \in Homes : Leased(h) => h \in dirs
    /\ at["outer"] \in Creating \cup {"undo"} => ~Leased("nested")
    /\ \A h \in Homes : at[h] \in {"moved", "marking"} \cup (Standing \ {"unsealing"}) => Config(h) \in disk
    /\ \A h \in Homes : at[h] \in {"marking"} \cup (Standing \ {"unsealing"}) => Marker(h) \in disk
    /\ \A h \in Homes : at[h] = "sealing" => Engine(h) \in dirs
    /\ at["nested"] \in {"first", "up", "rewriting"} => Journal \in disk

\* A cleanup runs without sessions in use, and its plan has no file of others.
Planned ==
    /\ plan = [kind |-> plan.kind, left |-> plan.left] /\ plan.kind \in {"none", "marked", "legacy"}
    /\ (plan.kind = "none") = (plan.left = {})
    /\ plan # Nothing => at["outer"] = "gone" /\ ~Leased("nested")
    /\ plan.left \subseteq Directories \X (FileNames \cup {"itself"})
    /\ plan # Nothing /\ foreign = {} =>
          disk \subseteq plan.left /\ \A d \in dirs : Itself(d) \in plan.left

\* What can be recognised as a session's: a marker, and nothing unknown or torn.
Kept(h) ==
    /\ Marker(h) \in disk
    /\ \A f \in In(h) : /\ f[2] \in Names(h)
                        /\ f \in part => f = Journal
    /\ \A f \in In(Engine(h)) : /\ f[2] \in EngineFiles
                                /\ f \in part => at[h] \in {"sealing", "unsealing"}

NoChild(h) == Children(h) \cap dirs = {}

\* How far the owner of h got, in what is there.
Progress(h) ==
    /\ at[h] = "new" => Empty(h)
    /\ at[h] = "tmp" => In(h) \subseteq {Temporary(h)} /\ NoChild(h)
    /\ at[h] = "moved" => In(h) = {Config(h)} /\ Config(h) \notin part /\ NoChild(h)
    /\ at[h] = "marking" => /\ In(h) = {Config(h), Marker(h)} /\ Config(h) \notin part /\ NoChild(h)
    /\ at[h] \in Standing => Kept(h)
    /\ at[h] \in Leaving => Empty(h) \/ Kept(h)
    /\ at[h] = "marker" => In(h) \subseteq {Marker(h)} /\ NoChild(h)

\* What a version before the markers left, and what its cleanup leaves of that.
OldLeft == Legacy /\ \A h \in Homes : at[h] = "gone"

Recognised ==
    ~torn /\ foreign = {} =>
        \/ OldLeft /\ plan.kind # "marked"
        \/ (\A h \in Homes : Progress(h)) /\ (plan.kind = "legacy" => disk = {})

\* The journal is torn only inside a write of it.
Journalled == ~torn /\ Journal \in part => at["nested"] \in {"first", "rewriting"}

Inv == Layout /\ InUse /\ Planned /\ Journalled /\ Recognised

USE DEF Goto, Files, Rest, Add, Written, Remove, Left, Homes

LEMMA FilesApart ==
  ASSUME NamesApart
  PROVE  "itself" \notin FileNames /\ "foreign" \notin FileNames
<1>1. "itself" \notin EngineFiles /\ "foreign" \notin EngineFiles
  BY DEF NamesApart
<1> QED
  BY <1>1 DEF FileNames

LEMMA InitInv == Init => Inv
<1> SUFFICES ASSUME Init PROVE Inv
  OBVIOUS
<1>1. Layout
  BY DEF Init, Layout, Directories, Phases, Leaving, Config, Journal, FileNames
<1>2. InUse
  BY DEF Init, InUse, Leased, Standing
<1>3. Planned /\ Journalled
  BY DEF Init, Planned, Nothing, Journalled
<1>4. Recognised
  BY DEF Init, Recognised, OldLeft, Legacy, Progress, Empty, In, Whole, Config, Marker, Journal,
         Engines, Engine, Standing, Nothing
<1> QED
  BY <1>1, <1>2, <1>3, <1>4 DEF Inv

\* What another owner does is no matter to the progress of g.
LEMMA Other ==
  ASSUME NEW g \in Homes, Progress(g), at'[g] = at[g], In(g)' = In(g), In(Engine(g))' = In(Engine(g)),
         part' \cap (In(g) \cup In(Engine(g))) \subseteq part,
         at[g] \notin Standing /\ NoChild(g) => NoChild(g)'
  PROVE  Progress(g)'
<1>1. Marker(g) \in disk => Marker(g) \in disk'
  BY DEF In, Marker
<1>2. Kept(g) => Kept(g)'
  BY <1>1 DEF Kept
<1>3. at[g] \notin Standing /\ Empty(g) => Empty(g)'
  BY DEF Empty, NoChild
<1> QED
  BY <1>2, <1>3 DEF Progress, Standing

\* Files of other programs are there as long as nobody removes one.
LEMMA Fewer ==
  ASSUME Layout, foreign' = foreign, \A f \in disk : f \notin disk' => f[2] # "foreign"
  PROVE  foreign' \subseteq disk' /\ foreign' \subseteq Directories \X {"foreign"}
  BY DEF Layout

\* A session in use: no cleanup runs, and its directory is in its parent's.
LEMMA Busy ==
  ASSUME Inv, NEW h \in Homes, Leased(h)
  PROVE  /\ plan = Nothing /\ h \in dirs /\ "outer" \in dirs
         /\ h = "nested" => at["outer"] \notin Creating \cup {"undo"} /\ ~Empty("outer") /\ ~NoChild("outer")
<1>1. plan = Nothing
  BY DEF Inv, Planned, Leased
<1>2. h \in dirs
  BY DEF Inv, InUse
<1>3. h = "nested" => "outer" \in dirs
  BY <1>2 DEF Inv, Layout, Children
<1>4. h = "nested" => at["outer"] \notin Creating \cup {"undo"} /\ ~Empty("outer") /\ ~NoChild("outer")
  BY DEF Inv, InUse, Empty, NoChild, Children
<1> QED
  BY <1>1, <1>2, <1>3, <1>4

\* Progress is a matter of what is there and where the owners are.
LEMMA Same ==
  ASSUME UNCHANGED <<dirs, disk, part, at>>
  PROVE  (OldLeft => OldLeft') /\ \A h \in Homes : Progress(h) => Progress(h)'
<1>1. Legacy => Legacy'
  BY DEF Legacy, Whole, In
<1>2. ASSUME NEW h \in Homes, Progress(h) PROVE Progress(h)'
  BY <1>2, Other DEF In, NoChild
<1> QED
  BY <1>1, <1>2 DEF OldLeft

\* Something with an owner is not what an older version left.
LEMMA Owned ==
  ASSUME Inv, NEW h \in Homes, at[h] # "gone", ~torn, foreign = {}
  PROVE  /\ \A g \in Homes : Progress(g)
         /\ plan.kind = "legacy" => disk = {}
  BY DEF Inv, Recognised, OldLeft

\* Each step of an owner: the layout, what it uses, the plan, the journal, and how
\* far its own session and the other one got.
LEMMA MakeInv ==
  ASSUME Inv, NEW h \in Homes, Make(h)
  PROVE  Inv'
<1>1. Layout'
  <2>1. at' \in [Homes -> Phases]
    BY DEF Inv, Make, Layout, Phases, Creating
  <2>2. /\ dirs' \subseteq Directories /\ part' \subseteq disk'
        /\ \A d \in Homes : Children(d) \cap dirs' # {} => d \in dirs'
    BY DEF Inv, Make, Layout, InUse, Leased, Directories, Children
  <2>3. disk' \subseteq dirs' \X (FileNames \cup {"foreign"})
    BY DEF Inv, Make, Layout
  <2>4. foreign' \subseteq disk' /\ foreign' \subseteq Directories \X {"foreign"}
    BY DEF Inv, Make, Layout, Config, Temporary, Journal, In
  <2> QED
    BY <2>1, <2>2, <2>3, <2>4 DEF Layout
<1>2. InUse'
  BY DEF Inv, Make, InUse, Leased, Creating, Standing, In, Empty
<1>3. Planned'
  BY DEF Inv, Make, Planned
<1>4. Journalled'
  BY DEF Inv, Make, Journalled
<1>5. Recognised'
  <2> SUFFICES ASSUME ~torn', foreign' = {}
               PROVE  (\A g \in Homes : Progress(g)') /\ (plan'.kind = "legacy" => disk' = {})
    BY DEF Recognised
  <2>1. /\ ~torn /\ foreign = {} /\ \A g \in Homes : Progress(g)
        /\ plan.kind = "legacy" => disk = {}
    BY DEF Make, Inv, Recognised, OldLeft, Legacy, Layout
  <2>2. plan'.kind = "legacy" => disk' = {}
    BY DEF Make, Nothing
  <2>3. Progress(h)'
    BY DEF Make, Inv, Layout, Progress, Empty, In, Standing, Children
  <2>4. ASSUME NEW g \in Homes, g # h
        PROVE  Progress(g)'
    <3>1. at'[g] = at[g] /\ (at[g] \notin Standing /\ NoChild(g) => NoChild(g)')
      BY <2>4 DEF Make, NoChild, Children, Standing
    <3>2. /\ In(g)' = In(g) /\ In(Engine(g))' = In(Engine(g))
          /\ part' \cap (In(g) \cup In(Engine(g))) \subseteq part
      BY DEF Make, In, Config, Journal
    <3> QED
      BY <2>1, <3>1, <3>2, Other
  <2> QED
    BY <2>2, <2>3, <2>4
<1> QED
  BY <1>1, <1>2, <1>3, <1>4, <1>5 DEF Inv

LEMMA CreateInv ==
  ASSUME Inv, NEW h \in Homes, Create(h)
  PROVE  Inv'
<1>1. Layout'
  <2>1. at' \in [Homes -> Phases]
    BY DEF Inv, Create, Layout, Phases, Creating, Standing
  <2>2. /\ dirs' \subseteq Directories /\ part' \subseteq disk'
        /\ \A d \in Homes : Children(d) \cap dirs' # {} => d \in dirs'
    BY DEF Inv, Create, Layout
  <2>3. disk' \subseteq dirs' \X (FileNames \cup {"foreign"})
    BY DEF Inv, Create, Layout, InUse, Leased, Config, Temporary, Marker, FileNames
  <2>4. foreign' \subseteq disk' /\ foreign' \subseteq Directories \X {"foreign"}
    <3>1. foreign' = foreign /\ \A f \in disk : f \notin disk' => f[2] # "foreign"
      BY DEF Create, Temporary
    <3> QED
      BY <3>1, Fewer DEF Inv
  <2> QED
    BY <2>1, <2>2, <2>3, <2>4 DEF Layout
<1>2. InUse'
  BY DEF Inv, Create, Layout, InUse, Leased, Creating, Standing, Config, Temporary, Marker
<1>3. Planned'
  BY DEF Inv, Create, Planned, Leased
<1>4. Journalled'
  BY DEF Inv, Create, Journalled, Layout, Temporary, Marker, Journal
<1>5. Recognised'
  <2> SUFFICES ASSUME ~torn', foreign' = {}
               PROVE  (\A g \in Homes : Progress(g)') /\ (plan'.kind = "legacy" => disk' = {})
    BY DEF Recognised
  <2>1. /\ ~torn /\ foreign = {} /\ \A g \in Homes : Progress(g)
        /\ plan.kind = "legacy" => disk = {}
    <3>1. at[h] # "gone" /\ ~torn /\ foreign = {}
      BY DEF Create
    <3> QED
      BY <3>1, Owned
  <2>2. plan'.kind = "legacy" => disk' = {}
    <3>1. plan' = plan /\ Leased(h)
      BY DEF Create, Leased
    <3> QED
      BY <3>1, Busy DEF Nothing
  <2>3. Progress(h)'
    <3> USE DEF Create, Config, Temporary, Marker, In
    <3>0. Progress(h) /\ dirs' = dirs /\ (NoChild(h) => NoChild(h)')
      BY <2>1 DEF NoChild
    <3>1. CASE at[h] = "new" /\ at'[h] = "tmp"
      BY <3>0, <3>1 DEF Progress, Empty, NoChild, Standing, Leaving
    <3>2. CASE at[h] = "tmp" /\ at'[h] = "tmp"
      BY <3>0, <3>2 DEF Progress, Standing, Leaving, Inv, Layout
    <3>3. CASE at[h] = "tmp" /\ at'[h] = "moved"
      BY <3>0, <3>3 DEF Progress, Standing, Leaving, Inv, Layout
    <3>4. CASE at[h] = "moved" /\ at'[h] = "marking"
      BY <3>0, <3>4 DEF Progress, Standing, Leaving, Inv, Layout
    <3>5. CASE at[h] = "marking" /\ at'[h] = "made"
      <4>1. In(Engine(h)) = {}
        BY <3>0, <3>5 DEF Progress, NoChild, Children, Engine, Inv, Layout
      <4>2. Kept(h)'
        BY <3>0, <3>5, <4>1 DEF Progress, Kept, Names, Inv, Layout
      <4> QED
        BY <3>5, <4>2 DEF Progress
    <3>6. CASE at'[h] = "undo"
      BY <3>6 DEF Progress, Standing, Leaving
    <3> QED
      BY <3>1, <3>2, <3>3, <3>4, <3>5, <3>6 DEF Inv, Layout
  <2>4. ASSUME NEW g \in Homes, g # h
        PROVE  Progress(g)'
    <3>1. at'[g] = at[g] /\ (at[g] \notin Standing /\ NoChild(g) => NoChild(g)')
      BY <2>4 DEF Create, Inv, Layout, NoChild
    <3>2. /\ In(g)' = In(g) /\ In(Engine(g))' = In(Engine(g))
          /\ part' \cap (In(g) \cup In(Engine(g))) \subseteq part
      BY <2>4 DEF Create, In, Engine, Config, Temporary, Marker
    <3> QED
      BY <2>1, <3>1, <3>2, Other
  <2> QED
    BY <2>2, <2>3, <2>4
<1> QED
  BY <1>1, <1>2, <1>3, <1>4, <1>5 DEF Inv

LEMMA UndoInv ==
  ASSUME Inv, NEW h \in Homes, Undo(h)
  PROVE  Inv'
<1>1. Layout'
  <2>1. at' \in [Homes -> Phases]
    BY DEF Inv, Undo, Layout, Phases, Leaving
  <2>2. /\ dirs' \subseteq Directories /\ part' \subseteq disk'
        /\ \A d \in Homes : Children(d) \cap dirs' # {} => d \in dirs'
    BY DEF Inv, Undo, Layout, Empty
  <2>3. disk' \subseteq dirs' \X (FileNames \cup {"foreign"})
    BY DEF Inv, Undo, Layout, In, Empty
  <2>4. foreign' \subseteq disk' /\ foreign' \subseteq Directories \X {"foreign"}
    BY DEF Inv, Undo, Layout, Config, Journal
  <2> QED
    BY <2>1, <2>2, <2>3, <2>4 DEF Layout
<1>2. InUse'
  <2>1. \A f \in disk : f \notin disk' => f[1] = h
    BY DEF Undo, In
  <2>2. \A g \in Homes : /\ at'[g] = at[g] \/ at'[g] = "gone"
                         /\ g # h \/ at'[g] \in {"undo", "gone"}
    BY DEF Undo, Inv, Layout, Phases
  <2>3. h = "outer" => ~Leased("nested")
    BY DEF Inv, InUse, Undo
  <2>5. \A g \in Homes : at'[g] \in {"moved", "marking"} \cup Standing => at'[g] = at[g] /\ g # h
    BY <2>2 DEF Standing
  <2>4. \A d \in dirs : d \notin dirs' => d = h /\ at'[h] = "gone"
    BY DEF Undo, Inv, Layout
  <2> USE <2>1, <2>2, <2>4, <2>5 DEF Inv, InUse
  <2>6. \A g \in Homes : Leased(g)' => g \in dirs'
    BY DEF Leased
  <2>7. at'["outer"] \in Creating \cup {"undo"} => ~Leased("nested")'
    BY DEF Leased, Creating
  <2>8. \A g \in Homes : at'[g] \in {"moved", "marking"} \cup (Standing \ {"unsealing"}) =>
            /\ Config(g) \in disk'
            /\ at'[g] # "moved" => Marker(g) \in disk'
            /\ at'[g] = "sealing" => Engine(g) \in dirs'
    BY DEF Config, Marker, Standing, Engine
  <2>9. at'["nested"] \in {"first", "up", "rewriting"} => Journal \in disk'
    <3>1. SUFFICES ASSUME at'["nested"] \in {"first", "up", "rewriting"}
                   PROVE  Journal \in disk'
      OBVIOUS
    <3>2. at'["nested"] = at["nested"] /\ h # "nested"
      BY <3>1 DEF Standing
    <3>3. Leased("nested") /\ h = "outer"
      BY <3>1, <3>2 DEF Leased
    <3> QED
      BY <2>3, <3>3
  <2> QED
    BY <2>6, <2>7, <2>8, <2>9 DEF Standing
<1>3. Planned'
  BY DEF Inv, Undo, Planned, Leased
<1>4. Journalled'
  BY DEF Inv, Undo, Journalled, Layout
<1>5. Recognised'
  <2> SUFFICES ASSUME ~torn', foreign' = {}
               PROVE  (\A g \in Homes : Progress(g)') /\ (plan'.kind = "legacy" => disk' = {})
    BY DEF Recognised
  <2>1. /\ ~torn /\ foreign = {} /\ \A g \in Homes : Progress(g)
        /\ plan.kind = "legacy" => disk = {}
    <3>0. torn' = torn \/ torn' = (torn \/ ~Empty(h))
      BY DEF Undo
    <3>1. at[h] # "gone" /\ ~torn /\ foreign = {}
      <4>1. ~torn
        BY <3>0, Zenon
      <4> QED
        BY <4>1 DEF Undo
    <3> QED
      BY <3>1, Owned
  <2>2. plan'.kind = "legacy" => disk' = {}
    BY <2>1 DEF Undo
  <2>3. Progress(h)'
    BY DEF Undo, Inv, Layout, Progress, Empty, In, Standing, Leaving
  <2>4. ASSUME NEW g \in Homes, g # h
        PROVE  Progress(g)'
    <3>1. at'[g] = at[g] /\ (at[g] \notin Standing /\ NoChild(g) => NoChild(g)')
      BY <2>4 DEF Undo, Inv, Layout, NoChild
    <3>2. /\ In(g)' = In(g) /\ In(Engine(g))' = In(Engine(g))
          /\ part' \cap (In(g) \cup In(Engine(g))) \subseteq part
      BY <2>4 DEF Undo, In, Engine
    <3> QED
      BY <2>1, <3>1, <3>2, Other
  <2> QED
    BY <2>2, <2>3, <2>4
<1> QED
  BY <1>1, <1>2, <1>3, <1>4, <1>5 DEF Inv

LEMMA SealInv ==
  ASSUME Inv, NEW h \in Homes, Seal(h)
  PROVE  Inv'
<1>1. Layout'
  <2>1. at' \in [Homes -> Phases]
    BY DEF Inv, Seal, Layout, Phases, Standing
  <2>2. /\ dirs' \subseteq Directories /\ part' \subseteq disk'
        /\ \A d \in Homes : Children(d) \cap dirs' # {} => d \in dirs'
    BY DEF Inv, Seal, Layout, InUse, Standing, Directories, Engines, Engine, Children, Marker
  <2>3. disk' \subseteq dirs' \X (FileNames \cup {"foreign"})
    BY DEF Inv, Seal, Layout, InUse, FileNames
  <2>4. foreign' \subseteq disk' /\ foreign' \subseteq Directories \X {"foreign"}
    BY DEF Inv, Seal, Layout, Config, Temporary, Marker, Foreign
  <2> QED
    BY <2>1, <2>2, <2>3, <2>4 DEF Layout
<1>2. InUse'
  BY DEF Inv, Seal, Layout, InUse, Leased, Creating, Standing
<1>3. Planned'
  BY DEF Inv, Seal, Planned, Leased
<1>4. Journalled'
  BY DEF Inv, Seal, Journalled, Layout, Journal, Engine
<1>5. Recognised'
  <2> SUFFICES ASSUME ~torn', foreign' = {}
               PROVE  (\A g \in Homes : Progress(g)') /\ (plan'.kind = "legacy" => disk' = {})
    BY DEF Recognised
  <2>1. /\ ~torn /\ foreign = {} /\ \A g \in Homes : Progress(g)
        /\ plan.kind = "legacy" => disk = {}
    <3>1. at[h] # "gone" /\ ~torn /\ foreign = {}
      BY DEF Seal
    <3> QED
      BY <3>1, Owned
  <2>2. plan'.kind = "legacy" => disk' = {}
    <3>1. plan' = plan /\ Leased(h)
      BY DEF Seal, Leased
    <3> QED
      BY <3>1, Busy DEF Nothing
  <2>3. Progress(h)'
    <3>1. at[h] \in {"made", "sealing"} /\ at'[h] \in {"sealing", "up", "sealed", "unsealing"} /\ Kept(h)
      BY <2>1 DEF Seal, Inv, Layout, Progress, Standing
    <3>2. Engine(h) # h /\ In(h)' = In(h) /\ part' \cap In(h) \subseteq part /\ Marker(h) \in disk'
      BY <3>1 DEF Seal, In, Engine, Kept
    <3>3. \A f \in In(Engine(h))' : f[2] \in EngineFiles /\ (f \in part' => at'[h] \in {"sealing", "unsealing"})
      BY <3>1 DEF Seal, In, Kept, Inv, Layout
    <3> QED
      BY <3>1, <3>2, <3>3 DEF Progress, Kept
  <2>4. ASSUME NEW g \in Homes, g # h
        PROVE  Progress(g)'
    <3>1. at'[g] = at[g] /\ (at[g] \notin Standing /\ NoChild(g) => NoChild(g)')
      BY <2>4 DEF Seal, Inv, Layout, NoChild, Children, Engine
    <3>2. /\ In(g)' = In(g) /\ In(Engine(g))' = In(Engine(g))
          /\ part' \cap (In(g) \cup In(Engine(g))) \subseteq part
      BY <2>4 DEF Seal, In, Engine
    <3> QED
      BY <2>1, <3>1, <3>2, Other
  <2> QED
    BY <2>2, <2>3, <2>4
<1> QED
  BY <1>1, <1>2, <1>3, <1>4, <1>5 DEF Inv

LEMMA UnsealInv ==
  ASSUME Inv, NEW h \in Homes, Unseal(h)
  PROVE  Inv'
<1>1. Layout'
  <2>1. at' \in [Homes -> Phases]
    BY DEF Inv, Unseal, Layout, Phases, Leaving
  <2>2. /\ dirs' \subseteq Directories /\ part' \subseteq disk'
        /\ \A d \in Homes : Children(d) \cap dirs' # {} => d \in dirs'
    BY DEF Inv, Unseal, Layout, Empty
  <2>3. disk' \subseteq dirs' \X (FileNames \cup {"foreign"})
    BY DEF Inv, Unseal, Layout, In, Empty
  <2>4. foreign' \subseteq disk' /\ foreign' \subseteq Directories \X {"foreign"}
    BY DEF Inv, Unseal, Layout, Temporary, Marker, Foreign
  <2> QED
    BY <2>1, <2>2, <2>3, <2>4 DEF Layout
<1>2. InUse'
  <2>1. \A f \in disk : f \notin disk' => f[1] = Engine(h)
    BY DEF Unseal, In
  <2>2. \A g \in Homes : at'[g] = at[g] \/ (g = h /\ at'[g] = "closing")
    BY DEF Unseal, Inv, Layout, Phases
  <2>3. \A d \in Homes : d \in dirs => d \in dirs'
    BY DEF Unseal, Engine
  <2> QED
    BY <2>1, <2>2
       DEF Inv, InUse, Leased, Creating, Standing, Config, Marker, Journal, Unseal, Engine
<1>3. Planned'
  BY DEF Inv, Unseal, Planned, Leased
<1>4. Journalled'
  BY DEF Inv, Unseal, Journalled, Layout
<1>5. Recognised'
  <2> SUFFICES ASSUME ~torn', foreign' = {}
               PROVE  (\A g \in Homes : Progress(g)') /\ (plan'.kind = "legacy" => disk' = {})
    BY DEF Recognised
  <2>1. /\ ~torn /\ foreign = {} /\ \A g \in Homes : Progress(g)
        /\ plan.kind = "legacy" => disk = {}
    <3>0. torn' = torn \/ torn' = (torn \/ part \cap In(Engine(h)) # {})
      BY DEF Unseal
    <3>1. at[h] # "gone" /\ ~torn /\ foreign = {}
      <4>1. ~torn
        BY <3>0, Zenon
      <4> QED
        BY <4>1 DEF Unseal
    <3> QED
      BY <3>1, Owned
  <2>2. plan'.kind = "legacy" => disk' = {}
    BY <2>1 DEF Unseal
  <2>3. Progress(h)'
    <3>1. at[h] = "unsealing" /\ at'[h] \in {"unsealing", "closing"} /\ Kept(h)
      BY <2>1 DEF Unseal, Inv, Layout, Progress, Standing
    <3>2. Engine(h) # h /\ In(h)' = In(h) /\ part' \cap In(h) \subseteq part /\ Marker(h) \in disk'
      BY <3>1 DEF Unseal, In, Engine, Kept, Marker
    <3>3. at'[h] = "closing" => part' \cap In(Engine(h))' = {}
      BY DEF Unseal, In, Inv, Layout
    <3>4. \A f \in In(Engine(h))' : f[2] \in EngineFiles /\ (f \in part' => at'[h] \in {"sealing", "unsealing"})
      BY <3>1 DEF Unseal, In, Kept
    <3> QED
      BY <3>1, <3>2, <3>4 DEF Progress, Kept
  <2>4. ASSUME NEW g \in Homes, g # h
        PROVE  Progress(g)'
    <3>1. at'[g] = at[g] /\ (at[g] \notin Standing /\ NoChild(g) => NoChild(g)')
      BY <2>4 DEF Unseal, Inv, Layout, NoChild
    <3>2. /\ In(g)' = In(g) /\ In(Engine(g))' = In(Engine(g))
          /\ part' \cap (In(g) \cup In(Engine(g))) \subseteq part
      BY <2>4 DEF Unseal, In, Engine
    <3> QED
      BY <2>1, <3>1, <3>2, Other
  <2> QED
    BY <2>2, <2>3, <2>4
<1> QED
  BY <1>1, <1>2, <1>3, <1>4, <1>5 DEF Inv

LEMMA StopInv ==
  ASSUME Inv, NEW h \in Homes, Stop(h)
  PROVE  Inv'
<1>1. Layout'
  <2>1. at' \in [Homes -> Phases]
    BY DEF Inv, Stop, Layout, Phases, Standing
  <2>2. /\ dirs' \subseteq Directories /\ part' \subseteq disk'
        /\ \A d \in Homes : Children(d) \cap dirs' # {} => d \in dirs'
    BY DEF Inv, Stop, Layout
  <2>3. disk' \subseteq dirs' \X (FileNames \cup {"foreign"})
    BY DEF Inv, Stop, Layout
  <2>4. foreign' \subseteq disk' /\ foreign' \subseteq Directories \X {"foreign"}
    <3>1. foreign' = foreign /\ \A f \in disk : f \notin disk' => f[2] # "foreign"
      BY DEF Stop, Journal
    <3> QED
      BY <3>1, Fewer DEF Inv
  <2> QED
    BY <2>1, <2>2, <2>3, <2>4 DEF Layout
<1>2. InUse'
  BY DEF Inv, Stop, Layout, InUse, Leased, Creating, Config, Temporary, Marker, Journal, Empty
<1>3. Planned'
  BY DEF Inv, Stop, Planned, Leased
<1>4. Journalled'
  BY DEF Inv, Stop, Journalled
<1>5. Recognised'
  <2> SUFFICES ASSUME ~torn', foreign' = {}
               PROVE  (\A g \in Homes : Progress(g)') /\ (plan'.kind = "legacy" => disk' = {})
    BY DEF Recognised
  <2>1. /\ ~torn /\ foreign = {} /\ \A g \in Homes : Progress(g)
        /\ plan.kind = "legacy" => disk = {}
    <3>1. at[h] # "gone" /\ ~torn /\ foreign = {}
      BY DEF Stop
    <3> QED
      BY <3>1, Owned
  <2>2. plan'.kind = "legacy" => disk' = {}
    BY <2>1 DEF Stop
  <2>3. Progress(h)'
    BY <2>1 DEF Stop, Progress, Kept, In, Marker, Journal, Standing
  <2>4. ASSUME NEW g \in Homes, g # h
        PROVE  Progress(g)'
    <3>1. at'[g] = at[g] /\ dirs' = dirs
      BY <2>4 DEF Stop, Inv, Layout
    <3>2. CASE g = "nested" \/ ~(h = "nested" /\ at[h] = "up")
      <4>1. /\ In(g)' = In(g) /\ In(Engine(g))' = In(Engine(g))
            /\ part' \cap (In(g) \cup In(Engine(g))) \subseteq part
        BY <3>2 DEF Stop, In, Engine, Journal
      <4> QED
        BY <2>1, <3>1, <4>1, Other DEF NoChild
    <3>3. CASE g = "outer" /\ h = "nested" /\ at[h] = "up"
      <4>1. Leased(h)
        BY <3>3 DEF Leased
      <4>2. at[g] \in Standing \cup Leaving /\ ~Empty(g) /\ ~NoChild(g)
        BY <3>3, <4>1, Busy DEF Inv, Layout, Phases
      <4>3. Kept(g) /\ at[g] # "marker"
        BY <2>1, <4>2 DEF Progress
      <4>4. /\ Marker(g) \in disk' /\ In(g)' \subseteq In(g) /\ part' \subseteq part
            /\ In(Engine(g))' \subseteq In(Engine(g))
        BY <4>3 DEF Stop, Kept, In, Marker, Journal
      <4>5. Kept(g)'
        BY <3>1, <4>3, <4>4 DEF Kept
      <4> QED
        BY <3>1, <4>2, <4>3, <4>5 DEF Progress, Standing, Leaving
    <3> QED
      BY <3>2, <3>3
  <2> QED
    BY <2>2, <2>3, <2>4
<1> QED
  BY <1>1, <1>2, <1>3, <1>4, <1>5 DEF Inv

LEMMA DropInv ==
  ASSUME Inv, NEW h \in Homes, Drop(h)
  PROVE  Inv'
<1>1. Layout'
  <2>1. at' \in [Homes -> Phases]
    BY DEF Inv, Drop, Layout, Phases, Leaving
  <2>2. /\ dirs' \subseteq Directories /\ part' \subseteq disk'
        /\ \A d \in Homes : Children(d) \cap dirs' # {} => d \in dirs'
    BY DEF Inv, Drop, Layout, Empty
  <2>3. disk' \subseteq dirs' \X (FileNames \cup {"foreign"})
    BY DEF Inv, Drop, Layout, In, Empty
  <2>4. foreign' \subseteq disk' /\ foreign' \subseteq Directories \X {"foreign"}
    <3>1. foreign' = foreign /\ \A f \in disk : f \notin disk' => f[2] # "foreign"
      BY DEF Drop, Config, Marker
    <3> QED
      BY <3>1, Fewer DEF Inv
  <2> QED
    BY <2>1, <2>2, <2>3, <2>4 DEF Layout
<1>2. InUse'
  BY DEF Inv, Drop, Layout, InUse, Leased, Creating, Standing, Config, Temporary, Marker, Journal,
         Engine
<1>3. Planned'
  BY DEF Inv, Drop, Layout, Planned, Leased, Foreign
<1>4. Journalled'
  BY DEF Inv, Drop, Journalled, Layout
<1>5. Recognised'
  <2> SUFFICES ASSUME ~torn', foreign' = {}
               PROVE  (\A g \in Homes : Progress(g)') /\ (plan'.kind = "legacy" => disk' = {})
    BY DEF Recognised
  <2>1. /\ ~torn /\ foreign = {} /\ \A g \in Homes : Progress(g)
        /\ plan.kind = "legacy" => disk = {}
    <3>1. at[h] # "gone" /\ ~torn /\ foreign = {}
      BY DEF Drop
    <3> QED
      BY <3>1, Owned
  <2>2. plan'.kind = "legacy" => disk' = {}
    BY <2>1 DEF Drop
  <2>3. Progress(h)'
    <3>0. at[h] \in Leaving \ {"gone"} /\ at'[h] \in Leaving \ {"closing"} /\ (Empty(h) \/ Kept(h))
      BY <2>1 DEF Drop, Inv, Layout, Progress, Leaving
    <3>1. In(h)' \subseteq In(h) /\ In(Engine(h))' = In(Engine(h)) /\ part' \subseteq part
      BY DEF Drop, In, Engine, Config, Marker
    <3>2. (NoChild(h) => NoChild(h)') /\ (Empty(h) => Empty(h)')
      BY <3>1 DEF Drop, NoChild, Empty
    <3>3. CASE Marker(h) \in disk /\ Marker(h) \notin disk'
      <4>1. at[h] = "marker" /\ at'[h] = "directory" /\ In(h)' \subseteq In(h) \ {Marker(h)}
        BY <3>3 DEF Drop, Config, Marker, In, Inv, Layout
      <4>2. Empty(h)'
        BY <2>1, <3>2, <4>1 DEF Progress, Empty, NoChild
      <4> QED
        BY <4>1, <4>2 DEF Progress, Standing
    <3>4. CASE ~(Marker(h) \in disk /\ Marker(h) \notin disk')
      <4>1. Kept(h) => Kept(h)'
        BY <3>0, <3>1, <3>4 DEF Kept, Leaving
      <4>2. at'[h] = "marker" => In(h)' \subseteq {Marker(h)} /\ NoChild(h)'
        BY <3>1 DEF Drop, NoChild, Inv, Layout
      <4> QED
        BY <3>0, <3>2, <4>1, <4>2 DEF Progress, Standing, Leaving
    <3> QED
      BY <3>3, <3>4
  <2>4. ASSUME NEW g \in Homes, g # h
        PROVE  Progress(g)'
    <3>1. at'[g] = at[g] /\ (at[g] \notin Standing /\ NoChild(g) => NoChild(g)')
      BY <2>4 DEF Drop, Inv, Layout, NoChild
    <3>2. /\ In(g)' = In(g) /\ In(Engine(g))' = In(Engine(g))
          /\ part' \cap (In(g) \cup In(Engine(g))) \subseteq part
      BY <2>4 DEF Drop, In, Engine, Config, Marker
    <3> QED
      BY <2>1, <3>1, <3>2, Other
  <2> QED
    BY <2>2, <2>3, <2>4
<1> QED
  BY <1>1, <1>2, <1>3, <1>4, <1>5 DEF Inv

LEMMA KillInv ==
  ASSUME Inv, NEW h \in Homes, Kill(h)
  PROVE  Inv'
<1>1. Layout'
  <2>1. at' \in [Homes -> Phases]
    BY DEF Inv, Kill, Layout, Phases, Leaving
  <2>2. /\ dirs' \subseteq Directories /\ part' \subseteq disk'
        /\ \A d \in Homes : Children(d) \cap dirs' # {} => d \in dirs'
    BY DEF Inv, Kill, Layout
  <2>3. disk' \subseteq dirs' \X (FileNames \cup {"foreign"})
    BY DEF Inv, Kill, Layout
  <2>4. foreign' \subseteq disk' /\ foreign' \subseteq Directories \X {"foreign"}
    BY DEF Inv, Kill, Layout, Config, Journal
  <2> QED
    BY <2>1, <2>2, <2>3, <2>4 DEF Layout
<1>2. InUse'
  BY DEF Inv, Kill, InUse, Leased, Creating, Standing
<1>3. Planned'
  BY DEF Inv, Kill, Planned, Leased, Foreign
<1>4. Journalled'
  BY DEF Inv, Kill, Journalled
<1>5. Recognised'
  <2> SUFFICES ASSUME ~torn', foreign' = {}
               PROVE  (\A g \in Homes : Progress(g)') /\ (plan'.kind = "legacy" => disk' = {})
    BY DEF Recognised
  <2>1. /\ ~torn /\ foreign = {} /\ \A g \in Homes : Progress(g)
        /\ plan.kind = "legacy" => disk = {}
    <3>1. at[h] # "gone" /\ ~torn /\ foreign = {}
      BY DEF Kill
    <3> QED
      BY <3>1, Owned
  <2>2. plan'.kind = "legacy" => disk' = {}
    BY <2>1 DEF Kill
  <2>3. Progress(h)'
    <3>1. /\ at'[h] = "gone" /\ UNCHANGED <<dirs, disk, part>>
          /\ at[h] \notin {"tmp", "moved", "marking", "undo", "first", "rewriting"}
          /\ part \cap In(Engine(h)) = {}
      BY DEF Kill, Inv, Layout
    <3>2. Empty(h) \/ Kept(h)
      BY <2>1, <3>1 DEF Progress, Inv, Layout, Phases, Creating
    <3>3. (Empty(h) => Empty(h)') /\ (Kept(h) => Kept(h)')
      BY <3>1 DEF Empty, Kept, In
    <3> QED
      BY <3>1, <3>2, <3>3 DEF Progress, Standing
  <2>4. ASSUME NEW g \in Homes, g # h
        PROVE  Progress(g)'
    <3>1. at'[g] = at[g] /\ (at[g] \notin Standing /\ NoChild(g) => NoChild(g)')
      BY <2>4 DEF Kill, NoChild
    <3>2. /\ In(g)' = In(g) /\ In(Engine(g))' = In(Engine(g))
          /\ part' \cap (In(g) \cup In(Engine(g))) \subseteq part
      BY DEF Kill, In, Journal
    <3> QED
      BY <2>1, <3>1, <3>2, Other
  <2> QED
    BY <2>2, <2>3, <2>4
<1> QED
  BY <1>1, <1>2, <1>3, <1>4, <1>5 DEF Inv

LEMMA WriteJournalInv ==
  ASSUME Inv, WriteJournal
  PROVE  Inv'
<1>1. Layout'
  <2>1. at' \in [Homes -> Phases]
    BY DEF Inv, WriteJournal, Layout, Phases, Standing
  <2>2. /\ dirs' \subseteq Directories /\ part' \subseteq disk'
        /\ \A d \in Homes : Children(d) \cap dirs' # {} => d \in dirs'
    BY DEF Inv, WriteJournal, Layout, InUse
  <2>3. disk' \subseteq dirs' \X (FileNames \cup {"foreign"})
    <3>1. Leased("nested") /\ dirs' = dirs /\ disk' \subseteq disk \cup {Journal}
      BY DEF WriteJournal, Leased
    <3> QED
      BY <3>1, Busy DEF Inv, Layout, FileNames, Journal
  <2>4. foreign' \subseteq disk' /\ foreign' \subseteq Directories \X {"foreign"}
    BY DEF Inv, WriteJournal, Layout, Config
  <2> QED
    BY <2>1, <2>2, <2>3, <2>4 DEF Layout
<1>2. InUse'
  BY DEF Inv, WriteJournal, Layout, InUse, Leased, Standing
<1>3. Planned'
  BY DEF Inv, WriteJournal, Planned, Leased, Foreign
<1>4. Journalled'
  BY DEF Inv, WriteJournal, Journalled, Layout
<1>5. Recognised'
  <2> SUFFICES ASSUME ~torn', foreign' = {}
               PROVE  (\A g \in Homes : Progress(g)') /\ (plan'.kind = "legacy" => disk' = {})
    BY DEF Recognised
  <2>1. /\ ~torn /\ foreign = {} /\ plan' = plan /\ dirs' = dirs
        /\ at["nested"] \in {"sealed", "first", "up", "rewriting"}
        /\ at'["nested"] \in {"first", "up", "rewriting"} /\ at'["outer"] = at["outer"]
        /\ \A f \in disk' : f \in disk \/ f = Journal
        /\ \A f \in part' : f \in part \/ f = Journal
        /\ disk \subseteq disk'
    BY DEF WriteJournal, Inv, Layout
  <2>2. (\A g \in Homes : Progress(g)) /\ plan'.kind # "legacy"
    BY <2>1, Owned, Busy DEF Leased, Nothing
  <2>3. at["outer"] \in Standing \cup Leaving /\ ~Empty("outer") /\ ~NoChild("outer")
    BY <2>1, Busy DEF Leased, Inv, Layout, Phases
  <2>4. \A g \in Homes : Kept(g) /\ at[g] # "marker" /\ at[g] \notin Creating \cup {"undo"}
    BY <2>1, <2>2, <2>3 DEF Progress, Standing, Leaving, Creating
  <2>5. \A g \in Homes : Kept(g)'
    BY <2>1, <2>4 DEF Kept, In, Engine, Journal, Names
  <2> QED
    BY <2>1, <2>2, <2>4, <2>5 DEF Progress, Creating
<1> QED
  BY <1>1, <1>2, <1>3, <1>4, <1>5 DEF Inv

\* What a cleanup accepts holds files of known names only.
LEMMA Seen ==
  ASSUME Layout, Acceptable, "outer" \in dirs
  PROVE  disk \subseteq Directories \X FileNames
<1>1. \A d \in dirs : d # "outer" => d \in {"nested", "engine.outer", "engine.nested"}
  BY DEF Layout, Directories, Engines, Engine
<1>2. ASSUME NEW h \in Homes, Known(h)
      PROVE  \A f \in disk : f[1] \in {h, Engine(h)} => f[2] \in FileNames
  <2>1. Empty(h) => In(h) = {} /\ In(Engine(h)) = {}
    BY DEF Empty, In, Children, Engine, Layout
  <2>2. ~Empty(h) => \A f \in In(h) \cup In(Engine(h)) : f[2] \in FileNames
    BY <1>2 DEF Known, EngineKnown, Whole, In, Names, FileNames, Config, Marker, Journal, Layout
  <2> QED
    BY <2>1, <2>2 DEF In
<1>3. Marked => \A f \in disk : f[2] \in FileNames
  <2>1. "nested" \notin dirs => \A f \in disk : f[1] \in {"outer", Engine("outer")}
    BY <1>1 DEF Layout, Children, Engine
  <2>2. \A f \in disk : \E h \in Homes : f[1] \in {h, Engine(h)}
    BY DEF Layout, Directories, Engines
  <2> QED
    BY <1>2, <2>1, <2>2 DEF Marked
<1>4. Legacy => \A f \in disk : f[2] \in FileNames
  BY <1>1 DEF Legacy, Whole, In, Config, Journal, Layout, Engines, Engine
<1> QED
  BY <1>3, <1>4 DEF Acceptable, Layout

\* A plan is made for what is there, and for an old session only if it is one.
LEMMA InspectInv ==
  ASSUME Inv, Inspect
  PROVE  Inv'
<1>1. Layout'
  <2>1. at' \in [Homes -> Phases]
    BY DEF Inv, Inspect, Layout
  <2>2. /\ dirs' \subseteq Directories /\ part' \subseteq disk'
        /\ \A d \in Homes : Children(d) \cap dirs' # {} => d \in dirs'
    BY DEF Inv, Inspect, Layout
  <2>3. disk' \subseteq dirs' \X (FileNames \cup {"foreign"})
    BY DEF Inv, Inspect, Layout
  <2>4. foreign' \subseteq disk' /\ foreign' \subseteq Directories \X {"foreign"}
    BY DEF Inv, Inspect, Layout, Config, Temporary, Journal, Foreign, In
  <2> QED
    BY <2>1, <2>2, <2>3, <2>4 DEF Layout
<1>2. InUse'
  BY DEF Inv, Inspect, InUse, Leased
<1>3. Planned'
  <2>1. /\ plan' = [kind |-> plan'.kind, left |-> plan'.left] /\ plan'.kind \in {"marked", "legacy"}
        /\ plan'.left = disk \cup {Itself(d) : d \in dirs}
        /\ at' = at /\ at["outer"] = "gone" /\ ~Leased("nested") /\ "outer" \in dirs
        /\ UNCHANGED <<dirs, disk, foreign>>
    BY DEF Inspect, Leases
  <2>2. plan'.left \subseteq Directories \X (FileNames \cup {"itself"})
    <3>1. disk \subseteq Directories \X FileNames
      BY Seen DEF Inspect, Inv
    <3>2. \A d \in dirs : Itself(d) \in Directories \X {"itself"}
      BY DEF Inv, Layout, Itself
    <3> QED
      BY <2>1, <3>1, <3>2
  <2>3. plan'.left # {}
    BY <2>1
  <2> QED
    BY <2>1, <2>2 DEF Planned, Leased
<1>4. Journalled'
  BY DEF Inv, Inspect, Journalled
<1>5. Recognised'
  <2> SUFFICES ASSUME ~torn, foreign = {} PROVE Recognised'
    BY DEF Inspect, Recognised
  <2>1. at["outer"] = "gone" /\ (plan'.kind = "legacy" => Legacy) /\ (plan'.kind = "marked" => Marked)
        /\ plan'.kind \in {"marked", "legacy"}
    BY DEF Inspect, Acceptable
  <2>2. Legacy => ~Marked /\ ~Empty("outer") /\ ~Kept("outer")
    BY DEF Legacy, Marked, Known, Kept, Empty, In, Journal
  <2>3. (\A h \in Homes : Progress(h)) => ~Legacy
    BY <2>1, <2>2 DEF Progress, Leaving
  <2>4. CASE OldLeft
    BY <2>2, <2>4, Same DEF Inspect, OldLeft, Recognised
  <2>5. CASE \A h \in Homes : Progress(h)
    BY <2>1, <2>3, <2>5, Same DEF Inspect, Recognised
  <2> QED
    BY <2>4, <2>5 DEF Inv, Recognised
<1> QED
  BY <1>1, <1>2, <1>3, <1>4, <1>5 DEF Inv

\* The cleanup removes a marker when nothing is left that it stands for.
LEMMA CleanupInv ==
  ASSUME NamesApart, Inv, Cleanup
  PROVE  Inv'
<1>0. PICK x \in plan.left :
        /\ \A y \in plan.left : Rank(x) <= Rank(y)
        /\ IF x[2] = "itself"
           THEN x[1] \in dirs /\ Empty(x[1]) /\ dirs' = dirs \ {x[1]} /\ UNCHANGED Files
           ELSE x \in disk /\ Remove(x) /\ UNCHANGED dirs
        /\ plan' = IF plan.left = {x} THEN Nothing ELSE [plan EXCEPT !.left = @ \ {x}]
        /\ UNCHANGED <<at, starting, torn, foreign>>
  BY DEF Cleanup
<1>m. \A y \in plan.left : Rank(x) <= Rank(y)
  BY <1>0
<1>d. x[2] = "itself" =>
        x[1] \in dirs /\ Empty(x[1]) /\ dirs' = dirs \ {x[1]} /\ disk' = disk /\ part' = part
  BY <1>0
<1>f. x[2] # "itself" => x \in disk /\ dirs' = dirs /\ disk' = disk \ {x} /\ part' = part \ {x}
  BY <1>0
<1>p. plan' = IF plan.left = {x} THEN Nothing ELSE [plan EXCEPT !.left = @ \ {x}]
  BY <1>0
<1>u. at' = at /\ starting' = starting /\ torn' = torn /\ foreign' = foreign
  BY <1>0
<1> USE <1>d, <1>f, <1>p, <1>u
<1>a. /\ x \in Directories \X (FileNames \cup {"itself"}) /\ plan # Nothing /\ plan.kind \in {"marked", "legacy"}
      /\ at["outer"] = "gone" /\ ~Leased("nested")
      /\ "itself" \notin FileNames /\ "foreign" \notin FileNames
  <2>1. plan # Nothing /\ plan.kind # "none" /\ plan.left \subseteq Directories \X (FileNames \cup {"itself"})
    BY DEF Inv, Planned, Nothing
  <2>2. "itself" \notin FileNames /\ "foreign" \notin FileNames
    BY FilesApart
  <2> QED
    BY <2>1, <2>2 DEF Inv, Planned
<1>b. \A f \in disk : f[2] # "itself"
  BY <1>a DEF Inv, Layout
<1>1. Layout'
  <2>1. disk' \subseteq disk /\ dirs' \subseteq dirs /\ part' \subseteq disk' /\ foreign' \subseteq disk'
    BY <1>a DEF Inv, Layout
  <2>2. disk' \subseteq dirs' \X (FileNames \cup {"foreign"})
    BY DEF Inv, Layout, Empty, In
  <2>3. \A d \in Homes : Children(d) \cap dirs' # {} => d \in dirs'
    BY DEF Inv, Layout, Empty
  <2> QED
    BY <2>1, <2>2, <2>3 DEF Inv, Layout
<1>2. InUse'
  <2>1. \A h \in Homes : at[h] \in Leaving
    BY <1>a DEF Leased, Leaving
  <2> QED
    BY <2>1 DEF InUse, Leased, Leaving, Standing
<1>3. Planned'
  <2>1. CASE plan.left = {x}
    BY <2>1 DEF Planned, Nothing
  <2>2. CASE plan.left # {x}
    <3>1. /\ plan' = [kind |-> plan'.kind, left |-> plan'.left] /\ plan'.kind = plan.kind
          /\ plan'.left = plan.left \ {x} /\ plan'.left # {}
      BY <2>2 DEF Inv, Planned
    <3>2. foreign = {} => disk' \subseteq plan'.left
      BY <1>a, <1>b DEF Inv, Planned
    <3>3. foreign = {} => \A d \in dirs' : Itself(d) \in plan'.left
      <4>1. \A d \in dirs' : d \in dirs /\ Itself(d) # x
        BY DEF Itself
      <4> QED
        BY <4>1, <1>a DEF Inv, Planned
    <3> QED
      BY <3>1, <3>2, <3>3, <1>a DEF Inv, Planned, Leased
  <2> QED
    BY <2>1, <2>2
<1>4. Journalled'
  BY DEF Inv, Journalled
<1>5. Recognised'
  <2> SUFFICES ASSUME ~torn, foreign = {} PROVE Recognised'
    BY DEF Recognised
  <2>1. /\ disk \subseteq plan.left /\ \A d \in dirs : Itself(d) \in plan.left
        /\ plan'.kind \in {plan.kind, "none"}
    BY DEF Inv, Planned, Nothing
  <2>2. /\ \A h \in Homes : In(h)' \subseteq In(h) /\ In(Engine(h))' \subseteq In(Engine(h))
        /\ \A h \in Homes : (Empty(h) => Empty(h)') /\ (NoChild(h) => NoChild(h)')
        /\ part' \subseteq part
    BY DEF In, Empty, NoChild
  <2>3. CASE OldLeft /\ plan.kind # "marked"
    <3>1. plan.kind = "legacy" /\ Legacy /\ \A h \in Homes : at'[h] = "gone"
      BY <1>a, <2>3 DEF OldLeft
    <3>2. CASE x = Journal
      <4>1. /\ Rank(x) = 3 /\ Rank(Config("outer")) = 2 /\ Rank(Config("nested")) = 0
            /\ Rank(Itself("nested")) = 1
        BY <3>1, <3>2 DEF Rank, Journal, Config, Itself
      <4>2. Config("outer") \notin disk /\ Config("nested") \notin disk /\ "nested" \notin dirs
        <5>1. Config("outer") \notin plan.left /\ Config("nested") \notin plan.left /\ Itself("nested") \notin plan.left
          BY <1>m, <4>1
        <5> QED
          BY <2>1, <5>1
      <4>3. disk' = {}
        <5>1. \A f \in disk : f[1] \in {"outer", "nested"} /\ f = <<f[1], f[2]>>
          BY <3>1 DEF Legacy, Inv, Layout, Directories
        <5>2. \A f \in disk : f \in {Config("outer"), Config("nested"), Journal}
          BY <3>1, <5>1 DEF Legacy, Whole, In, Config
        <5>3. disk' = disk \ {x}
          BY <3>2 DEF Journal
        <5> QED
          BY <3>2, <4>2, <5>2, <5>3
      <4>4. \A h \in Homes : Empty(h)'
        BY <3>1, <4>2, <4>3 DEF Empty, In, Children, Legacy, Engines, Engine
      <4> QED
        BY <3>1, <4>3, <4>4 DEF Recognised, Progress, Standing
    <3>3. CASE x # Journal
      <4>1. Legacy'
        BY <3>1, <3>3 DEF Legacy, Whole, In
      <4> QED
        BY <2>1, <3>1, <4>1 DEF OldLeft, Recognised
    <3> QED
      BY <3>2, <3>3
  <2>4. CASE (\A h \in Homes : Progress(h)) /\ (plan.kind = "legacy" => disk = {})
    <3>1. ASSUME NEW h \in Homes PROVE Empty(h)' \/ Kept(h)'
      <4>1. Empty(h) \/ Kept(h)
        BY <1>a, <2>4 DEF Progress, Leased, Leaving
      <4>2. CASE x # Marker(h) /\ Kept(h)
        <5>1. Marker(h) \in disk'
          BY <4>2 DEF Kept, Marker
        <5> QED
          BY <2>2, <4>2, <5>1 DEF Kept
      <4>3. CASE x = Marker(h) /\ Kept(h)
        <5>1. plan.kind = "marked" /\ disk' = disk \ {x} /\ dirs' = dirs
          BY <1>a, <2>4, <4>3 DEF Marker
        <5>2. CASE h = "outer"
          <6>1. Rank(x) = 4
            BY <4>3, <5>1, <5>2 DEF Rank, Marker, Itself
          <6>2. \A y : y \notin {Itself("outer"), Marker("outer")} => Rank(y) \in 0..3
            BY <5>1 DEF Rank
          <6>3. plan.left \subseteq {Itself("outer"), Marker("outer")}
            BY <1>m, <6>1, <6>2
          <6>4. disk' = {} /\ dirs' \subseteq {"outer"}
            <7>1. disk \subseteq {x}
              BY <2>1, <1>b, <4>3, <5>2, <6>3 DEF Itself
            <7>2. \A d \in dirs : d = "outer"
              BY <2>1, <6>3 DEF Itself, Marker
            <7> QED
              BY <5>1, <7>1, <7>2
          <6> QED
            BY <6>4 DEF Empty, In, Children
        <5>3. CASE h = "nested"
          <6>1. Rank(x) = 2
            BY <4>3, <5>1, <5>3 DEF Rank, Itself
          <6>2. \A y : y \notin {Itself("outer"), Marker("outer"), Itself("nested"), Marker("nested")}
                          => Rank(y) \in 0..1
            BY <5>1 DEF Rank
          <6>3. plan.left \subseteq {Itself("outer"), Marker("outer"), Itself("nested"), Marker("nested")}
            BY <1>m, <6>1, <6>2
          <6>4. disk' \subseteq {Marker("outer")} /\ dirs' \subseteq Homes
            <7>1. disk \subseteq {x, Marker("outer")}
              BY <2>1, <1>b, <4>3, <5>3, <6>3 DEF Itself
            <7>2. \A d \in dirs : d \in Homes
              BY <2>1, <6>3 DEF Itself, Marker
            <7> QED
              BY <5>1, <7>1, <7>2
          <6> QED
            BY <5>3, <6>4 DEF Empty, In, Children, Marker
        <5> QED
          BY <5>2, <5>3
      <4> QED
        BY <2>2, <4>1, <4>2, <4>3
    <3>2. ASSUME NEW h \in Homes PROVE Progress(h)'
      BY <1>a, <2>2, <2>4, <3>1 DEF Progress, Leased, Standing
    <3>3. plan'.kind = "legacy" => disk' = {}
      BY <2>1, <2>4, <1>a
    <3> QED
      BY <3>2, <3>3 DEF Recognised
  <2> QED
    BY <2>3, <2>4 DEF Inv, Recognised
<1> QED
  BY <1>1, <1>2, <1>3, <1>4, <1>5 DEF Inv

LEMMA GiveUpInv ==
  ASSUME Inv, GiveUp
  PROVE  Inv'
<1>1. Layout'
  <2>1. at' \in [Homes -> Phases]
    BY DEF Inv, GiveUp, Layout
  <2>2. /\ dirs' \subseteq Directories /\ part' \subseteq disk'
        /\ \A d \in Homes : Children(d) \cap dirs' # {} => d \in dirs'
    BY DEF Inv, GiveUp, Layout
  <2>3. disk' \subseteq dirs' \X (FileNames \cup {"foreign"})
    BY DEF Inv, GiveUp, Layout
  <2>4. foreign' \subseteq disk' /\ foreign' \subseteq Directories \X {"foreign"}
    BY DEF Inv, GiveUp, Layout, Config, Temporary, Marker, Foreign
  <2> QED
    BY <2>1, <2>2, <2>3, <2>4 DEF Layout
<1>2. InUse'
  BY DEF Inv, GiveUp, InUse, Leased
<1>3. Planned'
  BY DEF GiveUp, Planned, Nothing
<1>4. Journalled'
  BY DEF Inv, GiveUp, Journalled
<1>5. Recognised'
  BY Same DEF GiveUp, Nothing, Inv, Recognised
<1> QED
  BY <1>1, <1>2, <1>3, <1>4, <1>5 DEF Inv

LEMMA PutForeignInv ==
  ASSUME Inv, PutForeign
  PROVE  Inv'
<1>1. Layout'
  <2>1. at' \in [Homes -> Phases]
    BY DEF Inv, PutForeign, Layout
  <2>2. /\ dirs' \subseteq Directories /\ part' \subseteq disk'
        /\ \A d \in Homes : Children(d) \cap dirs' # {} => d \in dirs'
    BY DEF Inv, PutForeign, Layout
  <2>3. disk' \subseteq dirs' \X (FileNames \cup {"foreign"})
    BY DEF Inv, PutForeign, Layout, Foreign
  <2>4. foreign' \subseteq disk' /\ foreign' \subseteq Directories \X {"foreign"}
    <3>1. PICK d \in dirs : foreign' = foreign \cup {Foreign(d)} /\ disk' = disk \cup {Foreign(d)}
      BY DEF PutForeign
    <3> QED
      BY <3>1 DEF Inv, Layout, Foreign
  <2> QED
    BY <2>1, <2>2, <2>3, <2>4 DEF Layout
<1>2. InUse'
  BY DEF Inv, PutForeign, InUse, Leased
<1>3. Planned'
  BY DEF Inv, PutForeign, Planned, Leased
<1>4. Journalled'
  BY DEF Inv, PutForeign, Journalled
<1>5. Recognised'
  BY DEF PutForeign, Recognised
<1> QED
  BY <1>1, <1>2, <1>3, <1>4, <1>5 DEF Inv

LEMMA StepInv ==
  ASSUME NamesApart, Inv, [Next]_vars
  PROVE  Inv'
<1>1. CASE \E h \in Homes : Make(h) \/ Create(h) \/ Undo(h) \/ Seal(h) \/ Unseal(h) \/ Stop(h)
                            \/ Drop(h) \/ Kill(h)
  BY <1>1, MakeInv, CreateInv, UndoInv, SealInv, UnsealInv, StopInv, DropInv, KillInv
<1>2. CASE WriteJournal \/ Inspect \/ Cleanup \/ GiveUp \/ PutForeign
  BY <1>2, WriteJournalInv, InspectInv, CleanupInv, GiveUpInv, PutForeignInv
<1>3. CASE UNCHANGED vars
  <2>1. Layout' /\ InUse' /\ Planned' /\ Journalled'
    BY <1>3 DEF vars, Inv, Layout, InUse, Planned, Journalled, Leased
  <2>2. Recognised'
    BY <1>3, Same DEF vars, Inv, Recognised
  <2> QED
    BY <2>1, <2>2 DEF Inv
<1> QED
  BY <1>1, <1>2, <1>3 DEF Next

LEMMA InvIsSafe ==
  ASSUME Inv
  PROVE  CleanupIsSafe
<1>1. ASSUME \A h \in Homes : at[h] = "gone", ~torn, foreign = {}, "outer" \in dirs
      PROVE  Acceptable
  <2>1. Journal \notin part
    BY <1>1 DEF Inv, Journalled
  <2>2. ASSUME NEW h \in Homes, Progress(h) PROVE Known(h)
    BY <1>1, <2>1, <2>2 DEF Progress, Leaving, Known, Kept, Whole, EngineKnown
  <2> QED
    BY <1>1, <2>2 DEF Inv, Recognised, OldLeft, Acceptable, Marked
<1>2. foreign \subseteq disk
  BY DEF Inv, Layout
<1> QED
  BY <1>1, <1>2 DEF CleanupIsSafe, Inv, InUse, Standing

\* What any of them leaves in a killed process's directory can be cleaned up by the
\* next start, a session in use keeps its files, and foreign files stay
\* (CleanupPlan::inspect and remove, Drop for SessionConfig).
THEOREM CleanupTheorem ==
  ASSUME NamesApart
  PROVE  Spec => []CleanupIsSafe
<1>1. Inv /\ [Next]_vars => Inv'
  BY StepInv
<1>2. Inv => CleanupIsSafe
  BY InvIsSafe
<1> QED
  BY <1>1, <1>2, InitInv, PTL DEF Spec
=============================================================================
