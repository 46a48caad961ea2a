------------------------------ MODULE MCParts -------------------------------
(***************************************************************************)
(* The parts of RouteDeck that keep no state in common, each on its own     *)
(* instance and all in one run: `active` says which part a behavior is      *)
(* about, and the variables of the others do not change.  Provisioning is   *)
(* extended; PortableUpdate, UpdateCheck, UiController, SessionDirectory,   *)
(* ServerSwitch and EngineProcess are instances.  What they ask of each     *)
(* other is named in their headers.                                         *)
(***************************************************************************)
EXTENDS MCProvisioning

CONSTANTS
    Tokens, Releases, MaxEdits,     \* of PortableUpdate
    Servers, MaxAsks, MaxDrifts,    \* of UiController
    EngineFiles, MaxForeign,        \* of SessionDirectory
    TargetCount, MaxExchanges, MaxRestarts  \* of ServerSwitch

\* A session is started with a server; no engine's file has a name that stands for a
\* directory or for a file of another program.
ASSUME TargetsAssumption == TargetCount \in Nat \ {0}
ASSUME NamesAssumption == EngineFiles \cap {"itself", "foreign"} = {}

VARIABLES
    active,
    \* PortableUpdate
    target, payload, incoming, previous, latest, gui, running, phase, ready, downloads, updaters,
    edits,
    \* UpdateCheck
    checking, cached, fresh, thread, answer, download, page,
    \* UiController
    backend, events, ui, queue, step, call, reply, off, refused, settled, asks, drifts,
    \* SessionDirectory
    dirs, disk, part, at, starting, plan, torn, foreign,
    \* ServerSwitch
    core, selected, candidate, session, exchange, exchanges, restarts,
    \* EngineProcess
    owner, launch, process, brood, job, files, held

updateVars == <<target, payload, incoming, previous, latest, gui, running, phase, ready, downloads,
                updaters, edits>>
checkVars == <<checking, cached, fresh, thread, answer, download, page>>
uiVars == <<backend, events, ui, queue, step, call, reply, off, refused, settled, asks, drifts>>
directoryVars == <<dirs, disk, part, at, starting, plan, torn, foreign>>
switchVars == <<core, selected, candidate, session, exchange, exchanges, restarts>>
processVars == <<owner, launch, process, brood, job, files, held>>

Update == INSTANCE PortableUpdate
Checks == INSTANCE UpdateCheck
         WITH running <- checking, Current <- <<1, 9>>,
              Versions <- {<<1, 9>>, <<2, 9>>, <<2, 1>>}
Ui == INSTANCE UiController WITH Nodes <- Servers
Directory == INSTANCE SessionDirectory
Switch == INSTANCE ServerSwitch
Process == INSTANCE EngineProcess

-----------------------------------------------------------------------------
Off == 0

ProvisioningOff ==
    /\ text = Off /\ request = Off /\ library = <<>> /\ stage = "source" /\ exits = <<>>
    /\ sealed = NoConfig /\ xray = NoConfig /\ launched = NoConfig
UpdateOff ==
    /\ target = Off /\ payload = Off /\ incoming = Off /\ previous = Off /\ latest = Off
    /\ gui = Off /\ running = Off /\ phase = Off /\ ready = Off /\ downloads = Off
    /\ updaters = Off /\ edits = Off
CheckOff ==
    /\ checking = Off /\ cached = Off /\ fresh = Off /\ thread = Off /\ answer = Off
    /\ download = Off /\ page = Off
UiOff ==
    /\ backend = Off /\ events = Off /\ ui = Off /\ queue = Off /\ step = Off /\ call = Off
    /\ reply = Off /\ off = Off /\ refused = Off /\ settled = Off /\ asks = Off /\ drifts = Off
DirectoryOff ==
    /\ dirs = Off /\ disk = Off /\ part = Off /\ at = Off /\ starting = Off /\ plan = Off
    /\ torn = Off /\ foreign = Off
SwitchOff ==
    /\ core = Off /\ selected = Off /\ candidate = Off /\ session = Off /\ exchange = Off
    /\ exchanges = Off /\ restarts = Off
ProcessOff ==
    /\ owner = Off /\ launch = Off /\ process = Off /\ brood = Off /\ job = Off
    /\ files = Off /\ held = Off

PartsInit ==
    /\ active \in {"provisioning", "update", "check", "ui", "directory", "switch", "process"}
    /\ IF active = "provisioning" THEN Init ELSE ProvisioningOff
    /\ IF active = "update" THEN Update!Init ELSE UpdateOff
    /\ IF active = "check" THEN Checks!Init ELSE CheckOff
    /\ IF active = "ui" THEN Ui!Init ELSE UiOff
    /\ IF active = "directory" THEN Directory!Init ELSE DirectoryOff
    /\ IF active = "switch" THEN Switch!Init ELSE SwitchOff
    /\ IF active = "process" THEN Process!Init ELSE ProcessOff

PartsNext ==
    /\ UNCHANGED active
    /\ \/ active = "provisioning" /\ Next /\ UNCHANGED <<updateVars, checkVars, uiVars,
             directoryVars, switchVars, processVars>>
       \/ active = "update" /\ Update!Next /\ UNCHANGED <<vars, checkVars, uiVars,
             directoryVars, switchVars, processVars>>
       \/ active = "check" /\ Checks!Next /\ UNCHANGED <<vars, updateVars, uiVars,
             directoryVars, switchVars, processVars>>
       \/ active = "ui" /\ Ui!Next /\ UNCHANGED <<vars, updateVars, checkVars,
             directoryVars, switchVars, processVars>>
       \/ active = "directory" /\ Directory!Next /\ UNCHANGED <<vars, updateVars,
             checkVars, uiVars, switchVars, processVars>>
       \/ active = "switch" /\ Switch!Next /\ UNCHANGED <<vars, updateVars, checkVars,
             uiVars, directoryVars, processVars>>
       \/ active = "process" /\ Process!Next /\ UNCHANGED <<vars, updateVars, checkVars,
             uiVars, directoryVars, switchVars>>

partsVars == <<active, vars, updateVars, checkVars, uiVars, directoryVars, switchVars,
               processVars>>
PartsSpec == PartsInit /\ [][PartsNext]_partsVars

-----------------------------------------------------------------------------
(* Properties: those of the parts.  Provisioning's need no name of their own *)

\* Every part's type invariant.
PartsTypeOK ==
    /\ TypeOK
    /\ active = "update" => Update!TypeOK
    /\ active = "check" => Checks!TypeOK
    /\ active = "ui" => Ui!TypeOK
    /\ active = "directory" => Directory!TypeOK
    /\ active = "switch" => Switch!TypeOK
    /\ active = "process" => Process!TypeOK

\* What stands in the installation's place is a whole release (PortableUpdate).
InstalledIsWhole == Update!InstalledIsWhole

\* The releases an update counts on are there whole: the one Settings calls
\* ready, and the one a repair needs while none is installed (PortableUpdate).
ReleasesKept == active = "update" => Update!ReadyIsStaged /\ Update!OldReleaseKept

\* Nobody waits for a check or a download that will not end (UpdateCheck).
EveryWaitEnds == active = "check" => Checks!EveryWaitEnds

\* The user's last word is what runs unless his start was refused, and once all is in
\* the window shows the backend's status (UiController).
IntentHonoured == active = "ui" => Ui!IntentHonoured /\ Ui!ShownIsCurrent

\* What a killed process leaves can be cleaned up, and nothing else is (SessionDirectory).
CleanupIsSafe == active = "directory" => Directory!CleanupIsSafe

\* Unless a session says it does not know, its traffic takes the server it names
\* (ServerSwitch).
SelectionIsKnown == active = "switch" => Switch!SelectionIsKnown

\* An engine runs only for a living owner that still wants it, from the files it
\* verified (EngineProcess).
EngineIsContained == active = "process" => Process!EngineIsContained
=============================================================================
