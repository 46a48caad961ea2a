------------------------------ MODULE ProxyLoan ------------------------------
(***************************************************************************)
(* What SystemProxyManager promises about the user's proxy setting, without *)
(* its files, steps and crashes: RouteDeck takes a setting on loan.  It     *)
(* notes the setting, puts its own in its place only while the noted one is *)
(* still in force, and gives back exactly what it noted, or forgets the     *)
(* note once its own setting is gone.  Everybody else may change the        *)
(* setting at any time.  `SystemProxy` implements this.                     *)
(***************************************************************************)
CONSTANTS
    UserSettings,      \* what users and other programs choose
    Lendable,          \* the DIRECT ones, which RouteDeck may replace
    SwitchedOff,       \* what each setting may become while its manual proxy is turned off
    RouteDecks,        \* RouteDeck's own setting
    NoNote, TornNote   \* nothing noted; a note that cannot be read

VARIABLES
    setting,    \* the setting in force
    note,       \* what would be given back
    choice,     \* the last choice of somebody other than RouteDeck
    answer      \* what the last call told the controller

vars == <<setting, note, choice, answer>>

Init ==
    /\ setting \in UserSettings
    /\ note = NoNote
    /\ choice = setting
    /\ answer = "none"

\* A note may be lost half-way; then nothing is ever taken or given on it.
Note ==
    /\ note = NoNote /\ setting # RouteDecks
    /\ note' \in Lendable \cup {TornNote}
    /\ UNCHANGED <<setting, choice>>

Take ==
    /\ note \in Lendable /\ setting = note
    /\ setting' = RouteDecks
    /\ UNCHANGED <<note, choice>>

GiveBack ==
    /\ note \in Lendable /\ setting = RouteDecks
    /\ setting' = note
    /\ UNCHANGED <<note, choice>>

Forget ==
    /\ note \in Lendable /\ setting # RouteDecks
    /\ note' = NoNote
    /\ UNCHANGED <<setting, choice>>

\* The user agreed to turn off a proxy that nobody serves.
SwitchOff ==
    /\ note = NoNote /\ setting # RouteDecks
    /\ setting' \in SwitchedOff[setting] /\ choice' = setting'
    /\ UNCHANGED note

OthersChoose ==
    /\ setting' \in UserSettings /\ choice' = setting'
    /\ UNCHANGED note

\* A new answer is true when it is given.
Truthful ==
    CASE answer' \in {"unchanged", "noJournal", "restored", "foreign"} ->
           note' = NoNote /\ setting' # RouteDecks
      [] answer' = "published" -> note' \in Lendable /\ setting' = RouteDecks
      [] answer' = "cleared"   -> note' = NoNote /\ setting' # RouteDecks
      [] OTHER                 -> TRUE

Answer == answer' = answer \/ Truthful

Move == Note \/ Take \/ GiveBack \/ Forget \/ SwitchOff \/ OthersChoose
          \/ UNCHANGED <<setting, note, choice>>

Next == Move /\ Answer

Spec == Init /\ [][Next]_vars
=============================================================================
