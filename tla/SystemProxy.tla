----------------------------- MODULE SystemProxy -----------------------------
(***************************************************************************)
(* SystemProxyManager (src/src-tauri/src/system_proxy.rs): how RouteDeck   *)
(* borrows the Windows System Proxy setting, which every other program of  *)
(* the user may rewrite at any time, and gives it back, across failed I/O  *)
(* and crashes of RouteDeck itself.                                        *)
(*                                                                         *)
(* One step is one visible effect: a read of the setting, a file operation *)
(* or a write of the setting.  Other programs act between any two steps.   *)
(* The controller serialises publish, restore and clear with its operation *)
(* lock, so one call is in progress at a time; diagnostics takes no lock   *)
(* and runs between the steps of a call.                                   *)
(***************************************************************************)
EXTENDS Naturals, FiniteSets

CONSTANTS
    Ids,            \* what tells one user setting from another
    Owners,         \* ownership markers (16 random bytes; one per publication)
    Tokens,         \* cleanup preview tokens (32 random bytes)
    RacingWriters   \* may another program write inside a compare-write window?

ASSUME RacingAssumption == RacingWriters \in BOOLEAN

(***************************************************************************)
(* A setting, by what the code distinguishes.  "direct": flags =           *)
(* PROXY_TYPE_DIRECT; "loopback": one manual loopback endpoint; "manual":  *)
(* any other manual or automatic proxy; "ours": a loopback endpoint whose  *)
(* bypass list carries RouteDeck's ownership marker.  Windows keeps the    *)
(* setting twice, as flat registry values and as WinINet flags, and they   *)
(* may disagree: "flat" has a loopback endpoint enabled in the values      *)
(* alone, "half" has a manual proxy in the flags alone.                    *)
(***************************************************************************)
Direct(i) == [kind |-> "direct", id |-> i]
Half(i)   == [kind |-> "half", id |-> i]
Ours(o)   == [kind |-> "ours", id |-> o]

SplitKinds   == {"flat", "half"}
UserSettings == [kind : {"direct", "loopback", "manual"} \cup SplitKinds, id : Ids]
OurSettings  == [kind : {"ours"}, id : Owners]
Settings     == UserSettings \cup OurSettings

\* system-proxy-session.json: absent, written in part, or whole.
NoJournal   == [kind |-> "none"]
TornJournal == [kind |-> "torn"]
Journal(o, previous) == [kind |-> "whole", owner |-> o, previous |-> previous]
WholeJournals == [kind : {"whole"}, owner : Owners, previous : UserSettings]
Applied(j)  == Ours(j.owner)

NoPreview == [kind |-> "none"]
Preview(t, s) == [kind |-> "preview", token |-> t, setting |-> s]
Previews  == {NoPreview} \cup [kind : {"preview"}, token : Tokens, setting : Settings]

VARIABLES
    registry,    \* the effective setting
    legible,     \* no RAS connection and no machine policy
    listener,    \* does a program listen on the loopback endpoint?
    journal,     \* the ownership journal on disk
    evidence,    \* archived conflict journals on disk
    up,          \* the RouteDeck process runs
    pc,          \* the step the current call is at
    owner,       \* the marker allocated by the current publish
    spent,       \* markers ever allocated
    expect,      \* the setting the current call read and compares with
    outcome,     \* what the last call returned
    preview,     \* cleanup_preview
    shown,       \* the cleanup preview the user is looking at
    userSetting  \* history: what the user or another program last chose

disk    == <<journal, evidence>>
windows == <<registry, legible, listener>>
locals  == <<owner, spent, expect>>
cleanup == <<preview, shown>>
vars == <<windows, disk, up, pc, locals, outcome, cleanup, userSetting>>

Steps == {"idle",
          "publish.journal", "publish.compare", "publish.apply", "publish.verify",
          "restore.read", "restore.archive", "restore.apply", "restore.verify",
          "restore.removeRestored", "restore.removeForeign",
          "clear.record", "clear.compare", "clear.apply", "clear.flags", "clear.verify"}

ClearSteps == {"clear.record", "clear.compare", "clear.apply", "clear.flags", "clear.verify"}

\* "unchanged" and "recovery" are the two SystemProxyErrors of publish and
\* restore, "kept" is SystemProxyError::Unchanged of clear_stale.
Results == {"none", "published", "unchanged", "recovery", "noJournal",
            "restored", "foreign", "cleared", "kept"}

TypeOK ==
    /\ registry \in Settings
    /\ legible \in BOOLEAN
    /\ listener \in BOOLEAN
    /\ journal \in {NoJournal, TornJournal} \cup WholeJournals
    /\ evidence \subseteq WholeJournals
    /\ up \in BOOLEAN
    /\ pc \in Steps
    /\ owner \in Owners
    /\ spent \subseteq Owners
    /\ expect \in Settings
    /\ outcome \in Results
    /\ preview \in Previews
    /\ shown \in Previews
    /\ userSetting \in UserSettings

\* First start on a machine where the user has chosen some setting.
Init ==
    /\ registry \in UserSettings
    /\ legible = TRUE
    /\ listener \in BOOLEAN
    /\ journal = NoJournal
    /\ evidence = {}
    /\ up = TRUE
    /\ pc = "idle"
    /\ owner \in Owners
    /\ spent = {}
    /\ expect = registry
    /\ outcome = "none"
    /\ preview = NoPreview
    /\ shown = NoPreview
    /\ userSetting = registry

-----------------------------------------------------------------------------
\* A call ends with a result for the controller.
Return(result) ==
    /\ pc' = "idle"
    /\ outcome' = result

Goto(step) ==
    /\ pc' = step
    /\ UNCHANGED outcome

\* SystemProxyManager.snapshot(): an ambiguous setting reads as an error.
Readable == legible /\ registry.kind \notin SplitKinds
Reads(s) == Readable /\ registry = s

-----------------------------------------------------------------------------
(* publish_loopback *)

\* Nothing was touched and nothing will be: the error says so.
PublishRefusal ==
    IF journal # NoJournal THEN "recovery" ELSE "unchanged"

\* Slip: any setting that can be read is taken over.
PublishMayProceedOverAnything == Readable

PublishMayProceed ==
    journal = NoJournal /\ Readable /\ registry.kind = "direct"

PublishBegin ==
    /\ up /\ pc = "idle"
    /\ owner' \in Owners \ spent
    /\ spent' = spent \cup {owner'}
    /\ expect' = registry
    /\ IF PublishMayProceed THEN Goto("publish.journal") ELSE Return(PublishRefusal)
    /\ UNCHANGED <<windows, disk, up, cleanup, userSetting>>

\* Slip: a failed write_journal is reported like a refusal before it.
WriteJournalFailureUnchanged ==
    /\ up /\ pc = "publish.journal"
    /\ \/ journal' = Journal(owner, expect) /\ Goto("publish.compare")
       \/ journal' \in {NoJournal, TornJournal, Journal(owner, expect)} /\ Return("unchanged")
    /\ UNCHANGED <<windows, evidence, up, locals, cleanup, userSetting>>

\* write_journal: create_new, write_all, sync_all; each of them may fail and
\* whatever reached the disk is kept.
WriteJournal ==
    /\ up /\ pc = "publish.journal"
    /\ \/ /\ journal' = Journal(owner, expect)
          /\ Goto("publish.compare")
       \/ /\ journal' \in {NoJournal, TornJournal, Journal(owner, expect)}
          /\ Return("recovery")
    /\ UNCHANGED <<windows, evidence, up, locals, cleanup, userSetting>>

\* Slip: the setting is not read again after the journal is written.
PublishCompareSkipped ==
    /\ up /\ pc = "publish.compare"
    /\ Goto("publish.apply")
    /\ UNCHANGED <<windows, disk, up, locals, cleanup, userSetting>>

\* verify_exact(previous)
PublishCompare ==
    /\ up /\ pc = "publish.compare"
    /\ IF Reads(expect) THEN Goto("publish.apply") ELSE Return("recovery")
    /\ UNCHANGED <<windows, disk, up, locals, cleanup, userSetting>>

\* backend.apply(applied): Windows may reject the write, or take it and fail
\* to refresh; both are reported as the same error.
PublishApply ==
    /\ up /\ pc = "publish.apply"
    /\ \/ registry' = Ours(owner) /\ Goto("publish.verify")
       \/ registry' \in {registry, Ours(owner)} /\ Return("recovery")
    /\ UNCHANGED <<legible, listener, disk, up, locals, cleanup, userSetting>>

\* verify_exact(applied)
PublishVerify ==
    /\ up /\ pc = "publish.verify"
    /\ Return(IF Reads(Ours(owner)) THEN "published" ELSE "recovery")
    /\ UNCHANGED <<windows, disk, up, locals, cleanup, userSetting>>

-----------------------------------------------------------------------------
(* restore_if_owned, also reconcile_stale_journal *)

RestoreBegin ==
    /\ up /\ pc = "idle"
    /\ pc' = "restore.read"
    /\ UNCHANGED <<windows, disk, up, locals, outcome, cleanup, userSetting>>

\* Slip: a setting that cannot be read counts as somebody else's.
RestoreReadIllegibleIsForeign ==
    /\ up /\ pc = "restore.read"
    /\ CASE journal = NoJournal   -> Return("noJournal")
         [] journal = TornJournal -> Return("recovery")
         [] journal.kind = "whole" /\ Reads(journal.previous) -> Goto("restore.removeRestored")
         [] journal.kind = "whole" /\ Reads(Applied(journal)) -> Goto("restore.apply")
         [] OTHER                 -> Goto("restore.archive")
    /\ UNCHANGED <<windows, disk, up, locals, cleanup, userSetting>>

\* Slip: a whole journal is enough to put the noted setting back.
RestoreReadOwnsAll ==
    /\ up /\ pc = "restore.read"
    /\ CASE journal = NoJournal                -> Return("noJournal")
         [] journal = TornJournal              -> Return("recovery")
         [] journal.kind = "whole" /\ ~Readable -> Return("recovery")
         [] OTHER                              -> Goto("restore.apply")
    /\ UNCHANGED <<windows, disk, up, locals, cleanup, userSetting>>

RestoreRead ==
    /\ up /\ pc = "restore.read"
    /\ CASE journal = NoJournal               -> Return("noJournal")
         [] journal = TornJournal             -> Return("recovery")
         [] journal.kind = "whole" /\ ~Readable -> Return("recovery")
         [] journal.kind = "whole" /\ Reads(journal.previous)
                                              -> Goto("restore.removeRestored")
         [] journal.kind = "whole" /\ Reads(Applied(journal))
                                              -> Goto("restore.apply")
         [] OTHER                             -> Goto("restore.archive")
    /\ UNCHANGED <<windows, disk, up, locals, cleanup, userSetting>>

\* Slip: a failed hard_link does not stop the removal.
RestoreArchiveBestEffort ==
    /\ up /\ pc = "restore.archive"
    /\ evidence' \in {evidence, evidence \cup {journal}}
    /\ Goto("restore.removeForeign")
    /\ UNCHANGED <<windows, journal, up, locals, cleanup, userSetting>>

\* preserve_conflict_journal: hard_link is create-only; evidence left by an
\* archive that crashed before the removal is recognised by its content.
RestoreArchive ==
    /\ up /\ pc = "restore.archive"
    /\ \/ /\ evidence' = evidence \cup {journal}
          /\ Goto("restore.removeForeign")
       \/ /\ Return("recovery")
          /\ UNCHANGED evidence
    /\ UNCHANGED <<windows, journal, up, locals, cleanup, userSetting>>

\* backend.apply(previous), with the same two failures as in publish.
RestoreApply ==
    /\ up /\ pc = "restore.apply"
    /\ \/ registry' = journal.previous /\ Goto("restore.verify")
       \/ registry' \in {registry, journal.previous} /\ Return("recovery")
    /\ UNCHANGED <<legible, listener, disk, up, locals, cleanup, userSetting>>

\* verify_exact(previous)
RestoreVerify ==
    /\ up /\ pc = "restore.verify"
    /\ IF Reads(journal.previous) THEN Goto("restore.removeRestored")
                                  ELSE Return("recovery")
    /\ UNCHANGED <<windows, disk, up, locals, cleanup, userSetting>>

RestoreRemove ==
    /\ up /\ pc \in {"restore.removeRestored", "restore.removeForeign"}
    /\ \/ /\ journal' = NoJournal
          /\ Return(IF pc = "restore.removeRestored" THEN "restored" ELSE "foreign")
       \/ /\ Return("recovery")
          /\ UNCHANGED journal
    /\ UNCHANGED <<windows, evidence, up, locals, cleanup, userSetting>>

-----------------------------------------------------------------------------
(* diagnostics and clear_stale: a loopback proxy nobody listens on, left by *)
(* another program, is turned off once the user has seen exactly that one.  *)

\* classify_cleanup_observation(..) = Stale
Stale == legible /\ registry.kind \in {"loopback", "ours", "flat"} /\ ~listener

\* diagnostics(): every observation supersedes the previous preview, and only
\* a stale setting without an ownership journal yields a token.
Diagnose ==
    /\ up
    /\ \/ /\ journal = NoJournal /\ Stale
          /\ \E t \in Tokens :
               /\ \A p \in {preview, shown} : p # NoPreview => p.token # t
               /\ preview' = Preview(t, registry)
       \/ /\ ~(journal = NoJournal /\ Stale)
          /\ preview' = NoPreview
    \* The answer may reach the user's screen, or be overtaken by the click.
    /\ shown' \in IF pc \in ClearSteps THEN {shown} ELSE {shown, preview'}
    /\ UNCHANGED <<windows, disk, up, pc, locals, outcome, userSetting>>

TokenMatches == preview # NoPreview /\ preview.token = shown.token

\* The user clicks Clear on the preview shown.  The stored preview is taken
\* out whether or not its token matches.
ClearBegin ==
    /\ up /\ pc = "idle" /\ shown # NoPreview
    /\ IF journal # NoJournal
         THEN /\ Return(IF journal = TornJournal THEN "recovery" ELSE "kept")
              /\ UNCHANGED <<expect, preview>>
         ELSE /\ preview' = NoPreview
              /\ IF TokenMatches /\ preview.setting = registry /\ Stale
                   THEN expect' = registry /\ Goto("clear.record")
                   ELSE Return("kept") /\ UNCHANGED expect
    /\ UNCHANGED <<windows, disk, up, owner, spent, shown, userSetting>>

\* write_cleanup_journal: a record of the setting, never read back by the code.
ClearRecord ==
    /\ up /\ pc = "clear.record"
    /\ Goto("clear.compare") \/ Return("recovery")
    /\ UNCHANGED <<windows, disk, up, locals, cleanup, userSetting>>

\* clear_manual_if_exact: observe again, which may fail ...
ClearCompare ==
    /\ up /\ pc = "clear.compare"
    /\ \/ legible /\ registry = expect /\ ~listener /\ Goto("clear.apply")
       \/ ~(legible /\ registry = expect /\ ~listener) /\ Return("kept")
       \/ Return("recovery")
    /\ UNCHANGED <<windows, disk, up, locals, cleanup, userSetting>>

\* ... then disable_user_manual_proxy: first ProxyEnable = 0, the server and
\* bypass values left in place ...
FlatOff(s) == IF s.kind \in {"direct", "flat"} THEN Direct(s.id) ELSE Half(s.id)

\* What the user saw and turned off becomes the user's choice; any other
\* setting lost here does not.
TurnedOff(seen) ==
    userSetting' = IF registry' # registry /\ registry = seen /\ ~listener
                     THEN registry' ELSE userSetting

ClearApply ==
    /\ up /\ pc = "clear.apply"
    /\ \/ registry' = FlatOff(registry) /\ Goto("clear.flags")
       \/ UNCHANGED registry /\ Return("recovery")
    /\ TurnedOff(shown.setting)
    /\ UNCHANGED <<legible, listener, disk, up, locals, cleanup>>

\* ... then the DIRECT flag; Windows may reject it, or take it and fail to
\* refresh.
ClearFlags ==
    /\ up /\ pc = "clear.flags"
    /\ \/ registry' = Direct(registry.id) /\ Goto("clear.verify")
       \/ registry' \in {registry, Direct(registry.id)} /\ Return("recovery")
    /\ TurnedOff(FlatOff(shown.setting))
    /\ UNCHANGED <<legible, listener, disk, up, locals, cleanup>>

\* The observation afterwards may fail too.
ClearVerify ==
    /\ up /\ pc = "clear.verify"
    /\ \/ Reads(Direct(expect.id)) /\ ~listener /\ Return("cleared")
       \/ Return("recovery")
    /\ UNCHANGED <<windows, disk, up, locals, cleanup, userSetting>>

-----------------------------------------------------------------------------
(* The rest of the machine *)

\* Between the comparison that licenses a write and the write itself.
InWriteWindow == pc \in {"publish.apply", "restore.apply", "clear.apply", "clear.flags"}

\* Another program, or the user in Windows settings, changes the proxy.  Owner
\* markers are random, so nobody else makes up a setting of ours; a program that
\* saved one of ours and writes it back later is left out.
OtherWrites ==
    /\ RacingWriters \/ ~InWriteWindow
    /\ \E s \in UserSettings \ {registry} : registry' = s /\ userSetting' = s
    /\ UNCHANGED <<legible, listener, disk, up, pc, locals, outcome, cleanup>>

\* A RAS connection or a machine policy comes or goes.
LegibilityChanges ==
    /\ legible' = ~legible
    /\ UNCHANGED <<registry, listener, disk, up, pc, locals, outcome, cleanup, userSetting>>

ListenerChanges ==
    /\ RacingWriters \/ ~InWriteWindow
    /\ listener' = ~listener
    /\ UNCHANGED <<registry, legible, disk, up, pc, locals, outcome, cleanup, userSetting>>

\* The process ends at any step; in the middle of write_journal the file may
\* be missing, cut short or whole.
Crash ==
    /\ up
    /\ up' = FALSE
    /\ pc' = "idle"
    /\ outcome' = "none"
    /\ preview' = NoPreview
    /\ shown' = NoPreview
    /\ IF pc = "publish.journal"
         THEN journal' \in {NoJournal, TornJournal, Journal(owner, expect)}
         ELSE UNCHANGED journal
    /\ UNCHANGED <<windows, evidence, locals, userSetting>>

\* production_with_recovery reconciles the journal before anything else.
Restart ==
    /\ ~up
    /\ up' = TRUE
    /\ pc' = "restore.read"
    /\ UNCHANGED <<windows, disk, locals, outcome, cleanup, userSetting>>

Publish == PublishBegin \/ WriteJournal \/ PublishCompare \/ PublishApply \/ PublishVerify
Restore == RestoreBegin \/ RestoreRead \/ RestoreArchive \/ RestoreApply
             \/ RestoreVerify \/ RestoreRemove
Clear   == ClearBegin \/ ClearRecord \/ ClearCompare \/ ClearApply \/ ClearFlags \/ ClearVerify
Others  == OtherWrites \/ LegibilityChanges \/ ListenerChanges

Next == Publish \/ Restore \/ Clear \/ Diagnose \/ Others \/ Crash \/ Restart

Spec == Init /\ [][Next]_vars

-----------------------------------------------------------------------------
(* Properties *)

\* The setting never points at RouteDeck unless a whole journal on disk names
\* that very publication, so that a stop, or the start after a crash at any
\* step, can give the setting back (publish_loopback writes the journal
\* before the setting; restore_if_owned removes it after).
OwnedHasJournal ==
    registry \in OurSettings => /\ journal \in WholeJournals
                               /\ registry = Applied(journal)

\* What publish_loopback and restore_if_owned return is what the controller
\* builds on: after Unchanged, NoJournal, Restored or ForeignPreserved it stops
\* the core without restoring, so nothing of RouteDeck may be left behind; after
\* a successful publish the journal for the restore exists.
HonestOutcome ==
    pc = "idle" =>
      /\ outcome \in {"unchanged", "noJournal", "restored", "foreign"} =>
            journal = NoJournal /\ registry \notin OurSettings
      /\ outcome = "published" => journal \in WholeJournals

\* Whatever the user or another program chose last is in force, or is what the
\* journal will put back: RouteDeck never loses it and never turns off a proxy
\* the user did not see as stale (verify_exact before apply; the comparisons of
\* restore_if_owned and clear_stale).
UserSettingSurvives ==
    IF registry \in OurSettings THEN journal.previous = userSetting
                                ELSE registry = userSetting

\* A conflict is reported as preserved only when the journal being removed has
\* been archived, whichever step a crash interrupted (preserve_conflict_journal).
ConflictLeavesEvidence ==
    [][outcome # "foreign" /\ outcome' = "foreign" => journal \in evidence]_vars

=============================================================================
