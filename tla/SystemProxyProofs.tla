-------------------------- MODULE SystemProxyProofs --------------------------
(***************************************************************************)
(* Theorems about SystemProxy, for every set of settings, markers and      *)
(* tokens: RouteDeck's setting is never in force without the journal that  *)
(* undoes it, what publish and restore return is true, and, when nobody    *)
(* writes between a comparison and its write, the user's own setting is    *)
(* never lost, and what is left of it all is the loan of one setting       *)
(* (ProxyLoan).                                                            *)
(***************************************************************************)
EXTENDS SystemProxyLoan, TLAPS

\* What each step of a call knows of the disk, the setting and its locals.
CallOK ==
    /\ pc = "publish.journal" => journal = NoJournal
    /\ pc \in {"publish.journal", "publish.compare", "publish.apply"} =>
          expect \in UserSettings /\ registry \notin OurSettings
    /\ pc \in {"publish.compare", "publish.apply", "publish.verify"} =>
          expect \in UserSettings /\ journal = Journal(owner, expect)
    /\ pc \in {"restore.archive", "restore.apply", "restore.verify",
               "restore.removeRestored", "restore.removeForeign"} =>
          journal \in WholeJournals
    /\ pc \in {"restore.archive", "restore.verify",
               "restore.removeRestored", "restore.removeForeign"} =>
          registry \notin OurSettings
    /\ pc \in ClearSteps => journal = NoJournal

IInv == TypeOK /\ CallOK /\ OwnedHasJournal /\ HonestOutcome

-----------------------------------------------------------------------------
(* Settings and journals *)

\* The user's settings and RouteDeck's are told apart by their kind.
LEMMA SettingsApart ==
    /\ UserSettings \cap OurSettings = {}
    /\ UserSettings \subseteq Settings /\ OurSettings \subseteq Settings
    /\ \A o \in Owners : Ours(o) \in OurSettings
    /\ \A s \in Settings : s.kind = "direct" => s \in UserSettings
    /\ \A s \in Settings : s \notin OurSettings => s \in UserSettings
    /\ \A s \in UserSettings : Direct(s.id) \in UserSettings /\ FlatOff(s) \in UserSettings
BY DEF UserSettings, SplitKinds, OurSettings, Settings, Direct, Half, FlatOff, Ours

\* A whole journal is neither absent nor torn, and names a publication of
\* RouteDeck and a setting of the user.
LEMMA JournalFacts ==
    /\ NoJournal \notin WholeJournals
    /\ TornJournal \notin WholeJournals
    /\ NoJournal # TornJournal
    /\ NoJournal.kind # "whole" /\ TornJournal.kind # "whole"
    /\ \A o \in Owners, s \in UserSettings :
          /\ Journal(o, s) \in WholeJournals
          /\ Journal(o, s).owner = o /\ Journal(o, s).previous = s
    /\ \A j \in WholeJournals :
          /\ j.kind = "whole" /\ j.owner \in Owners /\ j.previous \in UserSettings
          /\ Applied(j) \in OurSettings
BY DEF NoJournal, TornJournal, WholeJournals, Journal, Applied, Ours, OurSettings

\* A preview is absent or holds a token and the setting it was issued for.
LEMMA PreviewFacts ==
    /\ NoPreview \in Previews
    /\ \A t \in Tokens, s \in Settings : Preview(t, s) \in Previews
BY DEF NoPreview, Previews, Preview

-----------------------------------------------------------------------------
LEMMA InitIInv == Init => IInv
<1> SUFFICES ASSUME Init PROVE IInv
  OBVIOUS
<1>1. TypeOK
  BY DEF Init, TypeOK, Settings, Steps, Results, Previews
<1>2. CallOK
  BY DEF Init, CallOK, ClearSteps
<1>3. OwnedHasJournal
  BY SettingsApart DEF Init, OwnedHasJournal
<1>4. HonestOutcome
  BY DEF Init, HonestOutcome
<1> QED
  BY <1>1, <1>2, <1>3, <1>4 DEF IInv
-----------------------------------------------------------------------------
LEMMA StepIInv == IInv /\ [Next]_vars => IInv'
<1> SUFFICES ASSUME IInv, [Next]_vars PROVE IInv'
  OBVIOUS
<1> USE DEF IInv, Goto, Return, windows, disk, locals, cleanup
<1>1. CASE PublishBegin
  <2>1. TypeOK'
    BY <1>1, SettingsApart, JournalFacts, PreviewFacts DEF PublishBegin, PublishMayProceed, Readable, PublishRefusal, TypeOK, CallOK, Steps, Results
  <2>2. CallOK'
    BY <1>1, SettingsApart, JournalFacts DEF PublishBegin, PublishMayProceed, Readable, PublishRefusal, TypeOK, CallOK, OwnedHasJournal, ClearSteps
  <2>3. OwnedHasJournal'
    BY <1>1, SettingsApart, JournalFacts DEF PublishBegin, PublishMayProceed, Readable, PublishRefusal, TypeOK, CallOK, OwnedHasJournal, Applied
  <2>4. HonestOutcome'
    BY <1>1, SettingsApart, JournalFacts DEF PublishBegin, PublishMayProceed, Readable, PublishRefusal, TypeOK, CallOK, OwnedHasJournal, HonestOutcome
  <2> QED
    BY <2>1, <2>2, <2>3, <2>4
<1>2. CASE WriteJournal
  <2>1. TypeOK'
    BY <1>2, SettingsApart, JournalFacts, PreviewFacts DEF WriteJournal, TypeOK, CallOK, Steps, Results
  <2>2. CallOK'
    BY <1>2, SettingsApart, JournalFacts DEF WriteJournal, TypeOK, CallOK, OwnedHasJournal, ClearSteps
  <2>3. OwnedHasJournal'
    BY <1>2, SettingsApart, JournalFacts DEF WriteJournal, TypeOK, CallOK, OwnedHasJournal, Applied
  <2>4. HonestOutcome'
    BY <1>2, SettingsApart, JournalFacts DEF WriteJournal, TypeOK, CallOK, OwnedHasJournal, HonestOutcome
  <2> QED
    BY <2>1, <2>2, <2>3, <2>4
<1>3. CASE PublishCompare
  <2>1. TypeOK'
    BY <1>3, SettingsApart, JournalFacts, PreviewFacts DEF PublishCompare, Reads, Readable, TypeOK, CallOK, Steps, Results
  <2>2. CallOK'
    BY <1>3, SettingsApart, JournalFacts DEF PublishCompare, Reads, Readable, TypeOK, CallOK, OwnedHasJournal, ClearSteps
  <2>3. OwnedHasJournal'
    BY <1>3, SettingsApart, JournalFacts DEF PublishCompare, Reads, Readable, TypeOK, CallOK, OwnedHasJournal, Applied
  <2>4. HonestOutcome'
    BY <1>3, SettingsApart, JournalFacts DEF PublishCompare, Reads, Readable, TypeOK, CallOK, OwnedHasJournal, HonestOutcome
  <2> QED
    BY <2>1, <2>2, <2>3, <2>4
<1>4. CASE PublishApply
  <2>1. TypeOK'
    BY <1>4, SettingsApart, JournalFacts, PreviewFacts DEF PublishApply, TypeOK, CallOK, Steps, Results
  <2>2. CallOK'
    BY <1>4, SettingsApart, JournalFacts DEF PublishApply, TypeOK, CallOK, OwnedHasJournal, ClearSteps
  <2>3. OwnedHasJournal'
    BY <1>4, SettingsApart, JournalFacts DEF PublishApply, TypeOK, CallOK, OwnedHasJournal, Applied
  <2>4. HonestOutcome'
    BY <1>4, SettingsApart, JournalFacts DEF PublishApply, TypeOK, CallOK, OwnedHasJournal, HonestOutcome
  <2> QED
    BY <2>1, <2>2, <2>3, <2>4
<1>5. CASE PublishVerify
  <2>1. TypeOK'
    BY <1>5, SettingsApart, JournalFacts, PreviewFacts DEF PublishVerify, Reads, Readable, TypeOK, CallOK, Steps, Results
  <2>2. CallOK'
    BY <1>5, SettingsApart, JournalFacts DEF PublishVerify, Reads, Readable, TypeOK, CallOK, OwnedHasJournal, ClearSteps
  <2>3. OwnedHasJournal'
    BY <1>5, SettingsApart, JournalFacts DEF PublishVerify, Reads, Readable, TypeOK, CallOK, OwnedHasJournal, Applied
  <2>4. HonestOutcome'
    BY <1>5, SettingsApart, JournalFacts DEF PublishVerify, Reads, Readable, TypeOK, CallOK, OwnedHasJournal, HonestOutcome
  <2> QED
    BY <2>1, <2>2, <2>3, <2>4
<1>6. CASE RestoreBegin
  <2>1. TypeOK'
    BY <1>6, SettingsApart, JournalFacts, PreviewFacts DEF RestoreBegin, TypeOK, CallOK, Steps, Results
  <2>2. CallOK'
    BY <1>6, SettingsApart, JournalFacts DEF RestoreBegin, TypeOK, CallOK, OwnedHasJournal, ClearSteps
  <2>3. OwnedHasJournal'
    BY <1>6, SettingsApart, JournalFacts DEF RestoreBegin, TypeOK, CallOK, OwnedHasJournal, Applied
  <2>4. HonestOutcome'
    BY <1>6, SettingsApart, JournalFacts DEF RestoreBegin, TypeOK, CallOK, OwnedHasJournal, HonestOutcome
  <2> QED
    BY <2>1, <2>2, <2>3, <2>4
<1>7. CASE RestoreRead
  <2>1. TypeOK'
    BY <1>7, SettingsApart, JournalFacts, PreviewFacts DEF RestoreRead, Reads, Readable, TypeOK, CallOK, Steps, Results
  <2>2. CallOK'
    BY <1>7, SettingsApart, JournalFacts DEF RestoreRead, Reads, Readable, TypeOK, CallOK, OwnedHasJournal, ClearSteps
  <2>3. OwnedHasJournal'
    BY <1>7, SettingsApart, JournalFacts DEF RestoreRead, Reads, Readable, TypeOK, CallOK, OwnedHasJournal, Applied
  <2>4. HonestOutcome'
    BY <1>7, SettingsApart, JournalFacts DEF RestoreRead, Reads, Readable, TypeOK, CallOK, OwnedHasJournal, HonestOutcome
  <2> QED
    BY <2>1, <2>2, <2>3, <2>4
<1>8. CASE RestoreArchive
  <2>1. TypeOK'
    BY <1>8, SettingsApart, JournalFacts, PreviewFacts DEF RestoreArchive, TypeOK, CallOK, Steps, Results
  <2>2. CallOK'
    BY <1>8, SettingsApart, JournalFacts DEF RestoreArchive, TypeOK, CallOK, OwnedHasJournal, ClearSteps
  <2>3. OwnedHasJournal'
    BY <1>8, SettingsApart, JournalFacts DEF RestoreArchive, TypeOK, CallOK, OwnedHasJournal, Applied
  <2>4. HonestOutcome'
    BY <1>8, SettingsApart, JournalFacts DEF RestoreArchive, TypeOK, CallOK, OwnedHasJournal, HonestOutcome
  <2> QED
    BY <2>1, <2>2, <2>3, <2>4
<1>9. CASE RestoreApply
  <2>1. TypeOK'
    BY <1>9, SettingsApart, JournalFacts, PreviewFacts DEF RestoreApply, TypeOK, CallOK, Steps, Results
  <2>2. CallOK'
    BY <1>9, SettingsApart, JournalFacts DEF RestoreApply, TypeOK, CallOK, OwnedHasJournal, ClearSteps
  <2>3. OwnedHasJournal'
    BY <1>9, SettingsApart, JournalFacts DEF RestoreApply, TypeOK, CallOK, OwnedHasJournal, Applied
  <2>4. HonestOutcome'
    BY <1>9, SettingsApart, JournalFacts DEF RestoreApply, TypeOK, CallOK, OwnedHasJournal, HonestOutcome
  <2> QED
    BY <2>1, <2>2, <2>3, <2>4
<1>10. CASE RestoreVerify
  <2>1. TypeOK'
    BY <1>10, SettingsApart, JournalFacts, PreviewFacts DEF RestoreVerify, Reads, Readable, TypeOK, CallOK, Steps, Results
  <2>2. CallOK'
    BY <1>10, SettingsApart, JournalFacts DEF RestoreVerify, Reads, Readable, TypeOK, CallOK, OwnedHasJournal, ClearSteps
  <2>3. OwnedHasJournal'
    BY <1>10, SettingsApart, JournalFacts DEF RestoreVerify, Reads, Readable, TypeOK, CallOK, OwnedHasJournal, Applied
  <2>4. HonestOutcome'
    BY <1>10, SettingsApart, JournalFacts DEF RestoreVerify, Reads, Readable, TypeOK, CallOK, OwnedHasJournal, HonestOutcome
  <2> QED
    BY <2>1, <2>2, <2>3, <2>4
<1>11. CASE RestoreRemove
  <2>1. TypeOK'
    BY <1>11, SettingsApart, JournalFacts, PreviewFacts DEF RestoreRemove, TypeOK, CallOK, Steps, Results
  <2>2. CallOK'
    BY <1>11, SettingsApart, JournalFacts DEF RestoreRemove, TypeOK, CallOK, OwnedHasJournal, ClearSteps
  <2>3. OwnedHasJournal'
    BY <1>11, SettingsApart, JournalFacts DEF RestoreRemove, TypeOK, CallOK, OwnedHasJournal, Applied
  <2>4. HonestOutcome'
    BY <1>11, SettingsApart, JournalFacts DEF RestoreRemove, TypeOK, CallOK, OwnedHasJournal, HonestOutcome
  <2> QED
    BY <2>1, <2>2, <2>3, <2>4
<1>12. CASE Diagnose
  <2>1. TypeOK'
    BY <1>12, SettingsApart, JournalFacts, PreviewFacts DEF Diagnose, Stale, TypeOK, CallOK, Steps, Results
  <2>2. CallOK'
    BY <1>12, SettingsApart, JournalFacts DEF Diagnose, Stale, TypeOK, CallOK, OwnedHasJournal, ClearSteps
  <2>3. OwnedHasJournal'
    BY <1>12, SettingsApart, JournalFacts DEF Diagnose, Stale, TypeOK, CallOK, OwnedHasJournal, Applied
  <2>4. HonestOutcome'
    BY <1>12, SettingsApart, JournalFacts DEF Diagnose, Stale, TypeOK, CallOK, OwnedHasJournal, HonestOutcome
  <2> QED
    BY <2>1, <2>2, <2>3, <2>4
<1>13. CASE ClearBegin
  <2>1. TypeOK'
    BY <1>13, SettingsApart, JournalFacts, PreviewFacts DEF ClearBegin, Stale, TokenMatches, TypeOK, CallOK, Steps, Results
  <2>2. CallOK'
    BY <1>13, SettingsApart, JournalFacts DEF ClearBegin, Stale, TokenMatches, TypeOK, CallOK, OwnedHasJournal, ClearSteps
  <2>3. OwnedHasJournal'
    BY <1>13, SettingsApart, JournalFacts DEF ClearBegin, Stale, TokenMatches, TypeOK, CallOK, OwnedHasJournal, Applied
  <2>4. HonestOutcome'
    BY <1>13, SettingsApart, JournalFacts DEF ClearBegin, Stale, TokenMatches, TypeOK, CallOK, OwnedHasJournal, HonestOutcome
  <2> QED
    BY <2>1, <2>2, <2>3, <2>4
<1>14. CASE ClearRecord
  <2>1. TypeOK'
    BY <1>14, SettingsApart, JournalFacts, PreviewFacts DEF ClearRecord, TypeOK, CallOK, Steps, Results
  <2>2. CallOK'
    BY <1>14, SettingsApart, JournalFacts DEF ClearRecord, TypeOK, CallOK, OwnedHasJournal, ClearSteps
  <2>3. OwnedHasJournal'
    BY <1>14, SettingsApart, JournalFacts DEF ClearRecord, TypeOK, CallOK, OwnedHasJournal, Applied
  <2>4. HonestOutcome'
    BY <1>14, SettingsApart, JournalFacts DEF ClearRecord, TypeOK, CallOK, OwnedHasJournal, HonestOutcome
  <2> QED
    BY <2>1, <2>2, <2>3, <2>4
<1>15. CASE ClearCompare
  <2>1. TypeOK'
    BY <1>15, SettingsApart, JournalFacts, PreviewFacts DEF ClearCompare, TypeOK, CallOK, Steps, Results
  <2>2. CallOK'
    BY <1>15, SettingsApart, JournalFacts DEF ClearCompare, TypeOK, CallOK, OwnedHasJournal, ClearSteps
  <2>3. OwnedHasJournal'
    BY <1>15, SettingsApart, JournalFacts DEF ClearCompare, TypeOK, CallOK, OwnedHasJournal, Applied
  <2>4. HonestOutcome'
    BY <1>15, SettingsApart, JournalFacts DEF ClearCompare, TypeOK, CallOK, OwnedHasJournal, HonestOutcome
  <2> QED
    BY <2>1, <2>2, <2>3, <2>4
<1>16. CASE ClearApply
  <2>0. registry \in UserSettings /\ FlatOff(registry) \in UserSettings
    <3>1. journal = NoJournal
      BY <1>16 DEF ClearApply, CallOK, ClearSteps
    <3>2. registry \notin OurSettings
      BY <3>1, JournalFacts DEF OwnedHasJournal
    <3> QED
      BY <3>2, SettingsApart DEF TypeOK
  <2>1. TypeOK'
    BY <1>16, <2>0, SettingsApart DEF ClearApply, TurnedOff, TypeOK, Steps, Results
  <2>2. CallOK'
    BY <1>16, SettingsApart, JournalFacts DEF ClearApply, TurnedOff, TypeOK, CallOK, OwnedHasJournal, ClearSteps
  <2>3. OwnedHasJournal'
    BY <1>16, <2>0, SettingsApart DEF ClearApply, TurnedOff, OwnedHasJournal
  <2>4. HonestOutcome'
    BY <1>16, SettingsApart, JournalFacts DEF ClearApply, TurnedOff, TypeOK, CallOK, OwnedHasJournal, HonestOutcome
  <2> QED
    BY <2>1, <2>2, <2>3, <2>4
<1>24. CASE ClearFlags
  <2>0. registry \in UserSettings /\ Direct(registry.id) \in UserSettings
    <3>1. journal = NoJournal
      BY <1>24 DEF ClearFlags, CallOK, ClearSteps
    <3>2. registry \notin OurSettings
      BY <3>1, JournalFacts DEF OwnedHasJournal
    <3> QED
      BY <3>2, SettingsApart DEF TypeOK
  <2>1. TypeOK'
    BY <1>24, <2>0, SettingsApart DEF ClearFlags, TurnedOff, TypeOK, Steps, Results
  <2>2. CallOK'
    BY <1>24, SettingsApart, JournalFacts DEF ClearFlags, TurnedOff, TypeOK, CallOK, OwnedHasJournal, ClearSteps
  <2>3. OwnedHasJournal'
    BY <1>24, <2>0, SettingsApart DEF ClearFlags, TurnedOff, OwnedHasJournal
  <2>4. HonestOutcome'
    BY <1>24, SettingsApart, JournalFacts DEF ClearFlags, TurnedOff, TypeOK, CallOK, OwnedHasJournal, HonestOutcome
  <2> QED
    BY <2>1, <2>2, <2>3, <2>4
<1>17. CASE ClearVerify
  <2>1. TypeOK'
    BY <1>17, SettingsApart, JournalFacts, PreviewFacts DEF ClearVerify, Reads, Readable, TypeOK, CallOK, Steps, Results
  <2>2. CallOK'
    BY <1>17, SettingsApart, JournalFacts DEF ClearVerify, Reads, Readable, TypeOK, CallOK, OwnedHasJournal, ClearSteps
  <2>3. OwnedHasJournal'
    BY <1>17, SettingsApart, JournalFacts DEF ClearVerify, Reads, Readable, TypeOK, CallOK, OwnedHasJournal, Applied
  <2>4. HonestOutcome'
    BY <1>17, SettingsApart, JournalFacts DEF ClearVerify, Reads, Readable, TypeOK, CallOK, OwnedHasJournal, HonestOutcome
  <2> QED
    BY <2>1, <2>2, <2>3, <2>4
<1>18. CASE OtherWrites
  <2>1. TypeOK'
    BY <1>18, SettingsApart, JournalFacts, PreviewFacts DEF OtherWrites, InWriteWindow, TypeOK, CallOK, Steps, Results
  <2>2. CallOK'
    BY <1>18, SettingsApart, JournalFacts DEF OtherWrites, InWriteWindow, TypeOK, CallOK, OwnedHasJournal, ClearSteps
  <2>3. OwnedHasJournal'
    BY <1>18, SettingsApart, JournalFacts DEF OtherWrites, InWriteWindow, TypeOK, CallOK, OwnedHasJournal, Applied
  <2>4. HonestOutcome'
    BY <1>18, SettingsApart, JournalFacts DEF OtherWrites, InWriteWindow, TypeOK, CallOK, OwnedHasJournal, HonestOutcome
  <2> QED
    BY <2>1, <2>2, <2>3, <2>4
<1>19. CASE LegibilityChanges
  <2>1. TypeOK'
    BY <1>19, SettingsApart, JournalFacts, PreviewFacts DEF LegibilityChanges, TypeOK, CallOK, Steps, Results
  <2>2. CallOK'
    BY <1>19, SettingsApart, JournalFacts DEF LegibilityChanges, TypeOK, CallOK, OwnedHasJournal, ClearSteps
  <2>3. OwnedHasJournal'
    BY <1>19, SettingsApart, JournalFacts DEF LegibilityChanges, TypeOK, CallOK, OwnedHasJournal, Applied
  <2>4. HonestOutcome'
    BY <1>19, SettingsApart, JournalFacts DEF LegibilityChanges, TypeOK, CallOK, OwnedHasJournal, HonestOutcome
  <2> QED
    BY <2>1, <2>2, <2>3, <2>4
<1>20. CASE ListenerChanges
  <2>1. TypeOK'
    BY <1>20, SettingsApart, JournalFacts, PreviewFacts DEF ListenerChanges, TypeOK, CallOK, Steps, Results
  <2>2. CallOK'
    BY <1>20, SettingsApart, JournalFacts DEF ListenerChanges, TypeOK, CallOK, OwnedHasJournal, ClearSteps
  <2>3. OwnedHasJournal'
    BY <1>20, SettingsApart, JournalFacts DEF ListenerChanges, TypeOK, CallOK, OwnedHasJournal, Applied
  <2>4. HonestOutcome'
    BY <1>20, SettingsApart, JournalFacts DEF ListenerChanges, TypeOK, CallOK, OwnedHasJournal, HonestOutcome
  <2> QED
    BY <2>1, <2>2, <2>3, <2>4
<1>21. CASE Crash
  <2>1. TypeOK'
    <3>1. journal' \in {NoJournal, TornJournal} \cup WholeJournals
      <4>1. CASE pc = "publish.journal"
        BY <1>21, <4>1, JournalFacts DEF Crash, TypeOK, CallOK
      <4>2. CASE pc # "publish.journal"
        BY <1>21, <4>2 DEF Crash, TypeOK
      <4> QED
        BY <4>1, <4>2
    <3> QED
      BY <1>21, <3>1, PreviewFacts DEF Crash, TypeOK, Steps, Results
  <2>2. CallOK'
    BY <1>21, SettingsApart, JournalFacts DEF Crash, TypeOK, CallOK, OwnedHasJournal, ClearSteps
  <2>3. OwnedHasJournal'
    BY <1>21, SettingsApart, JournalFacts DEF Crash, TypeOK, CallOK, OwnedHasJournal, Applied
  <2>4. HonestOutcome'
    BY <1>21, SettingsApart, JournalFacts DEF Crash, TypeOK, CallOK, OwnedHasJournal, HonestOutcome
  <2> QED
    BY <2>1, <2>2, <2>3, <2>4
<1>22. CASE Restart
  <2>1. TypeOK'
    BY <1>22, SettingsApart, JournalFacts, PreviewFacts DEF Restart, TypeOK, CallOK, Steps, Results
  <2>2. CallOK'
    BY <1>22, SettingsApart, JournalFacts DEF Restart, TypeOK, CallOK, OwnedHasJournal, ClearSteps
  <2>3. OwnedHasJournal'
    BY <1>22, SettingsApart, JournalFacts DEF Restart, TypeOK, CallOK, OwnedHasJournal, Applied
  <2>4. HonestOutcome'
    BY <1>22, SettingsApart, JournalFacts DEF Restart, TypeOK, CallOK, OwnedHasJournal, HonestOutcome
  <2> QED
    BY <2>1, <2>2, <2>3, <2>4
<1>23. CASE UNCHANGED vars
  BY <1>23 DEF vars, TypeOK, CallOK, OwnedHasJournal, HonestOutcome
<1> QED
  BY <1>1, <1>2, <1>3, <1>4, <1>5, <1>6, <1>7, <1>8, <1>9, <1>10, <1>11, <1>12, <1>13, <1>14, <1>15, <1>16, <1>17, <1>18, <1>19, <1>20, <1>21, <1>22, <1>23, <1>24 DEF Next, Publish, Restore, Clear, Others
-----------------------------------------------------------------------------
\* The type invariant and what RouteDeck owes the user at every moment, for
\* every number of settings and publications (the state of SystemProxyManager,
\* its journal files and the Windows setting).
THEOREM TypeCorrect == Spec => []TypeOK
<1>1. Init => IInv
  BY InitIInv
<1>2. IInv /\ [Next]_vars => IInv'
  BY StepIInv
<1>3. IInv => TypeOK
  BY DEF IInv
<1> QED
  BY <1>1, <1>2, <1>3, PTL DEF Spec

\* RouteDeck's setting is never in force without the journal that undoes it,
\* whatever fails, whoever writes, and wherever the process dies
\* (publish_loopback, restore_if_owned).
THEOREM OwnershipTheorem == Spec => []OwnedHasJournal
<1>1. Init => IInv
  BY InitIInv
<1>2. IInv /\ [Next]_vars => IInv'
  BY StepIInv
<1>3. IInv => OwnedHasJournal
  BY DEF IInv
<1> QED
  BY <1>1, <1>2, <1>3, PTL DEF Spec

\* What publish and restore return is true when they return it and stays true
\* until the next call.
THEOREM HonestOutcomeTheorem == Spec => []HonestOutcome
<1>1. Init => IInv
  BY InitIInv
<1>2. IInv /\ [Next]_vars => IInv'
  BY StepIInv
<1>3. IInv => HonestOutcome
  BY DEF IInv
<1> QED
  BY <1>1, <1>2, <1>3, PTL DEF Spec

\* A journal found foreign is removed only after it was archived.
Archived == pc = "restore.removeForeign" => journal \in evidence

\* Only the removal returns "foreign".
LEMMA StepArchived ==
  ASSUME Archived, [Next]_vars
  PROVE  Archived' /\ (outcome # "foreign" /\ outcome' = "foreign" => journal \in evidence)
<1> USE DEF Archived, Goto, Return, windows, disk, locals, cleanup
<1>1. CASE Publish
  BY <1>1 DEF Publish, PublishBegin, PublishRefusal, WriteJournal, PublishCompare, PublishApply,
              PublishVerify
<1>2. CASE RestoreArchive \/ RestoreRemove
  BY <1>2 DEF RestoreArchive, RestoreRemove
<1>3. CASE RestoreBegin \/ RestoreRead \/ RestoreApply \/ RestoreVerify
  BY <1>3 DEF RestoreBegin, RestoreRead, RestoreApply, RestoreVerify
<1>4. CASE Clear
  BY <1>4 DEF Clear, ClearBegin, ClearRecord, ClearCompare, ClearApply, ClearFlags, ClearVerify
<1>5. CASE Diagnose \/ Others \/ Crash \/ Restart \/ UNCHANGED vars
  BY <1>5 DEF Diagnose, Others, OtherWrites, LegibilityChanges, ListenerChanges, Crash, Restart,
              vars
<1> QED
  BY <1>1, <1>2, <1>3, <1>4, <1>5 DEF Next, Restore

\* A conflict is reported as preserved only with its journal in the archive, wherever a
\* crash came between the archive and the removal (preserve_conflict_journal).
THEOREM EvidenceTheorem == Spec => ConflictLeavesEvidence
<1>1. Init => Archived
  BY DEF Init, Archived
<1>2. Archived /\ [Next]_vars =>
        [outcome # "foreign" /\ outcome' = "foreign" => journal \in evidence]_vars
  BY StepArchived
<1> QED
  BY <1>1, <1>2, StepArchived, PTL DEF Spec, ConflictLeavesEvidence

-----------------------------------------------------------------------------
(* The user's setting, when nobody writes inside a compare-write window *)

\* What the three comparisons establish for the write that follows them.
CompareOK ==
    /\ pc = "publish.apply" => registry = expect
    /\ pc = "restore.apply" => registry = Applied(journal)
    /\ pc \in ClearSteps => shown # NoPreview /\ expect = shown.setting
    /\ pc = "clear.apply" => registry = expect /\ ~listener
    /\ pc = "clear.flags" => registry = FlatOff(expect) /\ ~listener
    \* a token names one observation
    /\ TokenMatches /\ shown # NoPreview => shown = preview

LEMMA InitUser == Init => CompareOK /\ UserSettingSurvives
BY SettingsApart DEF Init, CompareOK, UserSettingSurvives, ClearSteps, TokenMatches

LEMMA StepUser ==
    ASSUME ~RacingWriters, IInv, CompareOK, UserSettingSurvives, [Next]_vars
    PROVE  CompareOK' /\ UserSettingSurvives'
<1> USE DEF Goto, Return, windows, disk, locals, cleanup
<1>a. TypeOK /\ CallOK /\ OwnedHasJournal
  BY DEF IInv
<1>1. CASE PublishBegin
  <2>1. CompareOK'
    BY <1>a, <1>1, SettingsApart, JournalFacts, PreviewFacts DEF PublishBegin, PublishMayProceed, Readable, PublishRefusal, TokenMatches, TypeOK, CallOK, CompareOK, ClearSteps, Reads
  <2>2. UserSettingSurvives'
    BY <1>a, <1>1, SettingsApart, JournalFacts DEF PublishBegin, PublishMayProceed, Readable, PublishRefusal, TypeOK, CallOK, OwnedHasJournal, CompareOK, UserSettingSurvives, Reads
  <2> QED
    BY <2>1, <2>2
<1>2. CASE WriteJournal
  <2>1. CompareOK'
    BY <1>a, <1>2, SettingsApart, JournalFacts, PreviewFacts DEF WriteJournal, TokenMatches, TypeOK, CallOK, CompareOK, ClearSteps, Reads, Readable
  <2>2. UserSettingSurvives'
    BY <1>a, <1>2, SettingsApart, JournalFacts DEF WriteJournal, TypeOK, CallOK, OwnedHasJournal, CompareOK, UserSettingSurvives, Reads, Readable
  <2> QED
    BY <2>1, <2>2
<1>3. CASE PublishCompare
  <2>1. CompareOK'
    BY <1>a, <1>3, SettingsApart, JournalFacts, PreviewFacts DEF PublishCompare, Reads, Readable, TokenMatches, TypeOK, CallOK, CompareOK, ClearSteps
  <2>2. UserSettingSurvives'
    BY <1>a, <1>3, SettingsApart, JournalFacts DEF PublishCompare, TypeOK, CallOK, OwnedHasJournal, CompareOK, UserSettingSurvives, Reads, Readable
  <2> QED
    BY <2>1, <2>2
<1>4. CASE PublishApply
  <2>1. CompareOK'
    BY <1>a, <1>4, SettingsApart, JournalFacts, PreviewFacts DEF PublishApply, TokenMatches, TypeOK, CallOK, CompareOK, ClearSteps, Reads, Readable
  <2>2. UserSettingSurvives'
    <3>1. expect = userSetting
      BY <1>a, <1>4 DEF PublishApply, CallOK, CompareOK, UserSettingSurvives
    <3>2. journal.previous = userSetting
      BY <1>a, <1>4, <3>1, JournalFacts DEF PublishApply, CallOK, TypeOK
    <3>3. registry = userSetting /\ registry \notin OurSettings
      BY <1>a, <1>4 DEF PublishApply, CallOK, UserSettingSurvives
    <3> QED
      BY <1>a, <1>4, <3>2, <3>3, SettingsApart DEF PublishApply, TypeOK, UserSettingSurvives
  <2> QED
    BY <2>1, <2>2
<1>5. CASE PublishVerify
  <2>1. CompareOK'
    BY <1>a, <1>5, SettingsApart, JournalFacts, PreviewFacts DEF PublishVerify, Reads, Readable, TokenMatches, TypeOK, CallOK, CompareOK, ClearSteps
  <2>2. UserSettingSurvives'
    BY <1>a, <1>5, SettingsApart, JournalFacts DEF PublishVerify, TypeOK, CallOK, OwnedHasJournal, CompareOK, UserSettingSurvives, Reads, Readable
  <2> QED
    BY <2>1, <2>2
<1>6. CASE RestoreBegin
  <2>1. CompareOK'
    BY <1>a, <1>6, SettingsApart, JournalFacts, PreviewFacts DEF RestoreBegin, TokenMatches, TypeOK, CallOK, CompareOK, ClearSteps, Reads, Readable
  <2>2. UserSettingSurvives'
    BY <1>a, <1>6, SettingsApart, JournalFacts DEF RestoreBegin, TypeOK, CallOK, OwnedHasJournal, CompareOK, UserSettingSurvives, Reads, Readable
  <2> QED
    BY <2>1, <2>2
<1>7. CASE RestoreRead
  <2>1. CompareOK'
    BY <1>a, <1>7, SettingsApart, JournalFacts, PreviewFacts DEF RestoreRead, Reads, Readable, TokenMatches, TypeOK, CallOK, CompareOK, ClearSteps
  <2>2. UserSettingSurvives'
    BY <1>a, <1>7, SettingsApart, JournalFacts DEF RestoreRead, TypeOK, CallOK, OwnedHasJournal, CompareOK, UserSettingSurvives, Reads, Readable
  <2> QED
    BY <2>1, <2>2
<1>8. CASE RestoreArchive
  <2>1. CompareOK'
    BY <1>a, <1>8, SettingsApart, JournalFacts, PreviewFacts DEF RestoreArchive, TokenMatches, TypeOK, CallOK, CompareOK, ClearSteps, Reads, Readable
  <2>2. UserSettingSurvives'
    BY <1>a, <1>8, SettingsApart, JournalFacts DEF RestoreArchive, TypeOK, CallOK, OwnedHasJournal, CompareOK, UserSettingSurvives, Reads, Readable
  <2> QED
    BY <2>1, <2>2
<1>9. CASE RestoreApply
  <2>1. CompareOK'
    BY <1>a, <1>9, SettingsApart, JournalFacts, PreviewFacts DEF RestoreApply, TokenMatches, TypeOK, CallOK, CompareOK, ClearSteps, Reads, Readable
  <2>2. UserSettingSurvives'
    BY <1>a, <1>9, SettingsApart, JournalFacts DEF RestoreApply, TypeOK, CallOK, OwnedHasJournal, CompareOK, UserSettingSurvives, Reads, Readable
  <2> QED
    BY <2>1, <2>2
<1>10. CASE RestoreVerify
  <2>1. CompareOK'
    BY <1>a, <1>10, SettingsApart, JournalFacts, PreviewFacts DEF RestoreVerify, Reads, Readable, TokenMatches, TypeOK, CallOK, CompareOK, ClearSteps
  <2>2. UserSettingSurvives'
    BY <1>a, <1>10, SettingsApart, JournalFacts DEF RestoreVerify, TypeOK, CallOK, OwnedHasJournal, CompareOK, UserSettingSurvives, Reads, Readable
  <2> QED
    BY <2>1, <2>2
<1>11. CASE RestoreRemove
  <2>1. CompareOK'
    BY <1>a, <1>11, SettingsApart, JournalFacts, PreviewFacts DEF RestoreRemove, TokenMatches, TypeOK, CallOK, CompareOK, ClearSteps, Reads, Readable
  <2>2. UserSettingSurvives'
    BY <1>a, <1>11, SettingsApart, JournalFacts DEF RestoreRemove, TypeOK, CallOK, OwnedHasJournal, CompareOK, UserSettingSurvives, Reads, Readable
  <2> QED
    BY <2>1, <2>2
<1>12. CASE Diagnose
  <2>1. CompareOK'
    BY <1>a, <1>12, SettingsApart, JournalFacts, PreviewFacts DEF Diagnose, Stale, TokenMatches, Preview, NoPreview, TypeOK, CallOK, CompareOK, ClearSteps, Reads, Readable
  <2>2. UserSettingSurvives'
    BY <1>a, <1>12, SettingsApart, JournalFacts DEF Diagnose, Stale, TypeOK, CallOK, OwnedHasJournal, CompareOK, UserSettingSurvives, Reads, Readable
  <2> QED
    BY <2>1, <2>2
<1>13. CASE ClearBegin
  <2>1. CompareOK'
    BY <1>a, <1>13, SettingsApart, JournalFacts, PreviewFacts DEF ClearBegin, Stale, TokenMatches, TypeOK, CallOK, CompareOK, ClearSteps, Reads, Readable
  <2>2. UserSettingSurvives'
    BY <1>a, <1>13, SettingsApart, JournalFacts DEF ClearBegin, Stale, TokenMatches, TypeOK, CallOK, OwnedHasJournal, CompareOK, UserSettingSurvives, Reads, Readable
  <2> QED
    BY <2>1, <2>2
<1>14. CASE ClearRecord
  <2>1. CompareOK'
    BY <1>a, <1>14, SettingsApart, JournalFacts, PreviewFacts DEF ClearRecord, TokenMatches, TypeOK, CallOK, CompareOK, ClearSteps, Reads, Readable
  <2>2. UserSettingSurvives'
    BY <1>a, <1>14, SettingsApart, JournalFacts DEF ClearRecord, TypeOK, CallOK, OwnedHasJournal, CompareOK, UserSettingSurvives, Reads, Readable
  <2> QED
    BY <2>1, <2>2
<1>15. CASE ClearCompare
  <2>1. CompareOK'
    BY <1>a, <1>15, SettingsApart, JournalFacts, PreviewFacts DEF ClearCompare, TokenMatches, TypeOK, CallOK, CompareOK, ClearSteps
  <2>2. UserSettingSurvives'
    BY <1>a, <1>15, SettingsApart, JournalFacts DEF ClearCompare, TypeOK, CallOK, OwnedHasJournal, CompareOK, UserSettingSurvives, Reads, Readable
  <2> QED
    BY <2>1, <2>2
<1>16. CASE ClearApply
  <2>1. journal = NoJournal /\ registry \notin OurSettings
    BY <1>a, <1>16, JournalFacts DEF ClearApply, CallOK, ClearSteps, OwnedHasJournal
  <2>2. registry \in UserSettings
    BY <1>a, <2>1, SettingsApart DEF TypeOK
  <2>3. registry = expect /\ expect = shown.setting /\ ~listener
    BY <1>16 DEF ClearApply, CompareOK, ClearSteps
  <2>4. CompareOK'
    BY <1>a, <1>16, <2>3 DEF ClearApply, TokenMatches, TypeOK, CallOK, CompareOK, ClearSteps
  <2>5. registry' \in UserSettings /\ registry' = userSetting'
    BY <1>16, <2>1, <2>2, <2>3, SettingsApart DEF ClearApply, TurnedOff, UserSettingSurvives
  <2> QED
    BY <2>4, <2>5, SettingsApart DEF UserSettingSurvives
<1>24. CASE ClearFlags
  <2>1. journal = NoJournal /\ registry \notin OurSettings
    BY <1>a, <1>24, JournalFacts DEF ClearFlags, CallOK, ClearSteps, OwnedHasJournal
  <2>2. registry \in UserSettings
    BY <1>a, <2>1, SettingsApart DEF TypeOK
  <2>3. registry = FlatOff(expect) /\ expect = shown.setting /\ ~listener
    BY <1>24 DEF ClearFlags, CompareOK, ClearSteps
  <2>4. CompareOK'
    BY <1>a, <1>24, <2>3 DEF ClearFlags, TokenMatches, TypeOK, CallOK, CompareOK, ClearSteps
  <2>5. registry' \in UserSettings /\ registry' = userSetting'
    BY <1>24, <2>1, <2>2, <2>3, SettingsApart DEF ClearFlags, TurnedOff, UserSettingSurvives
  <2> QED
    BY <2>4, <2>5, SettingsApart DEF UserSettingSurvives
<1>17. CASE ClearVerify
  <2>1. CompareOK'
    BY <1>a, <1>17, SettingsApart, JournalFacts, PreviewFacts DEF ClearVerify, Reads, Readable, TokenMatches, TypeOK, CallOK, CompareOK, ClearSteps
  <2>2. UserSettingSurvives'
    BY <1>a, <1>17, SettingsApart, JournalFacts DEF ClearVerify, TypeOK, CallOK, OwnedHasJournal, CompareOK, UserSettingSurvives, Reads, Readable
  <2> QED
    BY <2>1, <2>2
<1>18. CASE OtherWrites
  <2>1. CompareOK'
    BY <1>a, <1>18, SettingsApart, JournalFacts, PreviewFacts DEF OtherWrites, InWriteWindow, TokenMatches, TypeOK, CallOK, CompareOK, ClearSteps, Reads, Readable
  <2>2. UserSettingSurvives'
    BY <1>a, <1>18, SettingsApart, JournalFacts DEF OtherWrites, InWriteWindow, TypeOK, CallOK, OwnedHasJournal, CompareOK, UserSettingSurvives, Reads, Readable
  <2> QED
    BY <2>1, <2>2
<1>19. CASE LegibilityChanges
  <2>1. CompareOK'
    BY <1>a, <1>19, SettingsApart, JournalFacts, PreviewFacts DEF LegibilityChanges, TokenMatches, TypeOK, CallOK, CompareOK, ClearSteps, Reads, Readable
  <2>2. UserSettingSurvives'
    BY <1>a, <1>19, SettingsApart, JournalFacts DEF LegibilityChanges, TypeOK, CallOK, OwnedHasJournal, CompareOK, UserSettingSurvives, Reads, Readable
  <2> QED
    BY <2>1, <2>2
<1>20. CASE ListenerChanges
  <2>1. CompareOK'
    BY <1>a, <1>20, SettingsApart, JournalFacts, PreviewFacts DEF ListenerChanges, TokenMatches, InWriteWindow, TypeOK, CallOK, CompareOK, ClearSteps, Reads, Readable
  <2>2. UserSettingSurvives'
    BY <1>a, <1>20, SettingsApart, JournalFacts DEF ListenerChanges, TypeOK, CallOK, OwnedHasJournal, CompareOK, UserSettingSurvives, Reads, Readable
  <2> QED
    BY <2>1, <2>2
<1>21. CASE Crash
  <2>1. CompareOK'
    BY <1>a, <1>21, SettingsApart, JournalFacts, PreviewFacts DEF Crash, TokenMatches, TypeOK, CallOK, CompareOK, ClearSteps, Reads, Readable
  <2>2. UserSettingSurvives'
    BY <1>a, <1>21, SettingsApart, JournalFacts DEF Crash, TypeOK, CallOK, OwnedHasJournal, CompareOK, UserSettingSurvives, Reads, Readable
  <2> QED
    BY <2>1, <2>2
<1>22. CASE Restart
  <2>1. CompareOK'
    BY <1>a, <1>22, SettingsApart, JournalFacts, PreviewFacts DEF Restart, TokenMatches, TypeOK, CallOK, CompareOK, ClearSteps, Reads, Readable
  <2>2. UserSettingSurvives'
    BY <1>a, <1>22, SettingsApart, JournalFacts DEF Restart, TypeOK, CallOK, OwnedHasJournal, CompareOK, UserSettingSurvives, Reads, Readable
  <2> QED
    BY <2>1, <2>2
<1>23. CASE UNCHANGED vars
  BY <1>23 DEF vars, CompareOK, TokenMatches, UserSettingSurvives
<1> QED
  BY <1>1, <1>2, <1>3, <1>4, <1>5, <1>6, <1>7, <1>8, <1>9, <1>10, <1>11, <1>12, <1>13, <1>14, <1>15, <1>16, <1>17, <1>18, <1>19, <1>20, <1>21, <1>22, <1>23, <1>24 DEF Next, Publish, Restore, Clear, Others

\* A machine on which no other program writes between RouteDeck's comparison
\* and its own write: the user's last choice is in force or in the journal, for
\* ever (verify_exact, restore_if_owned, clear_manual_if_exact).
THEOREM UserSettingTheorem ==
    ASSUME ~RacingWriters PROVE Spec => []UserSettingSurvives
<1>1. Init => IInv /\ CompareOK /\ UserSettingSurvives
  BY InitIInv, InitUser
<1>2. IInv /\ CompareOK /\ UserSettingSurvives /\ [Next]_vars
        => (IInv /\ CompareOK /\ UserSettingSurvives)'
  BY StepIInv, StepUser
<1> QED
  BY <1>1, <1>2, PTL DEF Spec

-----------------------------------------------------------------------------
(* SystemProxy implements ProxyLoan *)

\* Only DIRECT settings are ever noted.
NotesDirect ==
    /\ pc \in {"publish.journal", "publish.compare", "publish.apply", "publish.verify"} =>
          expect.kind = "direct"
    /\ journal \in WholeJournals => journal.previous.kind = "direct"

LInv == IInv /\ CompareOK /\ UserSettingSurvives /\ NotesDirect

Borrowed == [kind |-> "ours"]
DirectSettings == {s \in UserSettings : s.kind = "direct"}

-----------------------------------------------------------------------------
(* The mapping *)

LEMMA Distinct ==
    /\ Borrowed \notin UserSettings
    /\ NoJournal \notin UserSettings /\ TornJournal \notin UserSettings
    /\ NoJournal # TornJournal
BY DEF Borrowed, UserSettings, NoJournal, TornJournal

\* What is in force seen from outside: RouteDeck's setting or somebody's.
LEMMA InForceFacts ==
    ASSUME TypeOK
    PROVE  /\ registry \in OurSettings => InForce = Borrowed
           /\ registry \notin OurSettings => InForce = registry /\ registry \in UserSettings
BY SettingsApart DEF TypeOK, InForce, Borrowed

LEMMA NotedFacts ==
    ASSUME TypeOK, NotesDirect
    PROVE  /\ journal = NoJournal => Noted = NoJournal
           /\ journal = TornJournal => Noted = TornJournal
           /\ journal \in WholeJournals => /\ Noted = journal.previous
                                          /\ Noted \in DirectSettings
           /\ journal \in {NoJournal, TornJournal} \cup WholeJournals
BY JournalFacts DEF TypeOK, Noted, NotesDirect, DirectSettings

-----------------------------------------------------------------------------
LEMMA InitLoan == Init => LInv /\ Loan!Init
<1> SUFFICES ASSUME Init PROVE LInv /\ Loan!Init
  OBVIOUS
<1>1. IInv /\ CompareOK /\ UserSettingSurvives
  BY InitIInv, InitUser
<1>2. NotesDirect
  BY JournalFacts DEF Init, NotesDirect
<1>3. InForce = registry /\ Noted = NoJournal
  BY SettingsApart, JournalFacts DEF Init, InForce, Noted
<1> QED
  BY <1>1, <1>2, <1>3 DEF LInv, Init, Loan!Init

LEMMA StepNotesDirect ==
    ASSUME LInv, [Next]_vars
    PROVE  NotesDirect'
<1> USE DEF Goto, Return, windows, disk, locals, cleanup
<1>a. TypeOK /\ CallOK /\ NotesDirect
  BY DEF LInv, IInv
<1>1. CASE PublishBegin
  BY <1>a, <1>1, JournalFacts DEF PublishBegin, PublishMayProceed, Readable, PublishRefusal, NotesDirect, TypeOK, CallOK
<1>2. CASE WriteJournal
  BY <1>a, <1>2, JournalFacts DEF WriteJournal, NotesDirect, TypeOK, CallOK
<1>3. CASE PublishCompare
  BY <1>a, <1>3, JournalFacts DEF PublishCompare, Reads, Readable, NotesDirect, TypeOK, CallOK
<1>4. CASE PublishApply
  BY <1>a, <1>4, JournalFacts DEF PublishApply, NotesDirect, TypeOK, CallOK
<1>5. CASE PublishVerify
  BY <1>a, <1>5, JournalFacts DEF PublishVerify, Reads, Readable, NotesDirect, TypeOK, CallOK
<1>6. CASE RestoreBegin
  BY <1>a, <1>6, JournalFacts DEF RestoreBegin, NotesDirect, TypeOK, CallOK
<1>7. CASE RestoreRead
  BY <1>a, <1>7, JournalFacts DEF RestoreRead, Reads, Readable, NotesDirect, TypeOK, CallOK
<1>8. CASE RestoreArchive
  BY <1>a, <1>8, JournalFacts DEF RestoreArchive, NotesDirect, TypeOK, CallOK
<1>9. CASE RestoreApply
  BY <1>a, <1>9, JournalFacts DEF RestoreApply, NotesDirect, TypeOK, CallOK
<1>10. CASE RestoreVerify
  BY <1>a, <1>10, JournalFacts DEF RestoreVerify, Reads, Readable, NotesDirect, TypeOK, CallOK
<1>11. CASE RestoreRemove
  BY <1>a, <1>11, JournalFacts DEF RestoreRemove, NotesDirect, TypeOK, CallOK
<1>12. CASE ClearBegin
  BY <1>a, <1>12, JournalFacts DEF ClearBegin, NotesDirect, TypeOK, CallOK
<1>13. CASE ClearRecord
  BY <1>a, <1>13, JournalFacts DEF ClearRecord, NotesDirect, TypeOK, CallOK
<1>14. CASE ClearCompare
  BY <1>a, <1>14, JournalFacts DEF ClearCompare, NotesDirect, TypeOK, CallOK
<1>15. CASE ClearApply
  BY <1>a, <1>15, JournalFacts DEF ClearApply, ClearSteps, NotesDirect, TypeOK, CallOK
<1>24. CASE ClearFlags
  BY <1>a, <1>24, JournalFacts DEF ClearFlags, ClearSteps, NotesDirect, TypeOK, CallOK
<1>16. CASE ClearVerify
  BY <1>a, <1>16, JournalFacts DEF ClearVerify, Reads, Readable, ClearSteps, NotesDirect, TypeOK, CallOK
<1>17. CASE Diagnose
  BY <1>a, <1>17, JournalFacts DEF Diagnose, NotesDirect, TypeOK, CallOK
<1>18. CASE OtherWrites
  BY <1>a, <1>18, JournalFacts DEF OtherWrites, NotesDirect, TypeOK, CallOK
<1>19. CASE LegibilityChanges
  BY <1>a, <1>19, JournalFacts DEF LegibilityChanges, NotesDirect, TypeOK, CallOK
<1>20. CASE ListenerChanges
  BY <1>a, <1>20, JournalFacts DEF ListenerChanges, NotesDirect, TypeOK, CallOK
<1>21. CASE Crash
  BY <1>a, <1>21, JournalFacts DEF Crash, NotesDirect, TypeOK, CallOK
<1>22. CASE Restart
  BY <1>a, <1>22, JournalFacts DEF Restart, NotesDirect, TypeOK, CallOK
<1>23. CASE UNCHANGED vars
  BY <1>a, <1>23 DEF vars, NotesDirect
<1> QED
  BY <1>1, <1>2, <1>3, <1>4, <1>5, <1>6, <1>7, <1>8, <1>9, <1>10, <1>11, <1>12, <1>13, <1>14, <1>15, <1>16, <1>17, <1>18, <1>19, <1>20, <1>21, <1>22, <1>23, <1>24 DEF Next, Publish, Restore, Clear, Others

-----------------------------------------------------------------------------
(* Every step is a step of the loan *)

LEMMA StepLoan ==
    ASSUME ~RacingWriters, LInv, LInv', [Next]_vars
    PROVE  [Loan!Next]_Loan!vars
<1> USE DEF Goto, Return, windows, disk, locals, cleanup
<1>a. TypeOK /\ CallOK /\ OwnedHasJournal /\ CompareOK /\ UserSettingSurvives /\ NotesDirect
  BY DEF LInv, IInv
<1>b. TypeOK' /\ CallOK' /\ OwnedHasJournal' /\ HonestOutcome' /\ UserSettingSurvives' /\ NotesDirect'
  BY DEF LInv, IInv
<1>c. /\ registry \in OurSettings => InForce = Borrowed
      /\ registry \notin OurSettings => InForce = registry /\ registry \in UserSettings
  BY <1>a, InForceFacts
<1>d. /\ registry' \in OurSettings => InForce' = Borrowed
      /\ registry' \notin OurSettings => InForce' = registry' /\ registry' \in UserSettings
  BY <1>b, SettingsApart DEF TypeOK, InForce, Borrowed
<1>e. /\ journal = NoJournal => Noted = NoJournal
      /\ journal = TornJournal => Noted = TornJournal
      /\ journal \in WholeJournals => Noted = journal.previous /\ Noted \in DirectSettings
      /\ journal \in {NoJournal, TornJournal} \cup WholeJournals
  BY <1>a, NotedFacts
<1>f. /\ journal' = NoJournal => Noted' = NoJournal
      /\ journal' = TornJournal => Noted' = TornJournal
      /\ journal' \in WholeJournals => Noted' = journal'.previous /\ Noted' \in DirectSettings
      /\ journal' \in {NoJournal, TornJournal} \cup WholeJournals
  BY <1>b, JournalFacts DEF TypeOK, Noted, NotesDirect, DirectSettings
<1>1. CASE PublishBegin
  <2>1. UNCHANGED <<InForce, Noted, userSetting>>
    BY <1>1 DEF PublishBegin, PublishMayProceed, Readable, PublishRefusal, InForce, Noted
  <2>2. Loan!Answer
    BY <1>a, <1>b, <1>d, <1>f, <1>1, Distinct, JournalFacts, SettingsApart DEF PublishBegin, PublishMayProceed, Readable, PublishRefusal, TypeOK, CallOK, OwnedHasJournal,
       HonestOutcome, Loan!Answer, Loan!Truthful, Borrowed, DirectSettings
  <2> QED
    BY <2>1, <2>2 DEF Loan!Next, Loan!Move
<1>2. CASE WriteJournal
  <2>1. Loan!Note \/ UNCHANGED <<InForce, Noted, userSetting>>
    BY <1>a, <1>b, <1>c, <1>d, <1>e, <1>f, <1>2, Distinct, JournalFacts, SettingsApart
       DEF WriteJournal, Loan!Note, TypeOK, CallOK, OwnedHasJournal, CompareOK, UserSettingSurvives, Borrowed, DirectSettings
  <2>2. Loan!Answer
    BY <1>a, <1>b, <1>d, <1>f, <1>2, Distinct, JournalFacts, SettingsApart DEF WriteJournal, TypeOK, CallOK, OwnedHasJournal,
       HonestOutcome, Loan!Answer, Loan!Truthful, Borrowed, DirectSettings
  <2> QED
    BY <2>1, <2>2 DEF Loan!Next, Loan!Move
<1>3. CASE PublishCompare
  <2>1. UNCHANGED <<InForce, Noted, userSetting>>
    BY <1>3 DEF PublishCompare, Reads, Readable, InForce, Noted
  <2>2. Loan!Answer
    BY <1>a, <1>b, <1>d, <1>f, <1>3, Distinct, JournalFacts, SettingsApart DEF PublishCompare, Reads, Readable, TypeOK, CallOK, OwnedHasJournal,
       HonestOutcome, Loan!Answer, Loan!Truthful, Borrowed, DirectSettings
  <2> QED
    BY <2>1, <2>2 DEF Loan!Next, Loan!Move
<1>4. CASE PublishApply
  <2>1. Loan!Take \/ UNCHANGED <<InForce, Noted, userSetting>>
    BY <1>a, <1>b, <1>c, <1>d, <1>e, <1>f, <1>4, Distinct, JournalFacts, SettingsApart
       DEF PublishApply, Loan!Take, TypeOK, CallOK, OwnedHasJournal, CompareOK, UserSettingSurvives, Borrowed, DirectSettings
  <2>2. Loan!Answer
    BY <1>a, <1>b, <1>d, <1>f, <1>4, Distinct, JournalFacts, SettingsApart DEF PublishApply, TypeOK, CallOK, OwnedHasJournal,
       HonestOutcome, Loan!Answer, Loan!Truthful, Borrowed, DirectSettings
  <2> QED
    BY <2>1, <2>2 DEF Loan!Next, Loan!Move
<1>5. CASE PublishVerify
  <2>1. UNCHANGED <<InForce, Noted, userSetting>>
    BY <1>5 DEF PublishVerify, Reads, Readable, InForce, Noted
  <2>2. Loan!Answer
    BY <1>a, <1>b, <1>d, <1>f, <1>5, Distinct, JournalFacts, SettingsApart DEF PublishVerify, Reads, Readable, TypeOK, CallOK, OwnedHasJournal,
       HonestOutcome, Loan!Answer, Loan!Truthful, Borrowed, DirectSettings
  <2> QED
    BY <2>1, <2>2 DEF Loan!Next, Loan!Move
<1>6. CASE RestoreBegin
  <2>1. UNCHANGED <<InForce, Noted, userSetting>>
    BY <1>6 DEF RestoreBegin, InForce, Noted
  <2>2. Loan!Answer
    BY <1>a, <1>b, <1>d, <1>f, <1>6, Distinct, JournalFacts, SettingsApart DEF RestoreBegin, TypeOK, CallOK, OwnedHasJournal,
       HonestOutcome, Loan!Answer, Loan!Truthful, Borrowed, DirectSettings
  <2> QED
    BY <2>1, <2>2 DEF Loan!Next, Loan!Move
<1>7. CASE RestoreRead
  <2>1. UNCHANGED <<InForce, Noted, userSetting>>
    BY <1>7 DEF RestoreRead, Reads, Readable, InForce, Noted
  <2>2. Loan!Answer
    BY <1>a, <1>b, <1>d, <1>f, <1>7, Distinct, JournalFacts, SettingsApart DEF RestoreRead, Reads, Readable, TypeOK, CallOK, OwnedHasJournal,
       HonestOutcome, Loan!Answer, Loan!Truthful, Borrowed, DirectSettings
  <2> QED
    BY <2>1, <2>2 DEF Loan!Next, Loan!Move
<1>8. CASE RestoreArchive
  <2>1. UNCHANGED <<InForce, Noted, userSetting>>
    BY <1>8 DEF RestoreArchive, InForce, Noted
  <2>2. Loan!Answer
    BY <1>a, <1>b, <1>d, <1>f, <1>8, Distinct, JournalFacts, SettingsApart DEF RestoreArchive, TypeOK, CallOK, OwnedHasJournal,
       HonestOutcome, Loan!Answer, Loan!Truthful, Borrowed, DirectSettings
  <2> QED
    BY <2>1, <2>2 DEF Loan!Next, Loan!Move
<1>9. CASE RestoreApply
  <2>1. Loan!GiveBack \/ UNCHANGED <<InForce, Noted, userSetting>>
    BY <1>a, <1>b, <1>c, <1>d, <1>e, <1>f, <1>9, Distinct, JournalFacts, SettingsApart
       DEF RestoreApply, Loan!GiveBack, TypeOK, CallOK, OwnedHasJournal, CompareOK, UserSettingSurvives, Borrowed, DirectSettings
  <2>2. Loan!Answer
    BY <1>a, <1>b, <1>d, <1>f, <1>9, Distinct, JournalFacts, SettingsApart DEF RestoreApply, TypeOK, CallOK, OwnedHasJournal,
       HonestOutcome, Loan!Answer, Loan!Truthful, Borrowed, DirectSettings
  <2> QED
    BY <2>1, <2>2 DEF Loan!Next, Loan!Move
<1>10. CASE RestoreVerify
  <2>1. UNCHANGED <<InForce, Noted, userSetting>>
    BY <1>10 DEF RestoreVerify, Reads, Readable, InForce, Noted
  <2>2. Loan!Answer
    BY <1>a, <1>b, <1>d, <1>f, <1>10, Distinct, JournalFacts, SettingsApart DEF RestoreVerify, Reads, Readable, TypeOK, CallOK, OwnedHasJournal,
       HonestOutcome, Loan!Answer, Loan!Truthful, Borrowed, DirectSettings
  <2> QED
    BY <2>1, <2>2 DEF Loan!Next, Loan!Move
<1>11. CASE RestoreRemove
  <2>1. Loan!Forget \/ UNCHANGED <<InForce, Noted, userSetting>>
    BY <1>a, <1>b, <1>c, <1>d, <1>e, <1>f, <1>11, Distinct, JournalFacts, SettingsApart
       DEF RestoreRemove, Loan!Forget, TypeOK, CallOK, OwnedHasJournal, CompareOK, UserSettingSurvives, Borrowed, DirectSettings
  <2>2. Loan!Answer
    BY <1>a, <1>b, <1>d, <1>f, <1>11, Distinct, JournalFacts, SettingsApart DEF RestoreRemove, TypeOK, CallOK, OwnedHasJournal,
       HonestOutcome, Loan!Answer, Loan!Truthful, Borrowed, DirectSettings
  <2> QED
    BY <2>1, <2>2 DEF Loan!Next, Loan!Move
<1>12. CASE ClearBegin
  <2>1. UNCHANGED <<InForce, Noted, userSetting>>
    BY <1>12 DEF ClearBegin, InForce, Noted
  <2>2. Loan!Answer
    BY <1>a, <1>b, <1>d, <1>f, <1>12, Distinct, JournalFacts, SettingsApart DEF ClearBegin, TypeOK, CallOK, OwnedHasJournal,
       HonestOutcome, Loan!Answer, Loan!Truthful, Borrowed, DirectSettings
  <2> QED
    BY <2>1, <2>2 DEF Loan!Next, Loan!Move
<1>13. CASE ClearRecord
  <2>1. UNCHANGED <<InForce, Noted, userSetting>>
    BY <1>13 DEF ClearRecord, InForce, Noted
  <2>2. Loan!Answer
    BY <1>a, <1>b, <1>d, <1>f, <1>13, Distinct, JournalFacts, SettingsApart DEF ClearRecord, TypeOK, CallOK, OwnedHasJournal,
       HonestOutcome, Loan!Answer, Loan!Truthful, Borrowed, DirectSettings
  <2> QED
    BY <2>1, <2>2 DEF Loan!Next, Loan!Move
<1>14. CASE ClearCompare
  <2>1. UNCHANGED <<InForce, Noted, userSetting>>
    BY <1>14 DEF ClearCompare, InForce, Noted
  <2>2. Loan!Answer
    BY <1>a, <1>b, <1>d, <1>f, <1>14, Distinct, JournalFacts, SettingsApart DEF ClearCompare, TypeOK, CallOK, OwnedHasJournal,
       HonestOutcome, Loan!Answer, Loan!Truthful, Borrowed, DirectSettings
  <2> QED
    BY <2>1, <2>2 DEF Loan!Next, Loan!Move
<1>15. CASE ClearApply
  <2>1. journal = NoJournal /\ registry \notin OurSettings /\ registry \in UserSettings
    BY <1>a, <1>15, JournalFacts, SettingsApart DEF ClearApply, CallOK, ClearSteps, OwnedHasJournal, TypeOK
  <2>2. registry = expect /\ expect = shown.setting /\ ~listener /\ registry = userSetting
    BY <1>a, <1>15, <2>1 DEF ClearApply, CompareOK, ClearSteps, UserSettingSurvives
  <2>3. /\ registry' \in {registry, FlatOff(registry), Direct(registry.id)}
        /\ registry' = userSetting' /\ journal' = NoJournal /\ registry' \in UserSettings
    BY <1>15, <2>1, <2>2, SettingsApart DEF ClearApply, TurnedOff
  <2>4. InForce = registry /\ InForce' = registry' /\ Noted = NoJournal /\ Noted' = NoJournal
    BY <1>c, <1>d, <1>e, <1>f, <2>1, <2>3, SettingsApart
  <2>5. Loan!SwitchOff \/ UNCHANGED <<InForce, Noted, userSetting>>
    BY <2>1, <2>2, <2>3, <2>4, Distinct DEF Loan!SwitchOff, Borrowed
  <2>6. Loan!Answer
    BY <1>a, <1>b, <1>d, <1>f, <1>15, <2>1, Distinct, JournalFacts, SettingsApart DEF ClearApply, Loan!Answer, Loan!Truthful
  <2> QED
    BY <2>5, <2>6 DEF Loan!Next, Loan!Move
<1>24. CASE ClearFlags
  <2>1. journal = NoJournal /\ registry \notin OurSettings /\ registry \in UserSettings
    BY <1>a, <1>24, JournalFacts, SettingsApart DEF ClearFlags, CallOK, ClearSteps, OwnedHasJournal, TypeOK
  <2>2. registry = FlatOff(expect) /\ expect = shown.setting /\ ~listener /\ registry = userSetting
    BY <1>a, <1>24, <2>1 DEF ClearFlags, CompareOK, ClearSteps, UserSettingSurvives
  <2>3. /\ registry' \in {registry, FlatOff(registry), Direct(registry.id)}
        /\ registry' = userSetting' /\ journal' = NoJournal /\ registry' \in UserSettings
    BY <1>24, <2>1, <2>2, SettingsApart DEF ClearFlags, TurnedOff
  <2>4. InForce = registry /\ InForce' = registry' /\ Noted = NoJournal /\ Noted' = NoJournal
    BY <1>c, <1>d, <1>e, <1>f, <2>1, <2>3, SettingsApart
  <2>5. Loan!SwitchOff \/ UNCHANGED <<InForce, Noted, userSetting>>
    BY <2>1, <2>2, <2>3, <2>4, Distinct DEF Loan!SwitchOff, Borrowed
  <2>6. Loan!Answer
    BY <1>a, <1>b, <1>d, <1>f, <1>24, <2>1, Distinct, JournalFacts, SettingsApart DEF ClearFlags, Loan!Answer, Loan!Truthful
  <2> QED
    BY <2>5, <2>6 DEF Loan!Next, Loan!Move
<1>16. CASE ClearVerify
  <2>1. UNCHANGED <<InForce, Noted, userSetting>>
    BY <1>16 DEF ClearVerify, Reads, Readable, ClearSteps, InForce, Noted
  <2>2. Loan!Answer
    BY <1>a, <1>b, <1>d, <1>f, <1>16, Distinct, JournalFacts, SettingsApart DEF ClearVerify, Reads, Readable, ClearSteps, TypeOK, CallOK, OwnedHasJournal,
       HonestOutcome, Loan!Answer, Loan!Truthful, Borrowed, DirectSettings
  <2> QED
    BY <2>1, <2>2 DEF Loan!Next, Loan!Move
<1>17. CASE Diagnose
  <2>1. UNCHANGED <<InForce, Noted, userSetting>>
    BY <1>17 DEF Diagnose, InForce, Noted
  <2>2. Loan!Answer
    BY <1>a, <1>b, <1>d, <1>f, <1>17, Distinct, JournalFacts, SettingsApart DEF Diagnose, TypeOK, CallOK, OwnedHasJournal,
       HonestOutcome, Loan!Answer, Loan!Truthful, Borrowed, DirectSettings
  <2> QED
    BY <2>1, <2>2 DEF Loan!Next, Loan!Move
<1>18. CASE OtherWrites
  <2>1. Loan!OthersChoose
    BY <1>a, <1>b, <1>c, <1>d, <1>e, <1>f, <1>18, Distinct, JournalFacts, SettingsApart
       DEF OtherWrites, Loan!OthersChoose, TypeOK, CallOK, OwnedHasJournal, CompareOK, UserSettingSurvives, Borrowed, DirectSettings
  <2>2. Loan!Answer
    BY <1>a, <1>b, <1>d, <1>f, <1>18, Distinct, JournalFacts, SettingsApart DEF OtherWrites, TypeOK, CallOK, OwnedHasJournal,
       HonestOutcome, Loan!Answer, Loan!Truthful, Borrowed, DirectSettings
  <2> QED
    BY <2>1, <2>2 DEF Loan!Next, Loan!Move
<1>19. CASE LegibilityChanges
  <2>1. UNCHANGED <<InForce, Noted, userSetting>>
    BY <1>19 DEF LegibilityChanges, InForce, Noted
  <2>2. Loan!Answer
    BY <1>a, <1>b, <1>d, <1>f, <1>19, Distinct, JournalFacts, SettingsApart DEF LegibilityChanges, TypeOK, CallOK, OwnedHasJournal,
       HonestOutcome, Loan!Answer, Loan!Truthful, Borrowed, DirectSettings
  <2> QED
    BY <2>1, <2>2 DEF Loan!Next, Loan!Move
<1>20. CASE ListenerChanges
  <2>1. UNCHANGED <<InForce, Noted, userSetting>>
    BY <1>20 DEF ListenerChanges, InForce, Noted
  <2>2. Loan!Answer
    BY <1>a, <1>b, <1>d, <1>f, <1>20, Distinct, JournalFacts, SettingsApart DEF ListenerChanges, TypeOK, CallOK, OwnedHasJournal,
       HonestOutcome, Loan!Answer, Loan!Truthful, Borrowed, DirectSettings
  <2> QED
    BY <2>1, <2>2 DEF Loan!Next, Loan!Move
<1>21. CASE Crash
  <2>1. Loan!Note \/ UNCHANGED <<InForce, Noted, userSetting>>
    BY <1>a, <1>b, <1>c, <1>d, <1>e, <1>f, <1>21, Distinct, JournalFacts, SettingsApart
       DEF Crash, Loan!Note, TypeOK, CallOK, OwnedHasJournal, CompareOK, UserSettingSurvives, Borrowed, DirectSettings
  <2>2. Loan!Answer
    BY <1>a, <1>b, <1>d, <1>f, <1>21, Distinct, JournalFacts, SettingsApart DEF Crash, TypeOK, CallOK, OwnedHasJournal,
       HonestOutcome, Loan!Answer, Loan!Truthful, Borrowed, DirectSettings
  <2> QED
    BY <2>1, <2>2 DEF Loan!Next, Loan!Move
<1>22. CASE Restart
  <2>1. UNCHANGED <<InForce, Noted, userSetting>>
    BY <1>22 DEF Restart, InForce, Noted
  <2>2. Loan!Answer
    BY <1>a, <1>b, <1>d, <1>f, <1>22, Distinct, JournalFacts, SettingsApart DEF Restart, TypeOK, CallOK, OwnedHasJournal,
       HonestOutcome, Loan!Answer, Loan!Truthful, Borrowed, DirectSettings
  <2> QED
    BY <2>1, <2>2 DEF Loan!Next, Loan!Move
<1>23. CASE UNCHANGED vars
  BY <1>23 DEF vars, Loan!vars, InForce, Noted
<1> QED
  BY <1>1, <1>2, <1>3, <1>4, <1>5, <1>6, <1>7, <1>8, <1>9, <1>10, <1>11, <1>12, <1>13, <1>14, <1>15, <1>16, <1>17, <1>18, <1>19, <1>20, <1>21, <1>22, <1>23, <1>24 DEF Next, Publish, Restore, Clear, Others

\* SystemProxyManager, with its files, its steps and its crashes, is a loan: it
\* takes only what it noted, gives back only that, and answers truthfully.
THEOREM LoanTheorem ==
    ASSUME ~RacingWriters PROVE Spec => ImplementsLoan
<1>1. Init => LInv /\ Loan!Init
  BY InitLoan
<1>2. LInv /\ [Next]_vars => LInv'
  BY StepIInv, StepUser, StepNotesDirect DEF LInv
<1>3. LInv /\ LInv' /\ [Next]_vars => [Loan!Next]_Loan!vars
  BY StepLoan
<1> QED
  BY <1>1, <1>2, <1>3, PTL DEF Spec, Loan!Spec, ImplementsLoan
=============================================================================
