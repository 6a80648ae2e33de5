-------------------------------- MODULE Desk --------------------------------
(***************************************************************************)
(* What a companion edits about itself once it works: notification         *)
(* preferences and privacy (settings.service.ts, account.service.ts), the  *)
(* appeals of a dispute (support.service.ts), a day of the weekly schedule *)
(* and its presence (availability.service.ts, profile.service.ts).         *)
(*                                                                         *)
(* Most edits read a row, compute the new value and write it back; the app *)
(* and a second device of the companion may do so at the same time.        *)
(***************************************************************************)
EXTENDS Naturals

CONSTANTS
    Editor,         \* calls that may be in progress at once
    Preference,     \* notification preferences
    Appeal,         \* appeals against a dispute
    MaxEdit,        \* bound: edits
    MaxBreak        \* bound: calls that die

ASSUME DeskAssumption == {MaxEdit, MaxBreak} \subseteq Nat

VARIABLES
    prefs,          \* companion_settings.notificationPrefs: those switched on
    showInSearch,   \* companion_settings.showInSearch
    appeals,        \* appeals in the dispute's description
    day,            \* weekly_schedules.active of one day
    vacation,       \* vacation_modes.enabled
    isAvailable,    \* companions.isAvailable
    editor,         \* calls in progress
    edits,          \* bound
    breaks,         \* bound
    said,           \* history: what the edits come to, one after the other
    spoilt          \* history: rows an edit of which was overtaken, left things out, or died

deskRows == <<prefs, showInSearch, appeals, day, vacation, isAvailable>>
deskVars == <<deskRows, editor, edits, breaks, said, spoilt>>

DayState == {"none", "active", "inactive"}
Change == [on : SUBSET Preference, off : SUBSET Preference]

(* stale: the row has been written since it was read.                      *)
EditorRow ==
    [ pc : {"prefs", "appeals", "toggle", "times", "away"},
      prefs : SUBSET Preference, change : Change,
      appeals : SUBSET Appeal, appeal : SUBSET Appeal, day : DayState, stale : BOOLEAN ]

NoEdit ==
    [ pc |-> "resting", prefs |-> {}, change |-> [on |-> {}, off |-> {}],
      appeals |-> {}, appeal |-> {}, day |-> "none", stale |-> FALSE ]

DeskTypeOK ==
    /\ prefs \in SUBSET Preference
    /\ appeals \in SUBSET Appeal
    /\ day \in DayState
    /\ {showInSearch, vacation, isAvailable} \subseteq BOOLEAN
    /\ editor \in [Editor -> EditorRow \cup {NoEdit}]
    /\ edits \in 0 .. MaxEdit
    /\ breaks \in 0 .. MaxBreak
    /\ said \in [prefs : SUBSET Preference, search : BOOLEAN, appeals : SUBSET Appeal, day : DayState]
    /\ spoilt \in SUBSET {"prefs", "search", "appeals", "day", "presence"}

DeskInit ==
    /\ prefs = {}
    /\ showInSearch = TRUE
    /\ appeals = {}
    /\ day = "none"
    /\ vacation = FALSE
    /\ isAvailable = FALSE
    /\ editor = [e \in Editor |-> NoEdit]
    /\ edits = 0
    /\ breaks = 0
    /\ said = [prefs |-> {}, search |-> TRUE, appeals |-> {}, day |-> "none"]
    /\ spoilt = {}

(* The edit begins by reading what it needs.                               *)
Reads(e, row) ==
    /\ editor[e] = NoEdit
    /\ edits < MaxEdit
    /\ edits' = edits + 1
    /\ editor' = [editor EXCEPT ![e] = row]

(* An edit of one statement.                                               *)
Writes == edits < MaxEdit /\ edits' = edits + 1

(* The row has been written: others that have read it are stale.           *)
Overtakes(pcs) ==
    [o \in Editor |-> IF editor[o].pc \in pcs THEN [editor[o] EXCEPT !.stale = TRUE] ELSE editor[o]]

Finishes(e, pcs) == editor' = [Overtakes(pcs) EXCEPT ![e] = NoEdit]

Spoils(e, row) == spoilt' = IF editor[e].stale THEN spoilt \cup {row} ELSE spoilt

-------------------------------------------------------------------------------
(* Notification preferences: the settings merge, the account replaces.     *)

MergePrefs(e, change) ==
    /\ Reads(e, [NoEdit EXCEPT !.pc = "prefs", !.prefs = prefs, !.change = change])
    /\ UNCHANGED <<deskRows, breaks, said, spoilt>>

Applied(p, change) == (p \cup change.on) \ change.off

(* Faulty: the preferences sent replace those stored.                      *)
StorePrefsSent(e) ==
    /\ editor[e].pc = "prefs"
    /\ prefs' = editor[e].change.on
    /\ said' = [said EXCEPT !.prefs = Applied(said.prefs, editor[e].change)]
    /\ Finishes(e, {"prefs"})
    /\ Spoils(e, "prefs")
    /\ UNCHANGED <<showInSearch, appeals, day, vacation, isAvailable, edits, breaks>>

StorePrefs(e) ==
    /\ editor[e].pc = "prefs"
    /\ prefs' = Applied(editor[e].prefs, editor[e].change)
    /\ said' = [said EXCEPT !.prefs = Applied(said.prefs, editor[e].change)]
    /\ Finishes(e, {"prefs"})
    /\ Spoils(e, "prefs")
    /\ UNCHANGED <<showInSearch, appeals, day, vacation, isAvailable, edits, breaks>>

ReplacePrefs(p) ==
    /\ Writes
    /\ prefs' = p
    /\ said' = [said EXCEPT !.prefs = p]
    /\ editor' = Overtakes({"prefs"})
    /\ UNCHANGED <<showInSearch, appeals, day, vacation, isAvailable, breaks, spoilt>>

-------------------------------------------------------------------------------
(* Privacy.  The account's form takes a visibility for want of a choice,   *)
(* and for want of both, or with any visibility but "private", switches    *)
(* the choice on; "private" leaves it as it is.                            *)

UpdatePrivacy(choice) ==
    /\ Writes
    /\ showInSearch' = (choice \in {"show", "unsaid"} \/ (choice = "private" /\ showInSearch))
    /\ said' = [said EXCEPT !.search = CASE choice = "show" -> TRUE
                                         [] choice = "unsaid" -> @
                                         [] OTHER -> FALSE]
    /\ spoilt' = IF choice \in {"unsaid", "private"} THEN spoilt \cup {"search"} ELSE spoilt
    /\ UNCHANGED <<prefs, appeals, day, vacation, isAvailable, editor, breaks>>

UpdatePrivacyControls(choice) ==
    /\ Writes
    /\ showInSearch' = choice
    /\ said' = [said EXCEPT !.search = choice]
    /\ UNCHANGED <<prefs, appeals, day, vacation, isAvailable, editor, breaks, spoilt>>

-------------------------------------------------------------------------------
(* Appeals are appended to the description that was read.                  *)

AppealDispute(e, a) ==
    /\ a \notin said.appeals
    /\ Reads(e, [NoEdit EXCEPT !.pc = "appeals", !.appeals = appeals, !.appeal = {a}])
    /\ UNCHANGED <<deskRows, breaks, said, spoilt>>

StoreAppeal(e) ==
    /\ editor[e].pc = "appeals"
    /\ appeals' = editor[e].appeals \cup editor[e].appeal
    /\ said' = [said EXCEPT !.appeals = @ \cup editor[e].appeal]
    /\ Finishes(e, {"appeals"})
    /\ Spoils(e, "appeals")
    /\ UNCHANGED <<prefs, showInSearch, day, vacation, isAvailable, edits, breaks>>

-------------------------------------------------------------------------------
(* A day of the week.  Its row is unique: of two calls that found none,    *)
(* the second creates nothing and fails.                                   *)

ToggleDay(e) ==
    /\ \E pc \in {"toggle", "times"} : Reads(e, [NoEdit EXCEPT !.pc = pc, !.day = day])
    /\ UNCHANGED <<deskRows, breaks, said, spoilt>>

Toggled(d) == IF d = "active" THEN "inactive" ELSE "active"

StoreDay(e) ==
    /\ editor[e].pc = "toggle"
    /\ IF editor[e].day = "none" /\ day # "none"
       THEN /\ editor' = [editor EXCEPT ![e] = NoEdit]
            /\ UNCHANGED <<day, said, spoilt>>
       ELSE /\ day' = Toggled(editor[e].day)
            /\ said' = [said EXCEPT !.day = Toggled(@)]
            /\ Finishes(e, {"toggle"})
            /\ Spoils(e, "day")
    /\ UNCHANGED <<prefs, showInSearch, appeals, vacation, isAvailable, edits, breaks>>

(* Hours: a row that has to be created is active.                          *)
StoreTimes(e) ==
    /\ editor[e].pc = "times"
    /\ IF day = "none"
       THEN /\ day' = "active"
            /\ said' = [said EXCEPT !.day = IF @ = "none" THEN "active" ELSE @]
            /\ Finishes(e, {"toggle"})
       ELSE /\ editor' = [editor EXCEPT ![e] = NoEdit]
            /\ UNCHANGED <<day, said>>
    /\ UNCHANGED <<prefs, showInSearch, appeals, vacation, isAvailable, edits, breaks, spoilt>>

-------------------------------------------------------------------------------
(* Presence.  Nothing asks about the vacation when a companion shows       *)
(* itself available.                                                       *)

SetAvailable(available) ==
    /\ Writes
    /\ isAvailable' = available
    /\ spoilt' = IF available /\ vacation THEN spoilt \cup {"presence"} ELSE spoilt
    /\ UNCHANGED <<prefs, showInSearch, appeals, day, vacation, editor, breaks, said>>

SetVacationMode(e, enabled) ==
    /\ Reads(e, IF enabled THEN [NoEdit EXCEPT !.pc = "away"] ELSE NoEdit)
    /\ vacation' = enabled
    /\ UNCHANGED <<prefs, showInSearch, appeals, day, isAvailable, breaks, said, spoilt>>

StoreAway(e) ==
    /\ editor[e].pc = "away"
    /\ isAvailable' = FALSE
    /\ editor' = [editor EXCEPT ![e] = NoEdit]
    /\ UNCHANGED <<prefs, showInSearch, appeals, day, vacation, edits, breaks, said, spoilt>>

EditorDies(e) ==
    /\ editor[e] # NoEdit
    /\ breaks < MaxBreak
    /\ breaks' = breaks + 1
    /\ spoilt' = IF editor[e].pc = "away" THEN spoilt \cup {"presence"} ELSE spoilt
    /\ editor' = [editor EXCEPT ![e] = NoEdit]
    /\ UNCHANGED <<deskRows, edits, said>>

DeskNext ==
    \/ \E p \in SUBSET Preference : ReplacePrefs(p)
    \/ \E choice \in {"show", "hide", "private", "unsaid"} : UpdatePrivacy(choice)
    \/ \E b \in BOOLEAN : UpdatePrivacyControls(b) \/ SetAvailable(b)
    \/ \E e \in Editor :
          \/ \E change \in Change : MergePrefs(e, change)
          \/ \E a \in Appeal : AppealDispute(e, a)
          \/ \E b \in BOOLEAN : SetVacationMode(e, b)
          \/ StorePrefs(e) \/ StoreAppeal(e) \/ ToggleDay(e) \/ StoreDay(e) \/ StoreTimes(e)
          \/ StoreAway(e) \/ EditorDies(e)

DeskSpec == DeskInit /\ [][DeskNext]_deskVars

-------------------------------------------------------------------------------
(* Properties *)

(* Every edit that was answered is in the stored row, unless one that had  *)
(* read the row before overtook it: merged preferences keep the others,    *)
(* an appeal keeps the appeals before it, a toggle its own effect.  A      *)
(* hidden profile stays hidden unless a form leaves the choice out or      *)
(* gives it as "private"; on vacation a companion is unavailable unless    *)
(* it says otherwise or the call died between its two writes.              *)
EditsKept ==
    /\ "prefs" \in spoilt \/ prefs = said.prefs
    /\ "search" \in spoilt \/ showInSearch = said.search
    /\ "appeals" \in spoilt \/ appeals = said.appeals
    /\ "day" \in spoilt \/ day = said.day
    /\ vacation /\ isAvailable => "presence" \in spoilt \/ \E e \in Editor : editor[e].pc = "away"
=============================================================================
