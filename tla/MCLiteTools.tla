----------------------------- MODULE MCLiteTools -----------------------------
(***************************************************************************)
(* The stateful tools of agent-lite-tools.  They share nothing, so each    *)
(* behaviour runs one of them while the others stay as they began.         *)
(***************************************************************************)
EXTENDS WatchedSettings, FileTools, ShellRun

CONSTANTS f1, f2, old, new

VARIABLE running

Files   == {f1, f2}
Names   == {"a"}
Choices == {1, 2}
Known   == {old, new}

Init ==
    /\ SettingsInit /\ FilesInit /\ ShellInit
    /\ running \in {"settings", "files", "shell"}
    /\ running # "settings" =>
          controller = "roots" /\ \A f \in Files : disk[f].state = "absent"
    /\ running # "files" => ~file.exists /\ ~unc
    /\ running # "shell" => child.obeys

Next ==
    /\ UNCHANGED running
    /\ \/ running = "settings" /\ SettingsNext /\ UNCHANGED <<fileVars, shellVars>>
       \/ running = "files" /\ FilesNext /\ UNCHANGED <<settingsVars, shellVars>>
       \/ running = "shell" /\ ShellNext /\ UNCHANGED <<settingsVars, fileVars>>

vars == <<running, settingsVars, fileVars, shellVars>>

Spec == Init /\ [][Next]_vars /\ ShellFairness
==============================================================================
