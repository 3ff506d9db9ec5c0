-------------------------- MODULE WatchedSettings --------------------------
(***************************************************************************)
(* The settings controllers of agent-lite-tools: access roots, ignore      *)
(* rules, the configuration of AI summaries and of SearXNG.  Each merges   *)
(* what its host sets by hand with what a watched file says; they differ   *)
(* only in how they merge.  Pointing a controller at a file reads it,      *)
(* closes the watcher of the previous one and opens a new one, with other  *)
(* calls and events in between; every change a watcher reports reads the   *)
(* file again.                                                             *)
(***************************************************************************)
EXTENDS Naturals, FiniteSets

CONSTANTS
    SettingsFiles,  \* files a controller can be pointed at
    Fields, Values, \* a setting is a pair of a field and a value
    MaxCalls,       \* bound: calls that point the controller at a file
    MaxChanges      \* bound: changes other programs make to the files

ASSUME SettingsAssumption ==
    MaxCalls \in Nat /\ MaxChanges \in Nat /\ "none" \notin SettingsFiles

VARIABLES
    controller, \* which of the four controllers this is
    disk,       \* file -> can it be read, and what does it say
    manual,     \* the settings of the host
    layer,      \* the settings of the file, as last loaded
    merged,     \* the settings in force
    path,       \* the file the controller is pointed at, or "none"
    loads,      \* reads of a file under way, of calls and of watchers
    calls,      \* how many calls have been made
    opening,    \* calls that wait for the old watcher to close
    watcher,    \* the current watcher, a call number, 0 while there is none
    open,       \* watchers that still report events
    events,     \* reports not yet delivered
    changes,    \* how many changes have been made
    overtaken   \* history: the path changed while a file was being read

settingsVars == <<controller, disk, manual, layer, merged, path, loads, calls,
                  opening, watcher, open, events, changes, overtaken>>

Controllers == {"roots", "ignore", "ai", "searxng"}
Settings    == {{}} \cup {{<<x, v>>} : x \in Fields, v \in Values}
Readable(settings) == [state |-> "readable", says |-> settings]
FileStates  == {Readable(s) : s \in Settings \ {{}}}
                  \cup {[state |-> b, says |-> {}] : b \in {"absent", "unreadable"}}
Unread      == [state |-> "reading", says |-> {}]

------------------------------------------------------------------------------
\* Roots and ignore rules accumulate; of the configurations the manual one
\* overrides the file field by field.
Merge(manually, fromFile) ==
    IF controller \in {"roots", "ignore"}
    THEN manually \cup fromFile
    ELSE manually \cup {s \in fromFile : \A m \in manually : m[1] # s[1]}

\* Every assignment to a layer recomputes the settings in force.
SetLayer(settings) ==
    /\ layer' = settings
    /\ merged' = Merge(manual, settings)

Same == UNCHANGED <<layer, merged>>

SettingsInit ==
    /\ controller \in Controllers
    /\ disk \in [SettingsFiles -> FileStates]
    /\ manual = {} /\ layer = {} /\ merged = {}
    /\ path = "none"
    /\ loads = {} /\ calls = 0 /\ opening = {}
    /\ watcher = 0 /\ open = {} /\ events = {}
    /\ changes = 0 /\ overtaken = FALSE

\* setRoots, setIgnoreRules, setAiConfig, setSearxngConfig.
SetManually(settings) ==
    /\ manual' = settings
    /\ merged' = Merge(settings, layer)
    /\ UNCHANGED <<controller, disk, layer, path, loads, calls, opening,
                   watcher, open, events, changes, overtaken>>

\* set...File(f): the path at once, then a read of the file.
PointAt(f) ==
    /\ calls < MaxCalls
    /\ calls' = calls + 1
    /\ path' = f
    /\ loads' = loads \cup {[call |-> calls + 1, file |-> f, got |-> Unread]}
    /\ overtaken' = (overtaken \/ loads # {} \/ opening # {})
    /\ UNCHANGED <<controller, disk, manual, layer, merged, opening, watcher,
                   open, events, changes>>

\* Closing a watcher drops the reference at once and the events later.
DropWatcher ==
    /\ watcher' = 0
    /\ open' = {[w EXCEPT !.closing = @ \/ w.call = watcher] : w \in open}

\* set...File() with nothing: the file layer goes, the watcher closes.
ClearPath ==
    /\ path # "none"
    /\ path' = "none"
    /\ SetLayer({})
    /\ DropWatcher
    /\ overtaken' = (overtaken \/ loads # {} \/ opening # {})
    /\ UNCHANGED <<controller, disk, manual, loads, calls, opening, events,
                   changes>>

\* readFile takes the content at some moment and delivers it later.
TakeContent(l) ==
    /\ l \in loads /\ l.got = Unread
    /\ loads' = (loads \ {l}) \cup {[l EXCEPT !.got = disk[l.file]]}
    /\ UNCHANGED <<controller, disk, manual, layer, merged, path, calls,
                   opening, watcher, open, events, changes, overtaken>>

\* load...: a missing file is an empty one, an unreadable one changes
\* nothing.  A call goes on to set up its watcher, on the path as it is by now:
\* a later call's, and none when the path is gone (chokidar refuses it, and the
\* old watcher closes all the same).
Load(l) ==
    /\ l \in loads /\ l.got # Unread
    /\ IF l.got.state = "unreadable" THEN Same ELSE SetLayer(l.got.says)
    /\ loads' = loads \ {l}
    /\ IF l.call > 0
       THEN /\ opening' = opening \cup
                             {[call |-> l.call, file |-> f, after |-> watcher] :
                                 f \in {path} \ {"none"}}
            /\ DropWatcher
       ELSE UNCHANGED <<opening, watcher, open>>
    /\ UNCHANGED <<controller, disk, manual, path, calls, events, changes,
                   overtaken>>

\* The old watcher is closed: the new one reports changes from now on.
Watch(o) ==
    /\ o \in opening /\ \A w \in open : w.call # o.after
    /\ opening' = opening \ {o}
    /\ watcher' = o.call
    /\ open' = open \cup {[call |-> o.call, file |-> o.file,
                              closing |-> FALSE]}
    /\ UNCHANGED <<controller, disk, manual, layer, merged, path, loads, calls,
                   events, changes, overtaken>>

\* close() of a watcher is through: it stops reporting.  A watcher whose
\* reference a later call replaced is never closed.
Closed(w) ==
    /\ w \in open /\ w.closing
    /\ open' = open \ {w}
    /\ events' = {e \in events : e.call # w.call}
    /\ UNCHANGED <<controller, disk, manual, layer, merged, path, loads, calls,
                   opening, watcher, changes, overtaken>>

\* dispose().
Dispose ==
    /\ watcher # 0
    /\ DropWatcher
    /\ UNCHANGED <<controller, disk, manual, layer, merged, path, loads, calls,
                   opening, events, changes, overtaken>>

\* Another program writes, removes or locks a file.
Change(f, content) ==
    /\ changes < MaxChanges /\ content # disk[f]
    /\ changes' = changes + 1
    /\ disk' = [disk EXCEPT ![f] = content]
    /\ events' = events \cup
          {[call |-> w.call, file |-> f, gone |-> content.state = "absent"] :
              w \in {v \in open : v.file = f}}
    /\ UNCHANGED <<controller, manual, layer, merged, path, loads, calls,
                   opening, watcher, open, overtaken>>

\* Mutant of Relevant: every report counts.
RelevantAlways(e) == TRUE

\* Only a report about the current file counts.
Relevant(e) == path = e.file

\* add and change: read again.
Refresh(e) ==
    /\ e \in events /\ ~e.gone
    /\ events' = events \ {e}
    /\ loads' = IF Relevant(e)
                THEN loads \cup {[call |-> 0, file |-> e.file, got |-> Unread]}
                ELSE loads
    /\ UNCHANGED <<controller, disk, manual, layer, merged, path, calls,
                   opening, watcher, open, changes, overtaken>>

\* unlink: the layer goes without a read.
Unlinked(e) ==
    /\ e \in events /\ e.gone
    /\ events' = events \ {e}
    /\ IF Relevant(e) THEN SetLayer({}) ELSE Same
    /\ UNCHANGED <<controller, disk, manual, path, loads, calls, opening,
                   watcher, open, changes, overtaken>>

SettingsNext ==
    \/ \E s \in Settings \ {manual} : SetManually(s)
    \/ \E f \in SettingsFiles :
          \/ PointAt(f)
          \/ \E c \in FileStates : Change(f, c)
    \/ ClearPath \/ Dispose
    \/ \E l \in loads : TakeContent(l) \/ Load(l)
    \/ \E o \in opening : Watch(o)
    \/ \E w \in open : Closed(w)
    \/ \E e \in events : Refresh(e) \/ Unlinked(e)

SettingsSpec == SettingsInit /\ [][SettingsNext]_settingsVars
------------------------------------------------------------------------------
\* A controller whose file source was cancelled while no read of it was under
\* way works with the manual settings alone, whatever the watchers still
\* report and whatever becomes of the file; only a read already under way can
\* bring the cancelled layer back (access-controller.ts:137-146, and the same
\* lines of the other three controllers).
ManualAloneAfterClear ==
    path = "none" /\ ~overtaken => merged = Merge(manual, {})
==============================================================================
