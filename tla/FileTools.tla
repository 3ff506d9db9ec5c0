------------------------------ MODULE FileTools ------------------------------
(***************************************************************************)
(* The read, write and edit tools of agent-lite-tools/file on one file,    *)
(* with the readFileState they share.  A read is asynchronous; a write or  *)
(* an edit is one synchronous call, but other programs can change the file *)
(* between its system calls.  Times are what the tools compare, whole      *)
(* milliseconds of modification: a version may carry any of them, an older *)
(* one too, when a file is moved or copied there or the clock is set back. *)
(***************************************************************************)
EXTENDS Naturals

CONSTANTS
    Texts,      \* contents of the file
    MaxTime,    \* bound: the times that versions of the file carry
    MaxReads    \* bound: reads of the file under way at once

ASSUME FileAssumption == MaxTime \in Nat /\ MaxReads \in Nat

VARIABLES
    unc,        \* the path is a UNC path of Windows
    file,       \* the file: is it there, its content and time of change;
                \* hidden: no comparison of times may show that it is a new one
    reads,      \* read number -> where it is and what it has got
    entry,      \* readFileState of the file
    tool        \* the synchronous call under way

fileVars == <<unc, file, reads, entry, tool>>

NoFile  == [exists |-> FALSE, content |-> {}, time |-> 0, hidden |-> FALSE]
NoEntry == [known |-> FALSE, content |-> {}, time |-> 0, partial |-> FALSE]
NoTool  == [at |-> "idle", kind |-> "none", was |-> {}, exists |-> FALSE]
NoRead  == [at |-> "unused", content |-> {}, time |-> 0, partial |-> FALSE,
            streamed |-> FALSE]

\* A content is a set of texts: two of them in one is a torn read.
Contents == {{t} : t \in Texts}

FilesInit ==
    /\ unc \in BOOLEAN
    /\ file \in {NoFile}
           \cup [exists : {TRUE}, content : Contents, time : {1}, hidden : {FALSE}]
    /\ reads = [r \in 1..MaxReads |-> NoRead]
    /\ entry = NoEntry
    /\ tool = NoTool

\* A streaming read that has content but not yet the time of the file.
Untimed(r) == reads[r].at = "streaming" /\ reads[r].time = 0 /\ reads[r].content # {}

\* A version of that time passes for the one that a read under way has got.
Overtakes(t) == \E r \in DOMAIN reads : t <= reads[r].time \/ Untimed(r)

\* The content is loaded; what comes from now on the call need not see.
Loaded == tool.at \in {"compare", "write", "record"}

\* Another program writes the file, puts another one in its place or removes it.
Foreign ==
    /\ \/ \E c \in Contents, t \in 1..MaxTime :
             file' = [exists |-> TRUE, content |-> c, time |-> t,
                      hidden |-> t <= entry.time \/ Overtakes(t) \/ Loaded]
       \/ /\ file.exists
          /\ file' = NoFile
    /\ UNCHANGED <<unc, reads, entry, tool>>

------------------------------------------------------------------------------
\* readFileInRange: stat first, for its time and size.  Part of the file was
\* asked for, or the bytes may be cut off at a limit.
Idle == tool.at = "idle"

StatForRead(r) ==
    /\ Idle /\ reads[r].at = "unused" /\ file.exists
    /\ \E partial, streamed \in BOOLEAN :
          reads' = [reads EXCEPT ![r] =
              [at |-> IF streamed THEN "streaming" ELSE "reading",
               content |-> {}, time |-> IF streamed THEN 0 ELSE file.time,
               partial |-> partial, streamed |-> streamed]]
    /\ UNCHANGED <<unc, file, entry, tool>>

\* A small file is read at once, under the time of the stat before.
ReadSmall(r) ==
    /\ reads[r].at = "reading" /\ file.exists
    /\ reads' = [reads EXCEPT ![r] = [@ EXCEPT !.at = "done",
                                               !.content = file.content]]
    /\ UNCHANGED <<unc, file, entry, tool>>

\* A large one is streamed, and its time is asked for once it is open, while
\* the first chunk may be on its way already.
ReadChunk(r) ==
    /\ reads[r].at = "streaming" /\ file.exists
    /\ reads' = [reads EXCEPT ![r].content = @ \cup file.content]
    /\ UNCHANGED <<unc, file, entry, tool>>

TimeOfStream(r) ==
    /\ reads[r].at = "streaming" /\ reads[r].time = 0 /\ file.exists
    /\ reads' = [reads EXCEPT ![r].time = file.time]
    /\ UNCHANGED <<unc, file, entry, tool>>

StreamEnd(r) ==
    /\ reads[r].at = "streaming" /\ reads[r].time # 0 /\ reads[r].content # {}
    /\ reads' = [reads EXCEPT ![r].at = "done"]
    /\ UNCHANGED <<unc, file, entry, tool>>

\* The file is gone, or too large, or the caller aborts: no record.
ReadFails(r) ==
    /\ reads[r].at \in {"reading", "streaming"}
    /\ reads' = [reads EXCEPT ![r] = NoRead]
    /\ UNCHANGED <<unc, file, entry, tool>>

\* Mutant of RecordRead: the time is asked for when the record is made.
RecordReadLate(r) ==
    /\ Idle /\ reads[r].at = "done"
    /\ entry' = [known |-> TRUE, content |-> reads[r].content,
                 time |-> file.time, partial |-> reads[r].partial]
    /\ reads' = [reads EXCEPT ![r] = NoRead]
    /\ UNCHANGED <<unc, file, tool>>

\* setStateFromReadInRange: the later read replaces the record of an earlier.
RecordRead(r) ==
    /\ Idle /\ reads[r].at = "done"
    /\ entry' = [known |-> TRUE, content |-> reads[r].content,
                 time |-> reads[r].time, partial |-> reads[r].partial]
    /\ reads' = [reads EXCEPT ![r] = NoRead]
    /\ UNCHANGED <<unc, file, tool>>

------------------------------------------------------------------------------
\* writeTextFile and editTextFile, system call by system call.
Begin(kind) ==
    /\ Idle
    /\ tool' = [NoTool EXCEPT !.at = "check", !.kind = kind]
    /\ UNCHANGED <<unc, file, reads, entry>>

\* The call is over: it throws, or returns when it has recorded its write.
Return == tool' = NoTool

FullRead == entry.known /\ ~entry.partial

\* First guard: a file that exists was read in full and is not younger.  It is
\* left out for a UNC path.
CheckRead ==
    /\ tool.at = "check"
    /\ IF ~unc /\ file.exists /\ (~FullRead \/ file.time > entry.time)
       THEN Return
       ELSE tool' = [tool EXCEPT !.at = "load"]
    /\ UNCHANGED <<unc, file, reads, entry>>

\* The current content.  An edit needs a file, or an empty old string: then
\* it creates one and starts over as a write.
LoadCurrent ==
    /\ tool.at = "load"
    /\ IF file.exists \/ tool.kind = "write"
       THEN tool' = [tool EXCEPT !.at = "compare", !.was = file.content,
                                 !.exists = file.exists]
       ELSE Return \/ tool' = [NoTool EXCEPT !.at = "check", !.kind = "write"]
    /\ UNCHANGED <<unc, file, reads, entry>>

\* Second guard: a younger file passes only if its content is the one read.
UpToDate ==
    \/ entry.known /\ file.time <= entry.time
    \/ FullRead /\ tool.was = entry.content

\* Its stat throws when the file is gone by now.  An edit also gives up when
\* its old string is not there, is there more than once, or is empty.
CompareContent ==
    /\ tool.at = "compare"
    /\ \/ /\ tool.exists => file.exists /\ UpToDate
          /\ tool' = [tool EXCEPT !.at = "write"]
       \/ /\ tool.kind = "edit" \/ (tool.exists /\ ~(file.exists /\ UpToDate))
          /\ Return
    /\ UNCHANGED <<unc, file, reads, entry>>

PutContent ==
    /\ tool.at = "write"
    /\ \E c \in Contents, t \in 1..MaxTime :
          /\ file' = [exists |-> TRUE, content |-> c, time |-> t,
                      hidden |-> Overtakes(t)]
          /\ tool' = [tool EXCEPT !.at = "record", !.was = c]
    /\ UNCHANGED <<unc, reads, entry>>

\* The record takes what was written and the time the file has by now.
RecordWrite ==
    /\ tool.at = "record"
    /\ Return
    /\ entry' = IF file.exists
                THEN [known |-> TRUE, content |-> tool.was,
                      time |-> file.time, partial |-> FALSE]
                ELSE entry
    /\ UNCHANGED <<unc, file, reads>>

FilesNext ==
    \/ Foreign
    \/ \E r \in 1..MaxReads :
          \/ StatForRead(r) \/ ReadSmall(r) \/ ReadChunk(r) \/ TimeOfStream(r)
          \/ StreamEnd(r) \/ ReadFails(r) \/ RecordRead(r)
    \/ \E kind \in {"write", "edit"} : Begin(kind)
    \/ CheckRead \/ LoadCurrent \/ CompareContent \/ PutContent \/ RecordWrite

FilesSpec == FilesInit /\ [][FilesNext]_fileVars
------------------------------------------------------------------------------
\* A write or an edit never replaces a version of the file that the tools have
\* not read or written themselves, and but for a UNC path never one they have
\* read only in part (write-file.ts:52-105, edit-text-file.ts:90-184,
\* file-read-state.ts:28-55).  No comparison of times shows a version whose time
\* is not after one that the tools have noted (put there with its own time by mv
\* or cp -p, in the same millisecond, after the clock was set back), one that
\* overtakes a streaming read before it asks for the time, or one that comes when
\* the call has loaded the content: those are hidden and may go unread.
NoBlindOverwrite ==
    tool.at = "write" /\ file.exists /\ ~file.hidden =>
        /\ entry.known /\ entry.content = file.content
        /\ unc \/ ~entry.partial
==============================================================================
