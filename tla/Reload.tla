------------------------------- MODULE Reload -------------------------------
(***************************************************************************)
(* The mapping file of the file plugin and its autorefresh                 *)
(* (src/plugins/file/plugin.go and records.go; relayinfo has the same      *)
(* watcher and the same loader, line for line, over its own records).      *)
(*                                                                         *)
(* A line is a record [key, addr, ok], ok when parseRecord accepts it;     *)
(* comments and blank lines are not lines here.  The operator              *)
(* changes the file while the server reads it, in one of the two ways      *)
(* tools do: by renaming a finished file over it, which leaves a reader    *)
(* the file it opened, or by truncating it and writing it again in place,  *)
(* which a reader part way through it sees.  The reader takes one line at  *)
(* a time, since a scanner reads a file of any size in pieces.             *)
(*                                                                         *)
(* The watch is inotify behind fsnotify: a bounded queue of events about   *)
(* the files of the directory, and an error, once, when it overflowed.     *)
(***************************************************************************)
EXTENDS Naturals, SequencesExt

CONSTANTS Contents,       \* the finished files the operator writes
          MaxNotices,     \* the length of the inotify queue
          MaxEdits        \* bound: times the operator changes the file

VARIABLES inodes,     \* every file the name has stood for; the last is current
          rest,       \* lines an operator writing in place has yet to write
          loader,     \* where setupFile, then the watchLoop goroutine, is; fault: the last load hit one
          recs,       \* pluginState.recs
          notices,    \* events not yet taken from watcher.Events: is it the file
          lost,       \* an error waits on watcher.Errors: events were dropped
          edits,      \* changes made so far
          torn,       \* history: the file was once rewritten in place
          noticed,    \* history: the file changed while it was watched
          revisions   \* history: the mappings of the finished files

vars == <<inodes, rest, loader, recs, notices, lost, edits, torn, noticed, revisions>>
envVars == <<inodes, rest, edits, torn, noticed, revisions>>

NoRecords == <<>>

\* records[key] = ipaddr: of two lines naming one key the last one wins.
Put(records, line) == (line.key :> line.addr) @@ records

Parses(lines) == \A i \in DOMAIN lines : lines[i].ok
Mapping(lines) == FoldLeft(Put, NoRecords, lines)

Current == inodes[Len(inodes)]

(***************************************************************************)
(* The program: loadRecords with its scanner, loadFromFile, refresh,       *)
(* setupFile, watchFile and watchLoop.                                     *)
(***************************************************************************)
At(pc) == loader' = [loader EXCEPT !.pc = pc]

\* os.Open, by name; the map the lines go into is a new one.
Open == /\ loader.pc = "open"
        /\ loader' = [loader EXCEPT !.pc = "read", !.ino = Len(inodes), !.pos = 0, !.records = NoRecords,
                                    !.fault = FALSE]
        /\ UNCHANGED <<envVars, recs, notices, lost>>

\* A failed load ends setup; a failed refresh leaves recs as they are.
Failed == [loader EXCEPT !.pc = IF loader.setup THEN "failed" ELSE "idle",
                         !.pos = 0, !.records = NoRecords]

\* os.Open or scanner.Err: the file system fails, if only for a moment.
Fault == /\ loader.pc \in {"open", "read"}
         /\ loader' = [Failed EXCEPT !.fault = TRUE]
         /\ UNCHANGED <<envVars, recs, notices, lost>>

\* One turn of the scanner: a record, or the error that ends the load.
ReadLine == /\ loader.pc = "read" /\ loader.pos < Len(inodes[loader.ino])
            /\ LET line == inodes[loader.ino][loader.pos + 1] IN
               loader' = IF ~line.ok THEN Failed
                         ELSE [loader EXCEPT !.pos = @ + 1, !.records = Put(@, line)]
            /\ UNCHANGED <<envVars, recs, notices, lost>>

\* The end of the file: the finished map replaces the old one under the lock.
Install == /\ loader.pc = "read" /\ loader.pos >= Len(inodes[loader.ino])
           /\ recs' = loader.records
           /\ loader' = [loader EXCEPT !.pc = IF loader.setup THEN "watch" ELSE "idle",
                                       !.pos = 0, !.records = NoRecords]
           /\ UNCHANGED <<envVars, notices, lost>>

\* watchFile: the watch goes on after the first load.
watchFile == /\ loader.pc = "watch"
             /\ loader' = [loader EXCEPT !.pc = "idle", !.setup = FALSE]
             /\ UNCHANGED <<envVars, recs, notices, lost>>

\* watchLoop, one turn: an event, which may be on another file of the
\* directory, or an error.
TakeEvent == /\ loader.pc = "idle" /\ notices # <<>>
             /\ notices' = Tail(notices)
             /\ At(IF Head(notices) THEN "open" ELSE "idle")
             /\ UNCHANGED <<envVars, recs, lost>>
TakeError_Drains == /\ loader.pc = "idle" /\ lost
                    /\ lost' = FALSE
                    /\ UNCHANGED <<envVars, loader, recs, notices>>
TakeError == /\ loader.pc = "idle" /\ lost
             /\ lost' = FALSE /\ At("open")
             /\ UNCHANGED <<envVars, recs, notices>>

(***************************************************************************)
(* The operator, and the kernel that tells the watch about each change.    *)
(***************************************************************************)
Notify(ours) == IF ~loader.setup
                THEN /\ notices' = IF Len(notices) < MaxNotices THEN Append(notices, ours) ELSE notices
                     /\ lost' = (lost \/ Len(notices) = MaxNotices)
                     /\ noticed' = (noticed \/ ours)
                ELSE UNCHANGED <<notices, lost, noticed>>

Finished(lines) == revisions' = IF Parses(lines) THEN revisions \cup {Mapping(lines)} ELSE revisions

\* A finished file is renamed over the old one.
Rename(c) == /\ rest = <<>> /\ edits < MaxEdits
             /\ edits' = edits + 1
             /\ inodes' = Append(inodes, c) /\ Finished(c)
             /\ Notify(TRUE) /\ UNCHANGED <<rest, loader, recs, torn>>

\* The file is cut to nothing, then written again line by line.
Truncate(c) == /\ rest = <<>> /\ c # <<>> /\ edits < MaxEdits
               /\ edits' = edits + 1 /\ torn' = TRUE
               /\ inodes' = [inodes EXCEPT ![Len(inodes)] = <<>>] /\ rest' = c
               /\ Notify(TRUE) /\ UNCHANGED <<loader, recs, revisions>>
WriteLine == /\ rest # <<>>
             /\ LET now == Append(Current, Head(rest)) IN
                /\ inodes' = [inodes EXCEPT ![Len(inodes)] = now]
                /\ IF Tail(rest) = <<>> THEN Finished(now) ELSE UNCHANGED revisions
             /\ rest' = Tail(rest)
             /\ Notify(TRUE) /\ UNCHANGED <<loader, recs, edits, torn>>

\* Something else in the directory changes.
Other == /\ edits < MaxEdits /\ edits' = edits + 1
         /\ Notify(FALSE) /\ UNCHANGED <<inodes, rest, loader, recs, torn, revisions>>

Init == /\ \E c \in Contents : /\ inodes = <<c>>
                              /\ revisions = IF Parses(c) THEN {Mapping(c)} ELSE {}
        /\ rest = <<>> /\ recs = NoRecords
        /\ loader = [pc |-> "open", setup |-> TRUE, ino |-> 1, pos |-> 0, records |-> NoRecords,
                     fault |-> FALSE]
        /\ notices = <<>> /\ lost = FALSE /\ edits = 0 /\ torn = FALSE /\ noticed = FALSE

Next == \/ Open \/ Fault \/ ReadLine \/ Install \/ watchFile \/ TakeEvent \/ TakeError
        \/ \E c \in Contents : Rename(c) \/ Truncate(c)
        \/ WriteLine \/ Other

(***************************************************************************)
(* Properties                                                              *)
(***************************************************************************)
Loaded == loader.pc = "watch" \/ ~loader.setup

\* Once the watch has nothing more to say and no load is under way, the
\* mapping being served is the file's, if the file parses: a change made while
\* another was being read, a rename under an open file, a burst that overflowed
\* the queue, none of them leaves the server on old records.  (A change that
\* came between the first load and the watch is not noticed at all, and a
\* refresh the file system failed is not tried again before the next event.)
QuietMeansCurrent ==
    loader.pc = "idle" /\ notices = <<>> /\ ~lost /\ noticed /\ ~loader.fault /\ Parses(Current)
        => recs = Mapping(Current)

\* As long as the operator replaces the file by renaming, what is served is the
\* mapping of one whole file, never a blend of two and never part of one:
\* loadRecords opens the name once and loadFromFile replaces the map wholesale.
OneRevision == Loaded /\ ~torn => recs \in revisions

=============================================================================
