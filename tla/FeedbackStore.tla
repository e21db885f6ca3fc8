---------------------------- MODULE FeedbackStore ----------------------------
(***************************************************************************)
(* The opt-in feedback log (internal/feedback/feedback.go and its callers): *)
(* servers append events to one JSON-lines file, the command line reads,    *)
(* exports and deletes it.  Each process has a mutex of its own, and        *)
(* nothing holds between processes but the file system: appends go to the   *)
(* end of the file that was opened, also when it has been deleted since,    *)
(* and an append may stop half way.                                         *)
(***************************************************************************)
EXTENDS Naturals, Sequences, FiniteSets, SequencesExt

CONSTANTS Recorders,        \* the processes that record
          MaxFeedback,      \* bound: events recorded
          MaxFbDeletes      \* bound: deletions
ASSUME FeedbackAssumption == MaxFbDeletes \in Nat

VARIABLES
    fbOpted,        \* whether feedback is enabled
    fbPath,         \* the file events-v1.jsonl names (0: none)
    fbFile,         \* the lines of each file there has been
    fbOpen,         \* the file a process has opened to append to (0: none)
    fbEvent,        \* the event it is about to write
    fbAcked,        \* history: per file, the events acknowledged as recorded
    fbReport,       \* the last export: what it counted, what it had to
    fbSent, fbDeletes
fbVars == <<fbOpted, fbPath, fbFile, fbOpen, fbEvent, fbAcked, fbReport, fbSent, fbDeletes>>

FbFiles == 1..(MaxFbDeletes + 1)
Ratings == {"helpful", "not_helpful", "unsure"}
Events == {"operation"} \union Ratings

\* A line is an event, "torn" (the last one, half written) or "glued" (a torn
\* one and the event appended to it).
Readable(line) == line \in Events

FeedbackInit ==
    /\ fbOpted \in BOOLEAN
    /\ fbPath = 0 /\ fbFile = [i \in FbFiles |-> <<>>]
    /\ fbOpen = [p \in Recorders |-> 0] /\ fbEvent = [p \in Recorders |-> "operation"]
    /\ fbAcked = [i \in FbFiles |-> 0]
    /\ fbReport = [counted |-> 0, due |-> 0]
    /\ fbSent = 0 /\ fbDeletes = 0

\* Record (after Validate): open, creating the file if the path names none.
RecordOpens(p) ==
    /\ fbOpted /\ fbOpen[p] = 0 /\ fbSent < MaxFeedback /\ fbSent' = fbSent + 1
    /\ LET file == IF fbPath = 0 THEN fbDeletes + 1 ELSE fbPath
       IN  fbPath' = file /\ fbOpen' = [fbOpen EXCEPT ![p] = file]
    /\ \E event \in Events : fbEvent' = [fbEvent EXCEPT ![p] = event]
    /\ UNCHANGED <<fbOpted, fbFile, fbAcked, fbReport, fbDeletes>>

TornTail(file) == fbFile[file] # <<>> /\ Last(fbFile[file]) = "torn"
Appended(file, line) ==
    IF TornTail(file) THEN Append(Front(fbFile[file]), "glued")
                      ELSE Append(fbFile[file], line)

\* An append that is glued to a torn line is acknowledged all the same.
RecordWrites(p) ==
    LET file == fbOpen[p]
    IN  /\ file # 0 /\ fbOpen' = [fbOpen EXCEPT ![p] = 0]
        /\ fbFile' = [fbFile EXCEPT ![file] = Appended(file, fbEvent[p])]
        /\ fbAcked' = [fbAcked EXCEPT ![file] = @ + 1]
        /\ UNCHANGED <<fbOpted, fbPath, fbEvent, fbReport, fbSent, fbDeletes>>

\* The process dies or the disk is full half way: the caller has no receipt.
RecordTears(p) ==
    LET file == fbOpen[p]
    IN  /\ file # 0 /\ fbOpen' = [fbOpen EXCEPT ![p] = 0]
        /\ fbFile' = [fbFile EXCEPT ![file] =
                        IF TornTail(file) THEN @ ELSE Append(@, "torn")]
        /\ UNCHANGED <<fbOpted, fbPath, fbEvent, fbAcked, fbReport, fbSent, fbDeletes>>

\* BuildExport: a rating counts as a respondent and not as an operation.
CountIn(lines, events) == Cardinality({i \in DOMAIN lines : lines[i] \in events})
Counted(lines) == CountIn(lines, {"operation"}) + CountIn(lines, Ratings)

\* Faulty variant: lines that do not decode are skipped.
ExportSkips ==
    /\ fbPath # 0
    /\ LET lines == fbFile[fbPath]
       IN  fbReport' = [counted |-> Counted(lines), due |-> fbAcked[fbPath]]
    /\ UNCHANGED <<fbOpted, fbPath, fbFile, fbOpen, fbEvent, fbAcked, fbSent, fbDeletes>>

\* ReadEvents and BuildExport: one line that does not decode fails the export.
Export ==
    /\ fbPath # 0
    /\ LET lines == fbFile[fbPath]
       IN  /\ \A i \in DOMAIN lines : Readable(lines[i])
           /\ fbReport' = [counted |-> Counted(lines), due |-> fbAcked[fbPath]]
    /\ UNCHANGED <<fbOpted, fbPath, fbFile, fbOpen, fbEvent, fbAcked, fbSent, fbDeletes>>

\* feedback delete --confirm.
DeleteFeedback ==
    /\ fbPath # 0 /\ fbDeletes < MaxFbDeletes /\ fbDeletes' = fbDeletes + 1
    /\ fbPath' = 0
    /\ UNCHANGED <<fbOpted, fbFile, fbOpen, fbEvent, fbAcked, fbReport, fbSent>>

FeedbackNext ==
    \/ \E p \in Recorders : RecordOpens(p) \/ RecordWrites(p) \/ RecordTears(p)
    \/ Export \/ DeleteFeedback
FeedbackSpec == FeedbackInit /\ [][FeedbackNext]_fbVars

-----------------------------------------------------------------------------
(* Properties                                                               *)

\* An export that succeeds misses no event that was acknowledged into the file
\* it reads: what a half-written line has swallowed makes it fail instead.
ExportIsWhole == fbReport.counted >= fbReport.due
=============================================================================
