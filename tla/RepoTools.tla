------------------------------ MODULE RepoTools ------------------------------
(***************************************************************************)
(* The tools that read the working tree while it changes: repo_list_files,    *)
(* repo_search and repo_read_file (internal/mcp/repo_tools.go), the prefilter *)
(* the search takes from the index (internal/indexing/trigram.go), and the    *)
(* paging of resources/list (internal/mcp/native_ux.go).  A text is a         *)
(* sequence of lines, a line its bytes and where the query matches in it,     *)
(* [from, to); its end of line is one byte more.                              *)
(***************************************************************************)
EXTENDS OutputLimits, Lists

CONSTANTS RepoFiles,        \* the regular files, in the order of the walk
          RepoTexts,        \* what a file may hold: [lines, grams]
          GoneText,         \* the text of a file that is not there
          RepoIgnored,      \* files Git or the built-in rules hide
          RepoGlobs,        \* what the glob of a call may select: sets of files
          RepoMaxResults, RepoMaxFileBytes, SnippetBytes, ContextLines,
          ReadRequests,     \* what repo_read_file is asked: [start, end, max], 0: not given
          ReadDefault, ReadMargin, ReadBuffer,
          NoteResources,    \* keys of notes, in the order of the list
          KeyFiles,         \* the files resources/list offers, in their order
          PageSize,
          MaxRepoEdits      \* bound: edits, and notes stored or removed

VARIABLES
    rtFile,         \* rtFile[f]: [text, stamp], the size and mtime being the stamp
    rtEntry,        \* rtEntry[f]: what the index knows, or NoEntry
    rtReading,      \* the file indexOne has read and not stored yet, or NoReading
    rtNotes,        \* the notes that are not tombstoned
    rtCall,         \* the call of repo_search or repo_list_files
    rtPage,         \* the client that pages through resources/list
    rtEdits
rtVars == <<rtFile, rtEntry, rtReading, rtNotes, rtCall, rtPage, rtEdits>>

RepoPaths == ToSet(RepoFiles)
NoEntry == [stamp |-> 0, grams |-> FALSE, ready |-> FALSE]
NoReading == [path |-> "none", entry |-> NoEntry]
NoRepoCall == [pc |-> "idle", kind |-> "none", next |-> 1, files |-> RepoPaths,
               prefilter |-> FALSE, known |-> <<>>, found |-> <<>>, at |-> <<>>,
               range |-> [start |-> 0, end |-> 0, max |-> 0]]
\* offset: the cursor; got: what the pages held; same: nothing changed so far.
NoPaging == [pc |-> "idle", offset |-> 0, got |-> <<>>, same |-> TRUE]

\* The bytes of lines S, with their ends.
LineBytes(lines, S) == SumFunction([n \in S |-> lines[n].bytes + 1])
TextBytes(text) == LineBytes(text.lines, DOMAIN text.lines)
Matching(line) == line.from < line.to

\* A text in which the query matches has the query's trigrams.  The limits are
\* positive: the tools take their own for one that is not.
ASSUME RepoAssumption ==
    /\ RepoFiles \in Seq(RepoPaths) /\ RepoFiles # <<>>
    /\ RepoTexts \union {GoneText}
          \subseteq [lines : Seq([bytes : Nat, from : Nat, to : Nat]), grams : BOOLEAN]
    /\ \A text \in RepoTexts : \A n \in DOMAIN text.lines :
          /\ text.lines[n].to <= text.lines[n].bytes
          /\ Matching(text.lines[n]) => text.grams
    /\ RepoMaxResults \in Nat \ {0} /\ RepoMaxFileBytes \in Nat
    /\ SnippetBytes \in Nat \ {0} /\ ContextLines \in Nat
    /\ ReadRequests \subseteq [start : Nat, end : Nat, max : Nat]
    /\ ReadDefault \in Nat \ {0} /\ ReadMargin \in Nat /\ ReadBuffer \in Nat \ {0}
    /\ NoteResources \in Seq(ToSet(NoteResources)) /\ KeyFiles \in Seq(RepoPaths)
    /\ PageSize \in Nat \ {0}

RepoToolsInit ==
    /\ rtFile \in [RepoPaths -> [text : RepoTexts, stamp : {1}]]
    /\ rtEntry \in [RepoPaths -> {NoEntry}] /\ rtReading = NoReading
    /\ rtNotes = ToSet(NoteResources)
    /\ rtCall = NoRepoCall /\ rtPage = NoPaging /\ rtEdits = 0

-----------------------------------------------------------------------------
(* The tree, the notes and the index                                        *)

Disturbed == [rtPage EXCEPT !.same = @ /\ rtPage.pc = "idle"]
RepoEdit(f, text) ==
    /\ rtEdits < MaxRepoEdits /\ rtEdits' = rtEdits + 1 /\ text # rtFile[f].text
    /\ rtFile' = [rtFile EXCEPT ![f] = [text |-> text, stamp |-> rtEdits + 2]]
    /\ rtPage' = Disturbed
    /\ UNCHANGED <<rtEntry, rtReading, rtNotes, rtCall>>
NotesChange(k) ==
    /\ rtEdits < MaxRepoEdits /\ rtEdits' = rtEdits + 1
    /\ rtNotes' = IF k \in rtNotes THEN rtNotes \ {k} ELSE rtNotes \union {k}
    /\ rtPage' = Disturbed
    /\ UNCHANGED <<rtFile, rtEntry, rtReading, rtCall>>

\* indexOne: a read that the file did not change under, stored later with the
\* trigrams of its chunks under one lock.
IndexerReads(f) ==
    /\ rtReading = NoReading /\ rtFile[f].text # GoneText /\ f \notin RepoIgnored
    /\ rtFile[f].stamp # rtEntry[f].stamp
    /\ rtReading' = [path |-> f, entry |-> [stamp |-> rtFile[f].stamp,
                       grams |-> rtFile[f].text.grams, ready |-> TRUE]]
    /\ UNCHANGED <<rtFile, rtEntry, rtNotes, rtCall, rtPage, rtEdits>>
IndexerStores ==
    /\ rtReading # NoReading
    /\ rtEntry' = [rtEntry EXCEPT ![rtReading.path] = rtReading.entry]
    /\ rtReading' = NoReading
    /\ UNCHANGED <<rtFile, rtNotes, rtCall, rtPage, rtEdits>>

-----------------------------------------------------------------------------
(* repo_search and repo_list_files                                          *)

\* Faulty variant: the file is not compared with its entry.
MayContainByName(known, f, stamp) == known[f].ready => known[f].grams

\* SubstringCandidateSnapshot.MayContain: a file the index does not know as it is
\* now stays eligible.
MayContain(known, f, stamp) ==
    (known[f].ready /\ known[f].stamp = stamp) => known[f].grams

\* Calls change nothing another call reads: one at a time shows what they answer.
\* A regular expression, or a query of less than three bytes, has no prefilter.
RepoAsked(kind, files, prefilter) ==
    /\ rtCall.pc = "idle" /\ rtPage = NoPaging
    /\ rtCall' = [NoRepoCall EXCEPT !.pc = "walk", !.kind = kind, !.files = files,
                    !.prefilter = prefilter, !.known = rtEntry, !.at = rtFile]
    /\ UNCHANGED <<rtFile, rtEntry, rtReading, rtNotes, rtPage, rtEdits>>

\* Lines of context: those before line n that do not match, back to the last match.
ContextFrom(lines, n) ==
    LET before == {i \in 1..(n - 1) : /\ n - i <= ContextLines
                                      /\ \A j \in i..(n - 1) : ~Matching(lines[j])}
    IN  Min(before \union {n})
Found(f, lines, n) ==
    LET prefix == LineBytes(lines, ContextFrom(lines, n)..(n - 1))
        size == prefix + lines[n].bytes
        from == prefix + lines[n].from
        to == prefix + lines[n].to
        whole == [start |-> 0, end |-> size, cut |-> FALSE, bytes |-> size]
        shown == IF size <= SnippetBytes THEN whole
                 ELSE Snippet(size, 0..size, from, to, SnippetBytes)
    IN  [path |-> f, line |-> n, bytes |-> shown.bytes,
         shows |-> shown.start <= from /\ to <= shown.end /\ ~shown.cut]
FoundIn(f, text) ==
    LET lines == text.lines
        hits == Within([n \in DOMAIN lines |-> n], {n \in DOMAIN lines : Matching(lines[n])})
    IN  [i \in DOMAIN hits |-> Found(f, lines, hits[i])]

Walked(found) ==
    LET all == rtCall.found \o found
        kept == SubSeq(all, 1, Least(Len(all), RepoMaxResults))
        over == Len(kept) = RepoMaxResults \/ rtCall.next = Len(RepoFiles)
    IN  rtCall' = [rtCall EXCEPT !.found = kept, !.next = @ + 1,
                     !.pc = IF over THEN "answered" ELSE "walk"]
ToWalk(f) == f \in rtCall.files \ RepoIgnored /\ rtFile[f].text # GoneText

ListVisits ==
    LET f == RepoFiles[rtCall.next]
    IN  /\ rtCall.pc = "walk" /\ rtCall.kind = "list"
        /\ Walked(IF ToWalk(f) THEN <<[path |-> f]>> ELSE <<>>)
    /\ UNCHANGED <<rtFile, rtEntry, rtReading, rtNotes, rtPage, rtEdits>>

\* The file is opened and its size and time compared; it is read afterwards.
SearchStats ==
    LET f == RepoFiles[rtCall.next]
    IN  /\ rtCall.pc = "walk" /\ rtCall.kind = "search"
        /\ IF /\ ToWalk(f) /\ TextBytes(rtFile[f].text) <= RepoMaxFileBytes
              /\ rtCall.prefilter => MayContain(rtCall.known, f, rtFile[f].stamp)
           THEN rtCall' = [rtCall EXCEPT !.pc = "read"]
           ELSE Walked(<<>>)
    /\ UNCHANGED <<rtFile, rtEntry, rtReading, rtNotes, rtPage, rtEdits>>
SearchReads ==
    LET f == RepoFiles[rtCall.next]
        text == rtFile[f].text
    IN  /\ rtCall.pc = "read"
        /\ Walked(IF TextBytes(text) > RepoMaxFileBytes THEN <<>> ELSE FoundIn(f, text))
    /\ UNCHANGED <<rtFile, rtEntry, rtReading, rtNotes, rtPage, rtEdits>>

-----------------------------------------------------------------------------
(* repo_read_file                                                           *)

\* readFileContent reads a buffer at a time and takes it apart at the ends of lines.
LineEnd(lines, n) == LineBytes(lines, 1..n)
LineAt(lines, offset) == Min({n \in DOMAIN lines : offset <= LineEnd(lines, n)})
Cuts(lines) ==
    LET size == LineEnd(lines, Len(lines))
    IN  Within([b \in 1..size |-> b], {LineEnd(lines, n) : n \in DOMAIN lines}
                                      \union {b \in 1..size : b % ReadBuffer = 0})
Segments(lines) ==
    LET cuts == Cuts(lines)
    IN  [i \in DOMAIN cuts |->
            [line |-> LineAt(lines, cuts[i]), bytes |-> cuts[i] - IF i = 1 THEN 0 ELSE cuts[i - 1]]]

\* A line before the range is passed over; one after it, or a full answer, ends the loop.
SegmentRead(range, most, read, seg) ==
    IF read.over \/ (range.end > 0 /\ seg.line > range.end) \/ read.bytes >= most
      THEN [read EXCEPT !.over = TRUE]
    ELSE IF seg.line < range.start THEN read
    ELSE IF seg.bytes > most - read.bytes THEN [bytes |-> most, over |-> TRUE]
    ELSE [read EXCEPT !.bytes = @ + seg.bytes]

SegmentsRead(range, most, segments) ==
    FoldLeft(LAMBDA read, seg : SegmentRead(range, most, read, seg),
             [bytes |-> 0, over |-> FALSE], segments)

\* More is read than is returned: what is redacted at the cut must be seen whole.
BytesRead(range, lines) ==
    LET max == IF range.max = 0 THEN ReadDefault ELSE range.max
    IN  Least(SegmentsRead(range, max + ReadMargin, Segments(lines)).bytes, max)

\* An ignored path and a file that is not there are refused.
ReadFile(f, range) ==
    /\ rtCall.pc = "idle" /\ rtPage = NoPaging /\ f \notin RepoIgnored
    /\ rtFile[f].text # GoneText
    /\ rtCall' = [NoRepoCall EXCEPT
                    !.pc = "answered", !.kind = "read", !.range = range, !.at = rtFile,
                    !.found = <<[path |-> f, bytes |-> BytesRead(range, rtFile[f].text.lines)]>>]
    /\ UNCHANGED <<rtFile, rtEntry, rtReading, rtNotes, rtPage, rtEdits>>

-----------------------------------------------------------------------------
(* resources/list                                                           *)

Resources ==
    Within(NoteResources, rtNotes) \o
    Within(KeyFiles, {f \in RepoPaths \ RepoIgnored : rtFile[f].text # GoneText})

\* The cursor is an offset into the list as it is when the page is asked for; one
\* beyond its end is refused.
PageAsked ==
    /\ IF rtPage.offset > Len(Resources)
       THEN rtPage' = NoPaging
       ELSE LET end == Least(rtPage.offset + PageSize, Len(Resources))
                more == end < Len(Resources)
            IN  rtPage' = [pc |-> IF more THEN "paging" ELSE "listed", same |-> rtPage.same,
                           offset |-> IF more THEN end ELSE 0,
                           got |-> rtPage.got \o SubSeq(Resources, rtPage.offset + 1, end)]
    /\ rtPage.pc # "listed" /\ rtCall.pc = "idle"
    /\ UNCHANGED <<rtFile, rtEntry, rtReading, rtNotes, rtCall, rtEdits>>
AnswerTaken ==
    /\ rtPage.pc = "listed" \/ rtCall.pc = "answered"
    /\ rtPage' = NoPaging /\ rtCall' = NoRepoCall
    /\ UNCHANGED <<rtFile, rtEntry, rtReading, rtNotes, rtEdits>>

RepoToolsNext ==
    \/ \E f \in RepoPaths : (\E t \in RepoTexts \union {GoneText} : RepoEdit(f, t)) \/ IndexerReads(f)
    \/ \E k \in ToSet(NoteResources) : NotesChange(k)
    \/ \E kind \in {"search", "list"}, files \in RepoGlobs, p \in BOOLEAN : RepoAsked(kind, files, p)
    \/ \E f \in RepoPaths, range \in ReadRequests : ReadFile(f, range)
    \/ IndexerStores \/ ListVisits \/ SearchStats \/ SearchReads
    \/ PageAsked \/ AnswerTaken
RepoToolsSpec == RepoToolsInit /\ [][RepoToolsNext]_rtVars

-----------------------------------------------------------------------------
(* Properties                                                               *)

\* f has not changed since the call began, and the call looks at it.
Kept(f) == ToWalk(f) /\ rtFile[f] = rtCall.at[f]
Answered(kind) ==
    rtCall.pc = "answered" /\ rtCall.kind = kind /\ Len(rtCall.found) < RepoMaxResults

\* Unless a search stops at maxResults, it reports every matching line of every
\* file that kept its content during the call and is small enough, whatever the
\* index last knew of the file, and the snippet shows a match that fits into it
\* between two markers.
SearchFindsAndShows ==
    Answered("search") =>
        \A f \in RepoPaths :
            LET text == rtFile[f].text
                Fits(line) == line.to - line.from <= SnippetBytes - 2 * Marker
            IN  Kept(f) /\ TextBytes(text) <= RepoMaxFileBytes =>
                \A n \in DOMAIN text.lines : Matching(text.lines[n]) =>
                    \E m \in ToSet(rtCall.found) :
                        m.path = f /\ m.line = n /\ (Fits(text.lines[n]) => m.shows)
ListNamesAll ==
    Answered("list") => \A f \in RepoPaths : Kept(f) => [path |-> f] \in ToSet(rtCall.found)
ReadIsWhole ==
    Answered("read") =>
        \A m \in ToSet(rtCall.found) :
            LET lines == rtFile[m.path].text.lines
                range == rtCall.range
                asked == {n \in DOMAIN lines : range.start <= n /\ (range.end = 0 \/ n <= range.end)}
            IN  Kept(m.path) =>
                m.bytes = Least(LineBytes(lines, asked), IF range.max = 0 THEN ReadDefault ELSE range.max)
PagesAreWhole ==
    rtPage.pc = "listed" /\ rtPage.same => rtPage.got = Resources

\* What a walk or a listing answers is whole for everything that stayed as it was
\* while it ran: a search finds and shows every match, a list names every file, a read
\* has the lines asked for up to its limit, the pages hold every resource once.
AnswersAreWhole == SearchFindsAndShows /\ ListNamesAll /\ ReadIsWhole /\ PagesAreWhole
=============================================================================
