------------------------------- MODULE Chunking -------------------------------
(***************************************************************************)
(* Cutting a file into chunks (internal/indexing/chunk.go, syntax_chunk.go).  *)
(* A line is its bytes and its kind; the lexer that masks strings and         *)
(* comments, and the parsers, are abstracted to the kinds of the lines and    *)
(* the lines where declarations start.                                       *)
(***************************************************************************)
EXTENDS Lists

CONSTANTS ChunkInputs,      \* [lines, language, starts, sameLines]
          MaxChunkLines, MaxChunkBytes
\* chunkFileWithSyntaxSource takes its own limits for ones that are not positive.
ASSUME ChunkAssumption ==
    /\ MaxChunkLines \in Nat \ {0} /\ MaxChunkBytes \in Nat \ {0}
    /\ \A file \in ChunkInputs : file.lines \in Seq([bytes : Nat, kind : STRING])

VARIABLES ckFile, ckChunks      \* the file, and its chunks once they are made
ckVars == <<ckFile, ckChunks>>

\* kinds of lines: of JavaScript, "decl" (a declaration or export at the top level),
\* "modifier" (export, async, ... alone), "decorator" (@...), "nested" (inside
\* brackets), "slashes" (// ...), "opens" (/* ...), "closes" (... */), "whole"
\* (/* ... */); of every language, "blank" and "code".
JsTopLevel(line) == line.kind # "nested"

-----------------------------------------------------------------------------
(* Where the chunks may start                                               *)

\* leadingJSCommentBoundary: the comment that ends on the line above belongs to what
\* follows.  A line after a boundary b is line b + 1; the result is a boundary.
LeadingComment(lines, b) ==
    LET Kind(i) == lines[i].kind
        slashes == {i \in 1..b : \A j \in i..b : Kind(j) = "slashes"}
        opener == {i \in 1..b : /\ Kind(i) \in {"opens", "whole"}
                                /\ \A j \in (i + 1)..b : Kind(j) \notin {"opens", "whole", "blank"}}
    IN  IF b = 0 THEN b
        ELSE IF Kind(b) = "slashes" THEN Min(slashes) - 1
        ELSE IF Kind(b) \in {"closes", "whole"} /\ opener # {} THEN Max(opener) - 1
        ELSE b

\* leadingJSChunkBoundary: modifiers, decorators (with the bracketed lines under
\* them) and comments above a declaration, until there are no more.
LeadingModifiers(lines, b) ==
    Min({i \in 0..b : \A j \in (i + 1)..b : lines[j].kind = "modifier"})
\* The loops go up until nothing moves any more.
Settled(up, b) == LET end[n \in DOMAIN up] == IF up[n] = n THEN n ELSE end[up[n]] IN end[b]
DecoratorAbove(lines, b) ==
    LET top == {i \in 1..b : JsTopLevel(lines[i])}
    IN  IF top # {} /\ lines[Max(top)].kind = "decorator" THEN Max(top) - 1 ELSE b
LeadingDecorators(lines, b) == Settled([n \in 0..b |-> DecoratorAbove(lines, n)], b)
LeadingLines(lines, b) == LeadingComment(lines, LeadingDecorators(lines, LeadingModifiers(lines, b)))
JsBoundary(lines, declaration) ==
    Settled([b \in 0..Len(lines) |-> LeadingLines(lines, b)], declaration - 1) + 1
JsStarts(lines) ==
    {JsBoundary(lines, n) : n \in {i \in DOMAIN lines : lines[i].kind = "decl"}}

-----------------------------------------------------------------------------
(* Chunks                                                                   *)

RangeBytes(lines, from, to) == SumFunction([n \in from..to |-> lines[n].bytes + 1])

\* makeChunk: nothing of blank lines alone.
MakeChunk(lines, from, to) ==
    IF \A i \in from..to : lines[i].kind = "blank" THEN <<>>
    ELSE <<[startLine |-> from, endLine |-> to]>>

\* chunkLineRange: a chunk ends before the line that would not fit.
LineTaken(lines, acc, n) ==
    IF n > acc.start /\ \/ n - acc.start >= MaxChunkLines
                        \/ acc.bytes + lines[n].bytes + 1 > MaxChunkBytes
    THEN [start |-> n, bytes |-> lines[n].bytes + 1,
          chunks |-> acc.chunks \o MakeChunk(lines, acc.start, n - 1)]
    ELSE [acc EXCEPT !.bytes = @ + lines[n].bytes + 1]
LinesTaken(lines, from, numbers) ==
    FoldLeft(LAMBDA acc, n : LineTaken(lines, acc, n),
             [start |-> from, bytes |-> 0, chunks |-> <<>>], numbers)
LineRange(lines, from, to) ==
    LET end == LinesTaken(lines, from, [i \in 1..(to - from + 1) |-> from + i - 1])
    IN  end.chunks \o MakeChunk(lines, end.start, to)

\* normalizedChunkStarts, and the first line.
Units(lines, starts) ==
    LET first == Within([n \in DOMAIN lines |-> n], starts \union {1})
    IN  [i \in DOMAIN first |->
            [from |-> first[i],
             to |-> IF i < Len(first) THEN first[i + 1] - 1 ELSE Len(lines)]]

\* chunkStructuralRanges: units are packed together while they fit; one too large is
\* cut by lines.  current: the lines gathered, start 0 when there are none.
EmptyPack == [start |-> 0, end |-> 0, bytes |-> 0, chunks |-> <<>>]
Flushed(lines, pack) ==
    IF pack.start = 0 THEN pack
    ELSE [EmptyPack EXCEPT !.chunks = pack.chunks \o MakeChunk(lines, pack.start, pack.end)]

\* Faulty variant: what was gathered before a unit that is too large stays open.
PackOpen(lines, pack, unit) ==
    LET bytes == RangeBytes(lines, unit.from, unit.to)
        full == \/ unit.to - pack.start + 1 > MaxChunkLines
                \/ pack.bytes + bytes > MaxChunkBytes
        open == IF pack.start # 0 /\ full THEN Flushed(lines, pack) ELSE pack
    IN  IF unit.to - unit.from + 1 > MaxChunkLines \/ bytes > MaxChunkBytes
        THEN [pack EXCEPT !.chunks = @ \o LineRange(lines, unit.from, unit.to)]
        ELSE [open EXCEPT !.start = IF @ = 0 THEN unit.from ELSE @, !.end = unit.to,
                          !.bytes = @ + bytes]

Pack(lines, pack, unit) ==
    LET bytes == RangeBytes(lines, unit.from, unit.to)
        full == \/ unit.to - pack.start + 1 > MaxChunkLines
                \/ pack.bytes + bytes > MaxChunkBytes
        open == IF pack.start # 0 /\ full THEN Flushed(lines, pack) ELSE pack
    IN  IF unit.to - unit.from + 1 > MaxChunkLines \/ bytes > MaxChunkBytes
        THEN [Flushed(lines, pack) EXCEPT !.chunks = @ \o LineRange(lines, unit.from, unit.to)]
        ELSE [open EXCEPT !.start = IF @ = 0 THEN unit.from ELSE @, !.end = unit.to,
                          !.bytes = @ + bytes]
UnitsPacked(lines, units) == FoldLeft(LAMBDA pack, u : Pack(lines, pack, u), EmptyPack, units)
StructuralRanges(lines, starts) == Flushed(lines, UnitsPacked(lines, Units(lines, starts))).chunks

\* chunkDeclarationRanges: every PHP declaration or member by itself.
DeclarationAdded(lines, chunks, unit) == chunks \o LineRange(lines, unit.from, unit.to)
DeclarationsAdded(lines, units) ==
    FoldLeft(LAMBDA chunks, u : DeclarationAdded(lines, chunks, u), <<>>, units)
DeclarationRanges(lines, starts) == DeclarationsAdded(lines, Units(lines, starts))

\* chunkFileWithSyntaxSource: by lines when redaction changed their number, or when
\* the language has no boundaries or none were found.
ChunkFile(file) ==
    LET lines == file.lines
        starts == CASE file.language = "js" -> JsStarts(lines)
                    [] file.language \in {"go", "php"} -> file.starts
                    [] OTHER -> {}
    IN  IF lines = <<>> THEN <<>>
        ELSE IF ~file.sameLines \/ starts = {} THEN LineRange(lines, 1, Len(lines))
        ELSE IF file.language = "php" THEN DeclarationRanges(lines, starts)
        ELSE StructuralRanges(lines, starts)

\* A file that is not chunked yet: no chunk starts at line 0.
NotChunked == <<[startLine |-> 0, endLine |-> 0]>>
ChunkingInit == ckFile \in ChunkInputs /\ ckChunks = NotChunked
FileChunked ==
    /\ ckChunks = NotChunked /\ ckChunks' = ChunkFile(ckFile)
    /\ UNCHANGED ckFile
ChunkingNext == FileChunked
ChunkingSpec == ChunkingInit /\ [][ChunkingNext]_ckVars

-----------------------------------------------------------------------------
(* Properties                                                               *)

\* The chunks of a file are in order and do not overlap, hold every line that is not
\* blank, and keep both limits unless they are one line; and a JavaScript comment
\* stays with the declaration under it while the two fit into a chunk.
ChunksCoverFile ==
    ckChunks # NotChunked =>
        LET lines == ckFile.lines
            In(n) == {i \in DOMAIN ckChunks : n \in ckChunks[i].startLine..ckChunks[i].endLine}
        IN  /\ \A n \in DOMAIN lines : lines[n].kind # "blank" => \E i \in DOMAIN ckChunks : In(n) = {i}
            /\ \A i \in DOMAIN ckChunks :
                LET c == ckChunks[i]
                IN  /\ c.startLine \in DOMAIN lines /\ c.endLine \in c.startLine..Len(lines)
                    /\ i > 1 => ckChunks[i - 1].endLine < c.startLine
                    /\ c.startLine < c.endLine =>
                        /\ c.endLine - c.startLine < MaxChunkLines
                        /\ RangeBytes(lines, c.startLine, c.endLine) <= MaxChunkBytes
            /\ (ckFile.language = "js" /\ ckFile.sameLines) =>
                \A n \in 2..Len(lines) :
                    /\ lines[n].kind = "decl" /\ lines[n - 1].kind \in {"slashes", "whole"}
                    /\ \E u \in ToSet(Units(lines, JsStarts(lines))) :
                        /\ n \in u.from..u.to /\ u.to - u.from < MaxChunkLines
                        /\ RangeBytes(lines, u.from, u.to) <= MaxChunkBytes
                    => In(n) = In(n - 1)
=============================================================================
