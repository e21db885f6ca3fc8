----------------------------- MODULE OutputLimits -----------------------------
(***************************************************************************)
(* Cutting text to a number of bytes and counting it against a budget        *)
(* (internal/mcp/output_limits.go, token_budget.go).  A text is its length    *)
(* in bytes and the set of offsets where a character may end; "..." is three  *)
(* bytes.                                                                    *)
(***************************************************************************)
EXTENDS Integers, FiniteSetsExt

Marker == 3
Least(a, b) == IF a < b THEN a ELSE b
Most(a, b) == IF a < b THEN b ELSE a

-----------------------------------------------------------------------------
(* Budgets                                                                  *)

Tokens(bytes) == (bytes + 3) \div 4         \* estimateTokens
Exceeds(used, more, most) == most > 0 /\ more > most - used
NewBudget(tokens, bytes) == [maxTokens |-> tokens, maxBytes |-> bytes,
                             tokens |-> 0, bytes |-> 0, clamped |-> FALSE]
Affords(budget, bytes) ==
    /\ ~Exceeds(budget.tokens, Tokens(bytes), budget.maxTokens)
    /\ ~Exceeds(budget.bytes, bytes, budget.maxBytes)
Spent(budget, bytes) ==                     \* tryAdd
    IF Affords(budget, bytes)
    THEN [budget EXCEPT !.tokens = @ + Tokens(bytes), !.bytes = @ + bytes]
    ELSE [budget EXCEPT !.clamped = TRUE]

\* compareSignalDensity(a, b) > 0 for [signal, bytes]: the signal per token,
\* then the signal, then the shorter.
Denser(a, b) ==
    LET ta == Most(1, Tokens(a.bytes))
        tb == Most(1, Tokens(b.bytes))
    IN  \/ a.signal * tb > b.signal * ta
        \/ a.signal * tb = b.signal * ta /\ a.signal > b.signal
        \/ a.signal * tb = b.signal * ta /\ a.signal = b.signal /\ ta < tb

-----------------------------------------------------------------------------
(* Truncation                                                               *)

AtOrBefore(bounds, offset) == Max({b \in bounds : b <= offset} \union {0})
AtOrAfter(size, bounds, offset) == Min({b \in bounds : b >= offset} \union {size})

\* truncateStringBytes: the bytes that are left.
TruncatedSize(size, bounds, most) ==
    IF most <= 0 \/ size <= most THEN size
    ELSE IF most <= Marker THEN most
    ELSE AtOrBefore(bounds, most - Marker) + Marker

\* truncationWindow: room bytes around the match [from, to).
Window(size, from, to, room) ==
    IF room <= 0 \/ size <= 0 THEN [start |-> 0, end |-> 0]
    ELSE IF room >= size THEN [start |-> 0, end |-> size]
    ELSE IF to - from >= room
         THEN LET end == Least(from + room, size)
              IN  [start |-> IF from + room > size THEN size - room ELSE from, end |-> end]
    ELSE LET centered == Most(0, from - (room - (to - from)) \div 2)
             end == Most(to, centered + room)
             start == IF centered + room < to THEN end - room ELSE centered
         IN  IF end > size THEN [start |-> Most(0, size - room), end |-> size]
                           ELSE [start |-> Most(0, start), end |-> end]

\* The window with room for the markers it takes itself; four rounds.
Markers(size, w) == (IF w.start > 0 THEN Marker ELSE 0) + (IF w.end < size THEN Marker ELSE 0)
Again(size, from, to, most, w) == Window(size, from, to, most - Markers(size, w))
SettledWindow(size, from, to, most) ==
    LET first == Window(size, from, to, most - 2 * Marker)
        Next1(w) == Again(size, from, to, most, w)
    IN  Next1(Next1(Next1(Next1(first))))

\* truncateStringAroundBytes for a match of a text that is too long.
Snippet(size, bounds, from, to, most) ==
    LET w == SettledWindow(size, from, to, most)
        start == AtOrAfter(size, bounds, w.start)
        end == Most(start, AtOrBefore(bounds, w.end))
        bytes == end - start + Markers(size, [start |-> start, end |-> end])
    IN  [start |-> start, end |-> end, cut |-> bytes > most,
         bytes |-> IF bytes > most THEN TruncatedSize(bytes, 0..bytes, most) ELSE bytes]
=============================================================================
