----------------------------- MODULE JsonlReader -----------------------------
(***************************************************************************)
(* JsonlReader of packages/observability: the lines of a file, read in     *)
(* chunks from either end.  A file is a sequence of bytes, of which only   *)
(* the newline, a blank and a byte that makes a line malformed are told    *)
(* from the rest.                                                          *)
(***************************************************************************)
EXTENDS Naturals, Sequences, SequencesExt

NEWLINE == "newline"
Blank == "blank"
Bad == "bad"

newlineIndexes(buffer) == {i \in DOMAIN buffer : buffer[i] = NEWLINE}

\* emit(): [start, end) of a buffer, unless nothing is left of it when trimmed.
emit(buffer, start, end) ==
    LET line == SubSeq(buffer, start, end - 1) IN
    IF \A i \in DOMAIN line : line[i] = Blank THEN <<>> ELSE <<line>>

\* The lines between the newlines of a buffer, oldest first, from start on.
RECURSIVE Complete(_, _)
Complete(buffer, start) ==
    LET breaks == {i \in newlineIndexes(buffer) : i >= start} IN
    IF breaks = {} THEN <<>>
    ELSE emit(buffer, start, Min(breaks)) \o Complete(buffer, Min(breaks) + 1)

\* forEachLine(): what follows the last newline of a chunk is carried to the next.
RECURSIVE forward(_, _, _, _)
forward(file, chunk, offset, carry) ==
    IF offset >= Len(file) THEN emit(carry, 1, Len(carry) + 1)
    ELSE LET end == IF offset + chunk > Len(file) THEN Len(file) ELSE offset + chunk
             combined == carry \o SubSeq(file, offset + 1, end)
             start == IF newlineIndexes(combined) = {} THEN 1 ELSE Max(newlineIndexes(combined)) + 1
         IN Complete(combined, 1) \o forward(file, chunk, end, SubSeq(combined, start, Len(combined)))
forEachLine(file, chunk) == forward(file, chunk, 0, <<>>)

\* forEachLineReverse(): what precedes the first newline of a chunk is carried to
\* the chunk before it.
carryNothing(combined) == <<>>
carried(combined) ==
    IF newlineIndexes(combined) = {} THEN combined
    ELSE SubSeq(combined, 1, Min(newlineIndexes(combined)) - 1)
RECURSIVE backward(_, _, _, _)
backward(file, chunk, remaining, carry) ==
    IF remaining = 0 THEN emit(carry, 1, Len(carry) + 1)
    ELSE LET start == IF chunk > remaining THEN 0 ELSE remaining - chunk
             combined == SubSeq(file, start + 1, remaining) \o carry
             breaks == newlineIndexes(combined)
             lines == IF breaks = {} THEN <<>>
                      ELSE Complete(combined \o <<NEWLINE>>, Min(breaks) + 1)
         IN Reverse(lines) \o backward(file, chunk, start, carried(combined))
forEachLineReverse(file, chunk) == backward(file, chunk, Len(file), <<>>)

\* parse(): malformed lines are skipped, and the limit, which ends the read after
\* an entry was added, keeps those at the end that is read first.
wellFormed(line) == \A i \in DOMAIN line : line[i] # Bad
parse(file, chunk, limit, newestFirst) ==
    LET lines == IF newestFirst THEN forEachLineReverse(file, chunk) ELSE forEachLine(file, chunk)
        entries == SelectSeq(lines, wellFormed)
        kept == SubSeq(entries, 1, IF limit < Len(entries) THEN limit ELSE Len(entries))
    IN IF newestFirst THEN Reverse(kept) ELSE kept

-----------------------------------------------------------------------------
\* The reference: the file split at its newlines.
Lines(file) == Complete(Append(file, NEWLINE), 1)

\* Wherever the chunks end, the lines are those between the newlines, from either
\* end, and a limit of one or more keeps the first or the last entries in the
\* order of the file.
ReadsEveryLine(file, chunk, limit) ==
    LET entries == SelectSeq(Lines(file), wellFormed)
        n == IF limit < Len(entries) THEN limit ELSE Len(entries)
    IN
    /\ forEachLine(file, chunk) = Lines(file)
    /\ forEachLineReverse(file, chunk) = Reverse(Lines(file))
    /\ parse(file, chunk, limit, FALSE) = SubSeq(entries, 1, n)
    /\ parse(file, chunk, limit, TRUE) = SubSeq(entries, Len(entries) - n + 1, Len(entries))
=============================================================================
