------------------------------ MODULE RangeRead ------------------------------
(***************************************************************************)
(* readFileInRange of agent-lite-tools/file: the lines of a range of a     *)
(* file, read at once when the file is small and in chunks when it is not. *)
(* A text is a sequence of characters of one byte each: "n" is a newline,  *)
(* "r" a carriage return, "B" a byte order mark, "a" any other character.  *)
(* StringDecoder keeps characters of several bytes whole (external).       *)
(***************************************************************************)
EXTENDS Naturals, Sequences, SequencesExt, FiniteSets

WithoutBom(text) == IF text # <<>> /\ Head(text) = "B" THEN Tail(text) ELSE text

\* The pieces between newlines: one more than there are newlines.
Pieces(text) ==
    LET Add(pieces, c) ==
            IF c = "n" THEN Append(pieces, <<>>)
            ELSE [pieces EXCEPT ![Len(pieces)] = Append(@, c)]
    IN FoldLeft(Add, <<<<>>>>, text)

WithoutCr(line) ==
    IF line # <<>> /\ line[Len(line)] = "r" THEN Front(line) ELSE line

\* Joined with newlines.
Size(lines) ==
    FoldLeft(LAMBDA n, line : n + Len(line), 0, lines)
        + (IF lines = <<>> THEN 0 ELSE Len(lines) - 1)

\* A request: a first line, a number of lines, a byte limit, and whether the
\* result may be cut off at the limit.  endLine is the first line too many.
EndLine(request) == request.offset + request.lines
Limited(request) == request.cut

------------------------------------------------------------------------------
\* readFileInRangeFast: the lines of the range, and of those the longest
\* prefix within the limit.
FastRead(text, request) ==
    LET pieces == Pieces(WithoutBom(text))
        last   == IF EndLine(request) < Len(pieces) THEN EndLine(request)
                                                    ELSE Len(pieces)
        range  == [i \in 1..(IF request.offset < last THEN last - request.offset ELSE 0)
                     |-> WithoutCr(pieces[request.offset + i])]
        fits   == {n \in 0..Len(range) :
                     Limited(request) => Size(SubSeq(range, 1, n)) <= request.bytes}
        kept   == SubSeq(range, 1, CHOOSE n \in fits : \A m \in fits : m <= n)
    IN IF ~Limited(request) /\ Len(text) > request.bytes
       THEN [kind |-> "too_large", lines |-> <<>>, total |-> 0, truncated |-> FALSE]
       ELSE [kind |-> "read", lines |-> kept, total |-> Len(pieces),
             truncated |-> kept # range]

------------------------------------------------------------------------------
\* StreamState.
StreamStart(request) ==
    [first |-> TRUE, at |-> 0, end |-> EndLine(request), lines |-> <<>>,
     partial |-> <<>>, truncated |-> FALSE, read |-> 0, failed |-> FALSE]

InRange(s, request) == s.at >= request.offset /\ s.at < s.end

Fits(s, line, request) ==
    Limited(request) => Size(Append(s.lines, line)) <= request.bytes

\* One complete line; the first that does not fit ends the selection.
StreamLine(s, line, request) ==
    LET t == IF ~InRange(s, request) THEN s
             ELSE IF Fits(s, line, request)
                  THEN [s EXCEPT !.lines = Append(@, line)]
                  ELSE [s EXCEPT !.truncated = TRUE, !.end = s.at]
    IN [t EXCEPT !.at = @ + 1]

\* Mutant of StreamFragment: a chunk is taken to end with its last newline.
StreamFragmentDropped(s, fragment, request) == s

\* What follows the last newline waits for the next chunk, unless it is
\* outside the range or too long already, its carriage return included.
StreamFragment(s, fragment, request) ==
    IF fragment = <<>> \/ ~InRange(s, request) THEN s
    ELSE IF Fits(s, fragment, request) THEN [s EXCEPT !.partial = fragment]
         ELSE [s EXCEPT !.truncated = TRUE, !.end = s.at]

\* streamOnData.
StreamData(s, chunk, request) ==
    LET text   == IF s.first THEN WithoutBom(chunk) ELSE chunk
        read   == s.read + Len(text)
        pieces == Pieces(s.partial \o text)
        begun  == [s EXCEPT !.first = FALSE, !.read = read, !.partial = <<>>]
        lined  == FoldLeft(LAMBDA t, line : StreamLine(t, WithoutCr(line), request),
                           begun, Front(pieces))
    IN IF s.failed \/ (~Limited(request) /\ read > request.bytes)
       THEN [s EXCEPT !.failed = TRUE]
       ELSE StreamFragment(lined, Last(pieces), request)

\* streamOnEnd: what is left over is the last line.
StreamResult(s, request) ==
    LET t == StreamLine(s, WithoutCr(s.partial), request)
    IN IF s.failed
       THEN [kind |-> "too_large", lines |-> <<>>, total |-> 0, truncated |-> FALSE]
       ELSE [kind |-> "read", lines |-> t.lines, total |-> t.at,
             truncated |-> t.truncated]

StreamRead(chunks, request) ==
    StreamResult(FoldLeft(LAMBDA s, chunk : StreamData(s, chunk, request),
                          StreamStart(request), chunks), request)

------------------------------------------------------------------------------
\* A chunk that ends between a carriage return and its newline, or with the
\* carriage return that ends the file.
SplitsLineEnd(chunks) ==
    \E i \in DOMAIN chunks :
        /\ chunks[i][Len(chunks[i])] = "r"
        /\ i = Len(chunks) \/ Head(chunks[i + 1]) = "n"

\* The chunks a large file happens to arrive in are invisible: whatever they
\* are, the streamed result is that of reading the text at once, with the
\* same lines, number of lines, limit and truncation.  In one place it is
\* not, and the result says so: a line that fits only without the carriage
\* return a chunk ends in is left out, and the result is marked truncated
\* (read-file-in-range.ts:77-157 against 195-304).
ChunksAreInvisible(chunks, request) ==
    LET streamed == StreamRead(chunks, request)
        whole    == FastRead(FlattenSeq(chunks), request)
    IN \/ streamed = whole
       \/ /\ whole.kind = "too_large" /\ Head(Head(chunks)) = "B"
       \/ /\ Limited(request) /\ SplitsLineEnd(chunks)
          /\ streamed.truncated
          /\ IsPrefix(streamed.lines, whole.lines)
          /\ streamed.total = whole.total
==============================================================================
