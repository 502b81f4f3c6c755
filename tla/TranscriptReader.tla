-------------------------- MODULE TranscriptReader --------------------------
(***************************************************************************)
(* How one session's transcript is read: TranscriptReader.read of          *)
(* state.py, called on every poll by the watcher thread and, while no      *)
(* picture has been published yet, by HTTP handler threads as well.        *)
(*                                                                         *)
(* The transcript is a sequence of pieces.  Claude Code writes a line in   *)
(* two pieces, the second of which carries the newline, so that a reader   *)
(* can meet half a line.  A byte offset of the code is a number of pieces  *)
(* here.  `consumed' stands for everything the reader replays into (tasks, *)
(* events, open questions...): the lines handed to _consume since the last *)
(* reset, in order.                                                        *)
(***************************************************************************)
EXTENDS Integers, Sequences

CONSTANTS Entries,      \* what a line can say
          Poison,       \* the entries whose handling raises an exception
          Undecodable,  \* the entries holding a byte that is not UTF-8
          Watcher,      \* the thread of server.watch
          Handlers,     \* HTTP handler threads asking for /api/state or /events
          Rewrites,     \* "none", "noticed" or "any": see MayRewrite
          MaxLines,     \* bound: lines in the file
          MaxRewrites   \* bound: rewrites and removals of the file

Threads == Handlers \cup {Watcher}
Piece == [e : Entries, end : BOOLEAN]
MaxPieces == 2 * MaxLines

ASSUME ReaderAssumption ==
    /\ Poison \subseteq Entries
    /\ Undecodable \subseteq Entries
    /\ Watcher \notin Handlers
    /\ Rewrites \in {"none", "noticed", "any"}
    /\ MaxLines \in Nat
    /\ MaxRewrites \in Nat

VARIABLES file,       \* the transcript on disk
          present,    \* whether it is there
          rewrites,   \* how often it was rewritten or removed
          offset,     \* TranscriptReader.offset
          consumed,   \* the lines replayed since the last reset
          pc, size, pos,  \* per thread: where it is in read(), the size it saw,
                          \* and the position of its file handle
          published   \* whether the watcher has ever finished a build

readerVars == <<file, present, rewrites, offset, consumed, pc, size, pos, published>>

-----------------------------------------------------------------------------
(* Lines of a file *)

HalfWritten(f) == Len(f) > 0 /\ ~f[Len(f)].end
\* The entries of the lines that are complete in f.
Lines(f) == [k \in 1 .. Len(f) \div 2 |-> f[2 * k].e]
\* The file that holds the lines s.
FileOf(s) == [i \in 1 .. 2 * Len(s) |-> [e |-> s[(i + 1) \div 2], end |-> i % 2 = 0]]

\* The line sequences that fit in the bound.
LineSeqs == UNION {[1 .. n -> Entries] : n \in 0 .. MaxLines}

\* Where a newline follows position p.
PiecesAfter(p) == p + 1 .. Len(file)
Newlines(p) == {i \in PiecesAfter(p) : file[i].end}
LineEnd(p) == CHOOSE i \in Newlines(p) : \A j \in Newlines(p) : i <= j
\* A line read from p parses when it was read from its first piece.
Parses(p) == LineEnd(p) = p + 2
\* What the code takes for the line's length: it encodes the decoded text
\* again, and an undecodable byte comes back longer than it was.
CountedLength(p) == LineEnd(p) - p + (IF file[LineEnd(p)].e \in Undecodable THEN 1 ELSE 0)

-----------------------------------------------------------------------------
ReaderTypeOK ==
    /\ file \in Seq(Piece) /\ Len(file) <= MaxPieces
    /\ present \in BOOLEAN
    /\ rewrites \in 0 .. MaxRewrites
    /\ offset \in 0 .. MaxPieces
    /\ consumed \in Seq(Entries) /\ Len(consumed) <= MaxLines
    /\ pc \in [Threads -> {"idle", "stat", "check", "open", "read", "done"}]
    /\ size \in [Threads -> 0 .. MaxPieces]
    /\ pos \in [Threads -> 0 .. MaxPieces]
    /\ published \in BOOLEAN

\* A session's transcript may already be long when the server starts.
ReaderInit ==
    /\ \E s \in LineSeqs : file = FileOf(s)
    /\ present = TRUE
    /\ rewrites = 0
    /\ offset = 0
    /\ consumed = <<>>
    /\ pc = [t \in Threads |-> "idle"]
    /\ size = [t \in Threads |-> 0]
    /\ pos = [t \in Threads |-> 0]
    /\ published = FALSE

-----------------------------------------------------------------------------
(* Claude Code, which writes the transcript *)

\* With "noticed", a file that was cut below what has been read does not grow
\* until a poll has looked at it.
MayGrow == Rewrites = "any" \/ offset <= Len(file)
\* With "noticed", a rewritten file is shorter than what has been read of it.
MayRewrite(n) == Rewrites = "any" \/ (Rewrites = "noticed" /\ (n < offset \/ offset = 0))

WriteHalf(e) ==
    /\ present /\ MayGrow
    /\ ~HalfWritten(file)
    /\ Len(file) + 2 <= MaxPieces
    /\ file' = Append(file, [e |-> e, end |-> FALSE])
    /\ UNCHANGED <<present, rewrites, offset, consumed, pc, size, pos, published>>

WriteRest ==
    /\ present /\ MayGrow
    /\ HalfWritten(file)
    /\ file' = Append(file, [e |-> file[Len(file)].e, end |-> TRUE])
    /\ UNCHANGED <<present, rewrites, offset, consumed, pc, size, pos, published>>

\* The file is truncated to some lines, replaced by another, or written anew.
Rewrite(s) ==
    /\ rewrites < MaxRewrites
    /\ MayRewrite(2 * Len(s))
    /\ file' = FileOf(s)
    /\ present' = TRUE
    /\ rewrites' = rewrites + 1
    /\ UNCHANGED <<offset, consumed, pc, size, pos, published>>

Vanish ==
    /\ present
    /\ rewrites < MaxRewrites
    /\ MayRewrite(0)
    /\ file' = <<>>
    /\ present' = FALSE
    /\ rewrites' = rewrites + 1
    /\ UNCHANGED <<offset, consumed, pc, size, pos, published>>

-----------------------------------------------------------------------------
(* read(), one step per look at the file or at the reader *)

\* The watcher polls for ever; a handler builds a picture of its own only
\* while `_latest["payload"]' is still empty.
Begin(t) ==
    /\ pc[t] = "idle"
    /\ t \in Handlers => ~published
    /\ pc' = [pc EXCEPT ![t] = "stat"]
    /\ UNCHANGED <<file, present, rewrites, offset, consumed, size, pos, published>>

After(t) == IF t = Watcher THEN "idle" ELSE "done"
\* The picture gets built; the watcher publishes the one it built.
Finish(t) ==
    /\ pc' = [pc EXCEPT ![t] = After(t)]
    /\ published' = (published \/ t = Watcher)
\* The exception leaves build(); watch() reports it and polls again.
Fail(t) ==
    /\ pc' = [pc EXCEPT ![t] = After(t)]
    /\ UNCHANGED published

Stat(t) ==
    /\ pc[t] = "stat"
    /\ present
    /\ size' = [size EXCEPT ![t] = Len(file)]
    /\ pc' = [pc EXCEPT ![t] = "check"]
    /\ UNCHANGED <<file, present, rewrites, offset, consumed, pos, published>>

\* stat() raises OSError: what was read stays.
StatMissing(t) ==
    /\ pc[t] = "stat"
    /\ ~present
    /\ Finish(t)
    /\ UNCHANGED <<file, present, rewrites, offset, consumed, size, pos>>

StartOverWhenEqual(t) == size[t] <= offset
StartOverNever(t) == FALSE
StartOver(t) == size[t] < offset

\* reset() forgets everything that was replayed.
Kept(t) == IF StartOver(t) THEN <<>> ELSE consumed

\* `size < offset' resets; `size == offset' returns.
Check(t) ==
    /\ pc[t] = "check"
    /\ offset' = IF StartOver(t) THEN 0 ELSE offset
    /\ consumed' = Kept(t)
    /\ IF size[t] = offset'
       THEN Finish(t)
       ELSE pc' = [pc EXCEPT ![t] = "open"] /\ UNCHANGED published
    /\ UNCHANGED <<file, present, rewrites, size, pos>>

Open(t) ==
    /\ pc[t] = "open"
    /\ present
    /\ pos' = [pos EXCEPT ![t] = offset]
    /\ pc' = [pc EXCEPT ![t] = "read"]
    /\ UNCHANGED <<file, present, rewrites, offset, consumed, size, published>>

OpenMissing(t) ==
    /\ pc[t] = "open"
    /\ ~present
    /\ Fail(t)
    /\ UNCHANGED <<file, present, rewrites, offset, consumed, size, pos>>

\* The next line, when there is a whole one.  The offset moves past it before
\* it is consumed, so a line that raises is not met again.  What is read is the file as
\* it is now: what a buffer or the opened inode has of an older one is left out.
ReadLine(t) ==
    LET p == pos[t] IN
    /\ pc[t] = "read"
    /\ Newlines(p) # {}
    /\ offset' = offset + CountedLength(p)
    /\ pos' = [pos EXCEPT ![t] = LineEnd(p)]
    /\ consumed' = IF Parses(p) THEN Append(consumed, file[LineEnd(p)].e) ELSE consumed
    /\ IF Parses(p) /\ file[LineEnd(p)].e \in Poison
       THEN Fail(t)
       ELSE UNCHANGED <<pc, published>>
    /\ UNCHANGED <<file, present, rewrites, size>>

\* The end of the file, or a half-written line.
EndOfFile(t) ==
    /\ pc[t] = "read"
    /\ Newlines(pos[t]) = {}
    /\ Finish(t)
    /\ UNCHANGED <<file, present, rewrites, offset, consumed, size, pos>>

Step(t) == \/ Begin(t) \/ Stat(t) \/ StatMissing(t) \/ Check(t)
           \/ Open(t) \/ OpenMissing(t) \/ ReadLine(t) \/ EndOfFile(t)

Write == \/ \E e \in Entries : WriteHalf(e)
         \/ WriteRest
         \/ \E s \in LineSeqs : Rewrite(s)
         \/ Vanish

ReaderNext == Write \/ \E t \in Threads : Step(t)

\* watch() loops for ever: `the thread must never die'.
ReaderSpec == ReaderInit /\ [][ReaderNext]_readerVars /\ WF_readerVars(Step(Watcher))

-----------------------------------------------------------------------------
(* Properties *)

\* The file is shorter than what has been read of it.
Shrunk == Len(file) < offset

\* What has been replayed is as many lines as the offset says, and they are the
\* complete lines of the file up to the offset, each once, in order, never half
\* a line - except after the file was cut, until the next poll notices (`read
\* forward from a remembered byte offset', `a half written line is left for
\* next time').
PrefixRead ==
    /\ offset = 2 * Len(consumed)
    /\ \/ Shrunk /\ rewrites > 0
       \/ /\ offset <= Len(file)
          /\ \A k \in 1 .. Len(consumed) : consumed[k] = file[2 * k].e

\* The reader goes back only when the file it reads was cut below the point it
\* had reached: a transcript that only grows is `never re-parsed'.
NeverReparsed == [][offset' < offset => Shrunk /\ rewrites > 0]_readerVars

\* Once the writers stop, the watcher has replayed every complete line of the
\* file that is there - also past lines whose handling raises, and after the
\* file was cut (`a truncated transcript is reread from the top').
CaughtUp == present => consumed = Lines(file)
EventuallyCaughtUp == <>[]CaughtUp
=============================================================================
