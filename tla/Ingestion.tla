----------------------------- MODULE Ingestion -----------------------------
(***************************************************************************)
(* The pipeline fed by log files: ingest/tail.go, the files it reads and   *)
(* whoever writes them.  A server writes a line in one go or in two pieces; *)
(* the tailer's scanner reads what there is, and at the end of the file it *)
(* also returns a line that is not finished.  Then the tailer moves to the *)
(* new end of the file, as it does when it starts, even if that is in the  *)
(* middle of a line.  It blocks while the channel is full, wherever it is, *)
(* and the writer does not wait for it.                                    *)
(*                                                                         *)
(* Parsing is abstracted to whether it yields an event: a whole line does, *)
(* a fragment may.  (Some fragments make the parser panic, which stops the *)
(* process; a behaviour that ends there is a prefix of these.)  A line of  *)
(* more than a megabyte, which ends the tailing, is left out.              *)
(***************************************************************************)
EXTENDS Pipeline

Sets == INSTANCE FiniteSetsExt
Seqs == INSTANCE SequencesExt

CONSTANTS Files,    \* the feeds that are tailed files
          MaxPieces \* bound: pieces of lines written to a file

ASSUME FilesAssumption == Files \subseteq Feeds

VARIABLE tail  \* per file: what was written (history), the part past the read position,
               \* the scanner's buffer and whether it has met the end of the file, the
               \* fragments and lines that became events (history), and the lines that
               \* were being written when the tailer started, or when the scanner met the
               \* end and the tailer has not moved on (history)

ingestionVars == <<vars, tail>>

\* The tailer has just moved to the end of the file, where a line may be half written.
Opened(wrote) ==
    [wrote |-> wrote, ahead |-> <<>>, buf |-> <<>>, eof |-> FALSE, given |-> <<>>,
     exposed |-> {p.line : p \in Elements(wrote)}]

HalfLine == <<[line |-> 1, starts |-> TRUE, ends |-> FALSE]>>

IngestionInit == Init /\ tail \in [Files -> {Opened(<<>>), Opened(HalfLine)}]

Tails(f, t) == tail' = [tail EXCEPT ![f] = t]

-----------------------------------------------------------------------------
\* The writer finishes the line it has begun, or begins the next.
Write(f) ==
    LET t == tail[f]
        open == t.wrote # <<>> /\ ~Seqs!Last(t.wrote).ends
        line == IF t.wrote = <<>> THEN 1 ELSE Seqs!Last(t.wrote).line + (IF open THEN 0 ELSE 1)
    IN \E ends \in IF open THEN {TRUE} ELSE BOOLEAN :
          LET piece == [line |-> line, starts |-> ~open, ends |-> ends]
          IN /\ Len(t.wrote) < MaxPieces
             /\ Tails(f, [t EXCEPT !.wrote = Append(@, piece), !.ahead = Append(@, piece),
                                   !.exposed = IF t.eof THEN @ \cup {line} ELSE @])
             /\ UNCHANGED vars

\* The length of the first line in the scanner's buffer: all of it at the end of the file.
Token(t) ==
    LET ends == {i \in 1 .. Len(t.buf) : t.buf[i].ends}
    IN IF ends # {} THEN Sets!Min(ends) ELSE IF t.eof THEN Len(t.buf) ELSE 0

\* Scan reads on as long as it has no line.
ReadMore(f) ==
    LET t == tail[f]
    IN /\ held[f] = NoEvent
       /\ Token(t) = 0 /\ ~t.eof
       /\ Tails(f, IF t.ahead # <<>>
                   THEN [t EXCEPT !.buf = @ \o t.ahead, !.ahead = <<>>]
                   ELSE [t EXCEPT !.eof = TRUE, !.exposed = @ \cup {p.line : p \in Elements(t.buf)}])
       /\ UNCHANGED vars

Whole(token) == Head(token).starts /\ Seqs!Last(token).ends

\* Scan returns a line, or what there is of it, and the event made of it is sent.
Scan(f) ==
    LET t == tail[f]
        token == SubSeq(t.buf, 1, Token(t))
        rest == [t EXCEPT !.buf = SubSeq(@, Token(t) + 1, Len(@))]
    IN /\ held[f] = NoEvent
       /\ token # <<>>
       /\ \/ /\ \E ip \in Sources : Read(f, ip)
             /\ Tails(f, [rest EXCEPT !.given = Append(@, token)])
          \/ /\ ~Whole(token)
             /\ Tails(f, rest)
             /\ UNCHANGED vars

\* Mutant of Reseek: the tailer moves to the end whenever it has no line to send.
ReseekEarly(f) ==
    /\ held[f] = NoEvent
    /\ Token(tail[f]) = 0
    /\ Tails(f, [tail[f] EXCEPT !.ahead = <<>>, !.buf = <<>>, !.eof = FALSE])
    /\ UNCHANGED vars

\* The scanner is spent: a new one from what is the end of the file by now.
Reseek(f) ==
    /\ held[f] = NoEvent
    /\ Token(tail[f]) = 0 /\ tail[f].eof
    /\ Tails(f, [tail[f] EXCEPT !.ahead = <<>>, !.eof = FALSE])
    /\ UNCHANGED vars

\* The pipeline's steps, in which only feeds that are not files read by themselves.
PipelineNext ==
    /\ Next
    /\ \A f \in Files : held[f] = NoEvent => held'[f] = NoEvent
    /\ UNCHANGED tail

IngestionNext ==
    \/ PipelineNext
    \/ \E f \in Files : Write(f) \/ ReadMore(f) \/ Scan(f) \/ Reseek(f)

IngestionSpec == IngestionInit /\ [][IngestionNext]_ingestionVars /\ Fairness

-----------------------------------------------------------------------------
\* A tailed line becomes one event, whole and in the order of the file, unless it was
\* being written when the tailer started or between the scanner's meeting the end of the
\* file and the tailer's moving on (tailFile): only such lines are lost, torn or doubled,
\* however long the tailer is blocked by a full channel.
LinesReadOnce ==
    \A f \in Files :
        LET t == tail[f]
            Line(i) == Head(t.given[i]).line
            Given == UNION {Elements(token) : token \in Elements(t.given)}
            Waiting == Elements(t.buf) \cup Elements(t.ahead)
        IN /\ \A i \in 1 .. Len(t.given) : Whole(t.given[i]) \/ Line(i) \in t.exposed
           /\ \A i, j \in 1 .. Len(t.given) : i < j =>
                 Line(i) < Line(j) \/ (Line(i) = Line(j) /\ Line(j) \in t.exposed)
           /\ \A i \in 1 .. Len(t.given), p \in Waiting :
                 Line(i) < p.line \/ (Line(i) = p.line /\ p.line \in t.exposed)
           /\ \A p \in Elements(t.wrote) : p \in Given \cup Waiting \/ p.line \in t.exposed
=============================================================================
