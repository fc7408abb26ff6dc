------------------------------- MODULE McpStdio -------------------------------
(***************************************************************************)
(* cheshmhayash-mcp over stdio: Server.Serve (internal/mcp/server.go) and  *)
(* the process around it (cmd/cheshmhayash-mcp/main.go).  A goroutine      *)
(* scans stdin and hands its lines over an unbuffered channel; the loop    *)
(* selects between that channel, the reader's error and the context, and   *)
(* handles one line to its end before it selects again.                    *)
(*                                                                         *)
(* A line is what becomes of it: empty lines are skipped by the reader,    *)
(* long ones exceed the scanner's buffer, and a frame is told apart by how *)
(* dispatch treats it and by whether it has an id.                         *)
(***************************************************************************)
EXTENDS Naturals, Sequences

CONSTANTS
  Scripts,   \* what the client may write
  MaxLines   \* bound on the lines of a script

Kind == {"empty", "long", "notJson", "wrongVersion", "initialized",
         "plain", "unknown", "badCall", "call"}
Line == [kind : Kind, id : BOOLEAN]

ASSUME ScriptsAssumption == Scripts \subseteq {s \in Seq(Line) : Len(s) <= MaxLines}
ASSUME MaxLinesAssumption == MaxLines \in Nat

VARIABLES
  script,    \* the lines this client writes
  written,   \* how many of them it has written
  input,     \* stdin: open, eof or broken
  output,    \* stdout: open, stalled (nobody reads) or gone
  reader,    \* the goroutine: scan, hand (a line), failed, closing or done
  scanned,   \* how many lines it has scanned
  errs,      \* is there an error in the channel errs?
  calling,   \* the tool calls under way
  writing,   \* the lines whose answer is being written
  out,       \* the lines answered on stdout, in the order of the answers
  cancelled, \* is ctx done?
  result     \* none (yet), what Serve returned (nil, error, cancelled), or killed

vars == <<script, written, input, output, reader, scanned, errs, calling, writing,
          out, cancelled, result>>

clientVars == <<script, written, input, output, cancelled>>

Init ==
  /\ script \in Scripts
  /\ written = 0
  /\ input = "open"
  /\ output = "open"
  /\ reader = "scan"
  /\ scanned = 0
  /\ errs = FALSE
  /\ calling = {}
  /\ writing = {}
  /\ out = <<>>
  /\ cancelled = FALSE
  /\ result = "none"

\* The process exits when Serve has returned, and takes the reader with it.
Serving == result = "none"

-----------------------------------------------------------------------------
(* The client and the signals. *)

Environment ==
  /\ Serving
  /\ UNCHANGED <<script, reader, scanned, errs, calling, writing, out, result>>

ClientWrites ==
  /\ input = "open" /\ written < Len(script)
  /\ written' = written + 1
  /\ Environment
  /\ UNCHANGED <<input, output, cancelled>>

InputEnds ==
  /\ input = "open"
  /\ input' \in {"eof", "broken"}
  /\ Environment
  /\ UNCHANGED <<written, output, cancelled>>

ClientStopsReading ==
  /\ \/ output = "open" /\ output' \in {"stalled", "gone"}
     \/ output = "stalled" /\ output' = "gone"
  /\ Environment
  /\ UNCHANGED <<written, input, cancelled>>

Cancel ==
  /\ ~cancelled
  /\ cancelled' = TRUE
  /\ Environment
  /\ UNCHANGED <<written, input, output>>

-----------------------------------------------------------------------------
(* The reader. *)

ReaderGoto(from, to) ==
  /\ Serving
  /\ reader = from
  /\ reader' = to
  /\ UNCHANGED <<clientVars, calling, writing, out, result>>

\* A line that is not empty is handed over; one that is too long fails the scanner.
Scan ==
  /\ scanned < written
  /\ LET kind == script[scanned + 1].kind
     IN ReaderGoto("scan", IF kind = "empty" THEN "scan"
                           ELSE IF kind = "long" THEN "failed" ELSE "hand")
  /\ scanned' = scanned + 1
  /\ UNCHANGED errs

ScanEnds ==
  /\ scanned = written
  /\ input # "open"
  /\ ReaderGoto("scan", IF input = "eof" THEN "closing" ELSE "failed")
  /\ UNCHANGED <<scanned, errs>>

\* errs has room for one error, so the send never blocks ...
ReportError ==
  /\ ReaderGoto("failed", "closing")
  /\ errs' = TRUE
  /\ UNCHANGED scanned

\* Mutation: the channel stays open.
KeepLines == FALSE

\* ... and the deferred close of lines follows at once.
CloseLines ==
  /\ ReaderGoto("closing", "done")
  /\ UNCHANGED <<scanned, errs>>

-----------------------------------------------------------------------------
(* dispatch. *)

\* Bad JSON is answered with a null id, a notification never, and the others when
\* they have an id.
Answerable(l) ==
  \/ l.kind = "notJson"
  \/ l.kind \in {"wrongVersion", "plain", "unknown", "badCall", "call"} /\ l.id

\* What handleLine is left with once dispatch has returned for line n.
Answer(n) == writing' = writing \cup {m \in {n} : Answerable(script[m])}

\* writeMessage.  A pipe nobody reads takes answers while it has room, and blocks the
\* write when it is full.  A write that fails loses the answer; if it is the pipe that
\* broke, SIGPIPE ends the process, which asked to be told of SIGINT and SIGTERM only.
Write(n) ==
  /\ Serving
  /\ n \in writing
  /\ writing' = writing \ {n}
  /\ \/ output # "gone" /\ out' = Append(out, n) /\ UNCHANGED result
     \/ output = "gone" /\ result' \in {"none", "killed"} /\ UNCHANGED out
  /\ UNCHANGED <<clientVars, reader, scanned, errs, calling>>

-----------------------------------------------------------------------------
(* The loop. *)

\* Mutation: every line is handled by a goroutine of its own.
IdleAlways == Serving

\* The loop is at its select.
Idle == Serving /\ calling = {} /\ writing = {}

\* case line := <-lines.  Only a tool call takes time.
Receive ==
  /\ Idle
  /\ reader = "hand"
  /\ reader' = "scan"
  /\ IF script[scanned].kind = "call"
       THEN calling' = calling \cup {scanned} /\ UNCHANGED writing
       ELSE Answer(scanned) /\ UNCHANGED calling
  /\ UNCHANGED <<clientVars, scanned, errs, out, result>>

\* Mutation: a tool that fails is logged and not answered.
CallEndsQuietly(n) ==
  /\ Serving
  /\ n \in calling
  /\ calling' = calling \ {n}
  /\ Answer(n) \/ UNCHANGED writing
  /\ UNCHANGED <<clientVars, reader, scanned, errs, out, result>>

\* The tool returns its result or its error; both are answered.
CallEnds(n) ==
  /\ Serving
  /\ n \in calling
  /\ calling' = calling \ {n}
  /\ Answer(n)
  /\ UNCHANGED <<clientVars, reader, scanned, errs, out, result>>

Return(value) ==
  /\ Idle
  /\ result' = value
  /\ UNCHANGED <<clientVars, reader, scanned, calling, writing, out>>

SeeCancelled == cancelled /\ Return("cancelled") /\ UNCHANGED errs

SeeError == errs /\ Return("error") /\ errs' = FALSE

SeeClosed == reader = "done" /\ Return("nil") /\ UNCHANGED errs

-----------------------------------------------------------------------------
Reader == Scan \/ ScanEnds \/ ReportError \/ CloseLines

Next ==
  \/ ClientWrites \/ InputEnds \/ ClientStopsReading \/ Cancel
  \/ Reader
  \/ Receive \/ \E n \in 1..Len(script) : CallEnds(n) \/ Write(n)
  \/ SeeCancelled \/ SeeError \/ SeeClosed

\* Goroutines that can run do run, select is fair to each of its cases, and every
\* tool call ends (EveryRequestEnds of Gateway).  A write may block for ever on a pipe
\* nobody reads, and nothing is assumed of the client.
Fairness ==
  /\ WF_vars(Reader)
  /\ SF_vars(Receive) /\ SF_vars(SeeCancelled) /\ SF_vars(SeeError) /\ SF_vars(SeeClosed)
  /\ WF_vars(\E n \in 1..MaxLines : CallEnds(n))
  /\ WF_vars(output # "stalled" /\ \E n \in 1..MaxLines : Write(n))

Spec == Init /\ [][Next]_vars /\ Fairness

-----------------------------------------------------------------------------
(* Properties. *)

\* The values the state ranges over; at most one line is handled at a time.
TypeOK ==
  /\ script \in Scripts
  /\ written \in 0..Len(script)
  /\ input \in {"open", "eof", "broken"}
  /\ output \in {"open", "stalled", "gone"}
  /\ reader \in {"scan", "hand", "failed", "closing", "done"}
  /\ scanned \in 0..written
  /\ errs \in BOOLEAN
  /\ calling \subseteq 1..Len(script)
  /\ writing \subseteq 1..Len(script)
  /\ out \in Seq(1..Len(script))
  /\ cancelled \in BOOLEAN
  /\ result \in {"none", "nil", "error", "cancelled", "killed"}
  /\ \A m, n \in calling \cup writing : m = n

\* Answers leave in the order of their requests, one for each, however long a tool
\* takes and however far the reader is ahead.
AnswersInOrder == \A i, j \in DOMAIN out : i < j => out[i] < out[j]

\* After a graceful end nothing the client wrote is left without its answer: the
\* reader's end of file does not overtake the lines before it.
GracefulEndAnswersAll ==
  result = "nil" /\ ~errs /\ output # "gone" =>
    \A n \in 1..written : Answerable(script[n]) => \E i \in DOMAIN out : out[i] = n

\* A request that was read is answered, unless Serve returns before or nobody reads
\* the answers.
ReadMeansAnswered ==
  \A n \in 1..MaxLines :
    (n <= scanned /\ Answerable(script[n])) ~>
      ((\E i \in DOMAIN out : out[i] = n) \/ ~Serving \/ output # "open")

\* The end of the input, a read error or a signal ends the server, also while the
\* reader holds a line that nobody will take; only a write that blocks keeps it.
StopsWhenTold ==
  (input # "open" \/ cancelled) ~> (~Serving \/ (output = "stalled" /\ writing # {}))

=============================================================================
