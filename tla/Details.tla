------------------------------ MODULE Details ------------------------------
(***************************************************************************)
(* What a user is shown of an execution: GetLogsByInvocationId             *)
(* (server/invocations/logs.go) and GetInvocationDetails read the object   *)
(* that the run of MicroVM has left in the logs bucket.                    *)
(*                                                                         *)
(* Stream stores a message in Go's own format, {type:... channel:...       *)
(* data:...}, and the reader takes the object apart again line by line.    *)
(* The agent gives every line of the child its newline back, so that the   *)
(* closing brace of its message stands on a line of its own.  What the     *)
(* child writes does not change what the run does: the texts are a         *)
(* parameter of the reading.                                               *)
(***************************************************************************)
EXTENDS MicroVM, SequencesExt

(***************************************************************************)
(* Texts, as far as the reader tells them apart: whether type:done is in   *)
(* it, how many braces end it (here at most MaxBraces), and whether it is  *)
(* near the 64 KiB at which both scanners give up: short enough for the    *)
(* agent's, and with the 33 bytes before it too long for the reader's.     *)
(* Surrounding blanks, which the reader drops, are not part of a text.     *)
(***************************************************************************)
MaxBraces == 1
Texts == [done : BOOLEAN, braces : 0..MaxBraces, near : BOOLEAN]
OwnText == [done |-> FALSE, braces |-> 0, near |-> FALSE]

\* A line of the object: the opening of an output message with the braces it
\* ends in, a brace on its own, or a Done message.
Opening(channel, t) == [what |-> "output", of |-> channel, text |-> t]
OrphanBrace == [what |-> "brace", of |-> "stdout", text |-> OwnText]
DoneLine == [what |-> "done", of |-> "system", text |-> OwnText]
ObjectLines == [what : {"output", "brace", "done"}, of : Channels, text : Texts]

\* fmt.Fprintf(pw, "%v\n", msg).  The agent's own messages have no newline.
StoredLines(m, text) ==
    CASE m.type = "done" -> <<DoneLine>>
      [] m.type = "output" /\ m.of = "system" ->
            <<Opening("system", [OwnText EXCEPT !.braces = 1])>>
      [] OTHER -> <<Opening(m.of, text[m]), OrphanBrace>>

Object(text) == FlattenSeq([i \in DOMAIN log |-> StoredLines(log[i], text)])

-----------------------------------------------------------------------------
\* One turn of the loop: type:done anywhere in a line makes it the last word
\* on the execution; else one closing brace is cut off the message.
Shown(line) ==
    IF line.what = "done" \/ line.text.done
    THEN [stream |-> "system", finished |-> TRUE, braces |-> 0]
    ELSE [stream |-> line.of, finished |-> FALSE,
          braces |-> IF line.text.braces = 0 THEN 0 ELSE line.text.braces - 1]

\* Mutant of Kept: what belongs to no message is shown as a line of stdout.
KeptAll(line) == TRUE

\* Orphan braces are dropped.
Kept(line) == line.what # "brace"

\* scanner.Err(): no part of the log is returned.
Unreadable(text) == \E i \in DOMAIN Object(text) : Object(text)[i].text.near

LogLines(text) ==
    LET kept == Picked(Object(text), {line \in ObjectLines : Kept(line)})
    IN  [i \in DOMAIN kept |-> Shown(kept[i])]

-----------------------------------------------------------------------------
\* The lines the child has written, and what they may say.
WrittenLines == {Line(ch, n) : ch \in Output, n \in 1..Lines}
TextsWritten ==
    [{m \in WrittenLines : m.n <= written[m.of]} -> Texts]

\* What of an output a reader of the details may count on: each of its lines
\* that does not say type:done, in order, but for one brace at its end.
Promised(ch, text) ==
    LET said == Picked(AllLines(ch), {m \in DOMAIN text : ~text[m].done})
    IN  [i \in DOMAIN said |->
            [stream |-> ch, finished |-> FALSE,
             braces |-> IF text[said[i]].braces = 0 THEN 0 ELSE text[said[i]].braces - 1]]

ShownAs(shown, ch) == Picked(shown, {line \in ToSet(shown) : line.stream = ch})

(***************************************************************************)
(* The details of an execution that is DONE show every line the child      *)
(* wrote, under its output and in its order, and end with the one line on  *)
(* its end, whichever way the goroutines of guest and host interleaved and *)
(* whatever the lines say: nothing of one line is shown as another one,    *)
(* though a message spans two lines of the object.  Excepted are the       *)
(* output on which the agent's scanner gave up, and a log with a line that *)
(* only the reader's scanner cannot hold: of that, nothing is shown        *)
(* (server/invocations/logs.go:36-94, vm/logs.go:53-91,                    *)
(* agent/stream.go:43-54).  The log of a build is as full.                 *)
(***************************************************************************)
DetailsTellAll ==
    /\ LogIsFull
    /\ kind = "exec" /\ outcome = "ok" =>
          \A text \in TextsWritten :
              \/ Unreadable(text)
              \/ LET shown == LogLines(text)
                 IN  /\ Last(shown).finished
                     /\ \A ch \in Output :
                          \/ CutShort(ch)
                          \/ ShownAs(shown, ch) = Promised(ch, text)
=============================================================================
