------------------------------ MODULE ChildOutput ------------------------------
(***************************************************************************)
(* One execution with a secret: boundedBuffer, runCommand, valuesToRedact  *)
(* and redact in internal/execution/executor.go, for standard error, where *)
(* the error of a child that could not be started goes too.                *)
(*                                                                         *)
(* Text is a sequence of symbols; "<redacted>" and the note about the cut  *)
(* are one symbol each.  The child may hand its end of the pipe to a       *)
(* descendant, which the timeout does not kill; Run returns only when      *)
(* nobody holds the pipe any more.                                         *)
(***************************************************************************)
EXTENDS Integers, Sequences, FiniteSets

CONSTANTS
  Symbols,        \* what the child writes
  SecretValue,
  NoPassword,     \* the secret is no URI, or one without a password
  URIPassword,    \* what url.Parse makes of the password: escapes decoded
  Unescaped,      \* QueryUnescape of that; URIPassword itself when it fails
  Redacted, Truncated,
  MaximumCapturedStream,  \* 1 MiB in the code
  MaxWritten      \* the bound of what the child writes

\* A secret is made of other symbols than the two notes; one that is part of
\* "<redacted>" can of course be found there.
ASSUME OutputAssumption ==
  /\ SecretValue \in Seq(Symbols) \ {<<>>}
  /\ URIPassword # NoPassword =>
       /\ URIPassword \in Seq(Symbols) \ {<<>>}
       /\ Unescaped \in Seq(Symbols) \ {<<>>}
  /\ Redacted \notin Symbols /\ Truncated \notin Symbols
  /\ MaximumCapturedStream \in Nat /\ MaxWritten \in Nat

VARIABLES
  child,
  pipe,       \* who can write: "child", "descendant" or "nobody"
  written,    \* everything that was written to the buffer
  contents, remaining, truncated,   \* the boundedBuffer
  result      \* "none" until runCommand returns, then its code and text

outputVars ==
  <<child, pipe, written, contents, remaining, truncated, result>>

ChildStates ==
  {"starting", "not started", "running", "exited", "failed", "killed"}

Smaller(m, n) == IF m < n THEN m ELSE n

Within(value, text) ==
  \E i \in 1..Len(text) : /\ i + Len(value) - 1 <= Len(text)
                          /\ SubSeq(text, i, i + Len(value) - 1) = value

\* The password is decoded by url.Parse and then once more; as it stands in the
\* URI it is a value only as a part of the secret.
\* Mutant: the secret only.
SecretOnly == <<SecretValue>>

ValuesToRedact ==
  IF URIPassword = NoPassword THEN <<SecretValue>>
  ELSE IF Unescaped = URIPassword THEN <<SecretValue, URIPassword>>
  ELSE <<SecretValue, URIPassword, Unescaped>>

(***************************************************************************)
(* redact: strings.ReplaceAll for one sensitive value after the other.     *)
(***************************************************************************)
ReplaceAll(text, value) ==
  LET Matches(i) == SubSeq(text, i, i + Len(value) - 1) = value
      from[i \in 1..(Len(text) + 1)] ==
        IF i > Len(text) THEN <<>>
        ELSE IF i + Len(value) <= Len(text) + 1 /\ Matches(i)
             THEN <<Redacted>> \o from[i + Len(value)]
             ELSE <<text[i]>> \o from[i + 1]
  IN  from[1]

Redact(text) ==
  LET done[n \in 0..Len(ValuesToRedact)] ==
        IF n = 0 THEN text ELSE ReplaceAll(done[n - 1], ValuesToRedact[n])
  IN  done[Len(ValuesToRedact)]

String == IF truncated = "yes" THEN Append(contents, Truncated) ELSE contents

(***************************************************************************)
(* boundedBuffer.Write takes what still fits and reports all as written.   *)
(***************************************************************************)
\* Mutant: a chunk that does not fit is dropped whole.
DropChunk(chunk) ==
  LET fits == IF Len(chunk) > remaining THEN 0 ELSE Len(chunk) IN
  /\ contents' = contents \o SubSeq(chunk, 1, fits)
  /\ remaining' = remaining - fits
  /\ truncated' = IF Len(chunk) > remaining THEN "yes" ELSE truncated

\* Mutant: there is no limit.
TakeAll(chunk) ==
  /\ contents' = contents \o chunk
  /\ remaining' = remaining - Len(chunk)
  /\ truncated' = IF Len(chunk) > remaining THEN "yes" ELSE truncated

BufferWrite(chunk) ==
  LET fits == Smaller(Len(chunk), remaining) IN
  /\ contents' = contents \o SubSeq(chunk, 1, fits)
  /\ remaining' = remaining - fits
  /\ truncated' = IF Len(chunk) > remaining THEN "yes" ELSE truncated

Capture(chunk) ==
  /\ Len(written) + Len(chunk) <= MaxWritten
  /\ written' = written \o chunk
  /\ BufferWrite(chunk)

Chunks == {<<s>> : s \in Symbols} \cup {<<s, t>> : s, t \in Symbols}

WriteChunk(chunk) ==
  /\ child # "starting" /\ pipe # "nobody" /\ result.code = "none"
  /\ Capture(chunk)
  /\ UNCHANGED <<child, pipe, result>>

Starts ==
  /\ child = "starting"
  /\ child' = "running"
  /\ UNCHANGED <<pipe, written, contents, remaining, truncated, result>>

\* The error, which may name anything the client asked to run, is captured.
StartFails(error) ==
  /\ child = "starting"
  /\ child' = "not started"
  /\ pipe' = "nobody"
  /\ Capture(error)
  /\ UNCHANGED result

\* The child starts a process in the background.
Spawn ==
  /\ child = "running" /\ pipe = "child"
  /\ pipe' = "descendant"
  /\ UNCHANGED <<child, written, contents, remaining, truncated, result>>

\* With the child goes its end of the pipe, unless a descendant has it too.
Ends(how) ==
  /\ child = "running"
  /\ child' = how
  /\ pipe' = IF pipe = "child" THEN "nobody" ELSE pipe
  /\ UNCHANGED <<written, contents, remaining, truncated, result>>

Exits == Ends("exited") \/ Ends("failed")

\* Mutant: the deadline passes and the child lives on.
NothingKilled == child = "running" /\ UNCHANGED outputVars

TimesOut == Ends("killed")

DescendantExits ==
  /\ pipe = "descendant"
  /\ pipe' = IF child = "running" THEN "child" ELSE "nobody"
  /\ UNCHANGED <<child, written, contents, remaining, truncated, result>>

\* After a timeout what was captured is thrown away.  A child that failed counts
\* as timed out too, when the deadline passed before the pipe was closed.
RunReturns ==
  /\ child \notin {"starting", "running"} /\ pipe = "nobody" /\ result.code = "none"
  /\ \/ /\ child # "killed"
        /\ result' = [code |-> "exit", text |-> Redact(String)]
     \/ /\ child \in {"not started", "failed", "killed"}
        /\ result' = [code |-> "124", text |-> <<>>]
  /\ UNCHANGED <<child, pipe, written, contents, remaining, truncated>>

OutputInit ==
  /\ child = "starting"
  /\ pipe = "child"
  /\ written = <<>>
  /\ contents = <<>>
  /\ remaining = MaximumCapturedStream
  /\ truncated = "no"
  /\ result = [code |-> "none", text |-> <<>>]

OutputNext ==
  \/ \E chunk \in Chunks : WriteChunk(chunk) \/ StartFails(chunk)
  \/ Starts
  \/ Spawn \/ Exits \/ TimesOut \/ DescendantExits
  \/ RunReturns

OutputSpec == OutputInit /\ [][OutputNext]_outputVars

\* What happens by itself: a child starts or does not, and the deadline passes.
\* Nothing makes a descendant exit.
TimePasses ==
  Starts \/ (\E error \in Chunks : StartFails(error)) \/ TimesOut \/ RunReturns

OutputFairness == WF_outputVars(TimePasses)

-----------------------------------------------------------------------------
OutputTypeOK ==
  /\ child \in ChildStates
  /\ pipe \in {"child", "descendant", "nobody"}
  /\ written \in Seq(Symbols) /\ contents \in Seq(Symbols)
  /\ remaining \in 0..MaximumCapturedStream
  /\ truncated \in {"no", "yes"}
  /\ result.code \in {"none", "exit", "124"}

Sensitive ==
  {SecretValue} \cup
    IF URIPassword = NoPassword THEN {} ELSE {URIPassword, Unescaped}

\* docs/SECURITY-MODEL.md:62: "Exact secrets and URI passwords are redacted from
\* captured stdout and stderr."  No whole value is returned, also when they were
\* written in pieces, overlap each other, or came with the error of a start.  A
\* value that the limit cuts in two is no whole one: its beginning is returned.
NothingWholeLeaks == \A value \in Sensitive : ~Within(value, result.text)

\* executor.go:39: whatever the sizes of the writes, what is captured is the
\* beginning of the output, as much as fits, and the note tells when it is cut.
CapturesTheBeginning ==
  /\ contents = SubSeq(written, 1, Smaller(Len(written), MaximumCapturedStream))
  /\ Len(contents) + remaining = MaximumCapturedStream
  /\ truncated = "yes" <=> Len(written) > MaximumCapturedStream

\* executor.go:64, :81: an execution returns by its timeout, unless a descendant of
\* the child still holds the pipe.
TimeoutReturns ==
  child \in {"starting", "running"} ~> (result.code # "none" \/ pipe = "descendant")
=============================================================================
