--------------------------------- MODULE Sse ---------------------------------
(***************************************************************************)
(* The event streams of the mobile app (lib/sse.ts): the text of a stream  *)
(* arrives cut into chunks anywhere, an incremental parser turns it into   *)
(* events, and the stream ends, breaks or is aborted at any point.         *)
(*                                                                         *)
(* A text is a sequence of atoms.  The name of a field stands with its     *)
(* colon for one atom; a chunk that ends inside a name is one that ends    *)
(* before it, since the parser looks at whole lines only.                  *)
(***************************************************************************)
EXTENDS Integers, FiniteSets, SequencesExt, Listing

CONSTANTS
  Alphabets,  \* sets of atoms; the text of a stream is over one of them
  MaxText,    \* bound: atoms of a stream
  MaxChunk    \* bound: atoms of a chunk

Fields      == {"data", "event", "id", "retry"}
Terminators == {"cr", "lf"}
Digits      == {"0", "9"}
Atoms       == Fields \cup Terminators \cup Digits \cup {"bom", "comment", "space", "nul", "x"}

ASSUME SseAssumption ==
  /\ Alphabets \subseteq SUBSET Atoms
  /\ MaxText \in Nat /\ MaxChunk \in Nat

VARIABLES
  alphabet,  \* of the text
  phase,     \* "opening", "reading", "closed", "failed" or "aborted"
  received,  \* the text so far
  parser     \* its state, and the events onEvent was called with
streamVars == <<alphabet, phase, received, parser>>

SSE_INITIAL_STATE ==
  [buffer |-> <<>>, bomStripped |-> FALSE, dataLines |-> <<>>, eventType |-> <<>>,
   lastEventId |-> <<>>, retryMs |-> <<>>, events |-> <<>>]

StreamInit ==
  /\ alphabet \in Alphabets
  /\ phase = "opening" /\ received = <<>> /\ parser = SSE_INITIAL_STATE

-----------------------------------------------------------------------------
(***************************************************************************)
(* The parser.                                                             *)
(***************************************************************************)
ValueOf(line) ==
  LET raw == Tail(line) IN IF raw # <<>> /\ Head(raw) = "space" THEN Tail(raw) ELSE raw

IsRetry(value) == value # <<>> /\ Range(value) \subseteq Digits

\* A blank line: without data no event, but the type does not leak either.
Dispatch(p) ==
  [p EXCEPT !.eventType = <<>>, !.dataLines = <<>>,
            !.events = IF p.dataLines = <<>> THEN @
                       ELSE Append(@, [event |-> p.eventType, data |-> p.dataLines,
                                       id |-> p.lastEventId])]

applyLine(p, line) ==
  IF line = <<>> THEN Dispatch(p)
  ELSE LET value == ValueOf(line)
       IN CASE Head(line) = "data"  -> [p EXCEPT !.dataLines = Append(@, value)]
            [] Head(line) = "event" -> [p EXCEPT !.eventType = value]
            [] Head(line) = "id" /\ "nul" \notin Range(value) -> [p EXCEPT !.lastEventId = value]
            [] Head(line) = "retry" /\ IsRetry(value) -> [p EXCEPT !.retryMs = value]
            [] OTHER -> p

\* Only the first atom of the stream may be a BOM.
StripBom(p, text) ==
  IF ~p.bomStripped /\ text # <<>> /\ Head(text) = "bom" THEN Tail(text) ELSE text

\* Wrong: a CR at the end of a chunk ends its line there and then.
WrongDeferred(text, i) == FALSE
\* A CR at the end of the text waits for what comes next.
Deferred(text, i) == text[i] = "cr" /\ i = Len(text)

\* The walk of feedSse: start is where the line under construction begins.
\* The LF of a CRLF is before it.
Walk(text, acc, i) ==
  IF i < acc.start \/ text[i] \notin Terminators \/ Deferred(text, i) THEN acc
  ELSE [p     |-> applyLine(acc.p, SubSeq(text, acc.start, i - 1)),
        start |-> IF text[i] = "cr" /\ i < Len(text) /\ text[i + 1] = "lf" THEN i + 2 ELSE i + 1]

feedSse(p, chunk) ==
  LET all  == p.buffer \o chunk
      text == StripBom(p, all)
      from == [p |-> [p EXCEPT !.bomStripped = @ \/ all # <<>>], start |-> 1]
      walk[i \in 0..Len(text)] == IF i = 0 THEN from ELSE Walk(text, walk[i - 1], i)
      done == walk[Len(text)]
  IN [done.p EXCEPT !.buffer = SubSeq(text, done.start, Len(text))]

\* At the end of the stream a deferred CR is complete.
endSse(p) ==
  IF p.buffer # <<>> /\ Last(p.buffer) = "cr"
  THEN feedSse([p EXCEPT !.buffer = Front(@)], <<"lf">>)
  ELSE p

-----------------------------------------------------------------------------
(***************************************************************************)
(* streamApiSse.                                                           *)
(***************************************************************************)
\* apiFetch comes back with a body.
Opened ==
  /\ phase = "opening" /\ phase' = "reading"
  /\ UNCHANGED <<alphabet, received, parser>>

\* A read: a chunk may be empty, when it ends inside a character.
ChunkArrives(chunk) ==
  /\ phase = "reading" /\ Len(received) + Len(chunk) <= MaxText
  /\ received' = received \o chunk /\ parser' = feedSse(parser, chunk)
  /\ UNCHANGED <<alphabet, phase>>

\* done: the tail of the decoder, which is empty for whole characters, and
\* the end of the parser.
StreamEnds ==
  /\ phase = "reading" /\ phase' = "closed"
  /\ parser' = endSse(feedSse(parser, <<>>))
  /\ UNCHANGED <<alphabet, received>>

\* An error answer, an answer without a body, a connection that breaks.
StreamFails ==
  /\ phase \in {"opening", "reading"} /\ phase' = "failed"
  /\ UNCHANGED <<alphabet, received, parser>>

\* The caller's signal: the promise rejects, and nothing is flushed.
StreamAborted ==
  /\ phase \in {"opening", "reading"} /\ phase' = "aborted"
  /\ UNCHANGED <<alphabet, received, parser>>

StreamNext ==
  \/ Opened \/ StreamEnds \/ StreamFails \/ StreamAborted
  \/ \E n \in 0..MaxChunk : \E chunk \in [1..n -> alphabet] : ChunkArrives(chunk)

StreamSpec == StreamInit /\ [][StreamNext]_streamVars

-----------------------------------------------------------------------------
(***************************************************************************)
(* The same text read at once, by its lines.                               *)
(***************************************************************************)
LineEnds(text) ==
  {i \in DOMAIN text : \/ text[i] = "cr"
                       \/ text[i] = "lf" /\ (i = 1 \/ text[i - 1] # "cr")}

\* The line that ends at e: the atoms after every end before it.
LineAt(text, e) ==
  Keep(text, {i \in DOMAIN text : /\ text[i] \notin Terminators /\ i < e
                                  /\ \A d \in LineEnds(text) : d < e => d < i})

LinesOf(text) ==
  LET ends == LineEnds(text)
  IN [k \in 1..Cardinality(ends) |-> LineAt(text, Ascending(ends)[k])]

\* The lines before the line k that give a field, since the last blank one.
Since(lines, k)        == 1 + Max({0} \cup {j \in 1..k-1 : lines[j] = <<>>})
Gives(line, field)     == line # <<>> /\ Head(line) = field
Named(lines, field, k) == {j \in Since(lines, k)..k-1 : Gives(lines[j], field)}
GivesId(line)    == Gives(line, "id") /\ "nul" \notin Range(ValueOf(line))
GivesRetry(line) == Gives(line, "retry") /\ IsRetry(ValueOf(line))
IdLines(lines, k)    == {j \in 1..k-1 : GivesId(lines[j])}
RetryLines(lines, k) == {j \in 1..k-1 : GivesRetry(lines[j])}

ValuesOf(lines, K)  == [j \in 1..Cardinality(K) |-> ValueOf(lines[Ascending(K)[j]])]
LastValue(lines, K) == IF K = {} THEN <<>> ELSE ValueOf(lines[Max(K)])

\* The event a blank line k ends, and the blank lines that end one.
EventAt(lines, k) ==
  [event |-> LastValue(lines, Named(lines, "event", k)),
   data  |-> ValuesOf(lines, Named(lines, "data", k)),
   id    |-> LastValue(lines, IdLines(lines, k))]
Ending(lines) == {k \in DOMAIN lines : lines[k] = <<>> /\ Named(lines, "data", k) # {}}

EventsOf(lines) ==
  [j \in 1..Cardinality(Ending(lines)) |-> EventAt(lines, Ascending(Ending(lines))[j])]

\* What of the text is decided: a last CR only once the stream has closed.
Decided ==
  LET text == StripBom(SSE_INITIAL_STATE, received)
  IN IF phase # "closed" /\ text # <<>> /\ Last(text) = "cr" THEN Front(text) ELSE text

(***************************************************************************)
(* Properties.                                                             *)
(***************************************************************************)
\* sse.ts:124-126 "Chunk boundaries are arbitrary" and :168-172 "drops that
\* event rather than fabricating half of one": however the text was cut and
\* however the stream ended, the events the app has heard are those of the
\* lines received, no event twice or in two halves.
EventsSurviveChunks ==
  LET lines == LinesOf(Decided)
  IN /\ parser.events = EventsOf(lines)
     /\ parser.retryMs = LastValue(lines, RetryLines(lines, Len(lines) + 1))

=============================================================================
