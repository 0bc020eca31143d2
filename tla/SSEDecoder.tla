----------------------------- MODULE SSEDecoder -----------------------------
(***************************************************************************)
(* protocol.Decoder: an event stream arrives in chunks cut anywhere, and   *)
(* leaves as records. A line ends at LF, at CR LF, or at a CR alone, so a  *)
(* CR that ends a chunk waits for the next one. A blank line dispatches a  *)
(* record if a data line was seen since the last one.                      *)
(*                                                                         *)
(* A cell is a terminator, the name of a field with its colon ("data:",    *)
(* "event:", "id:"), the bare name "data", the ":" of a comment, or "x", a *)
(* piece of a value.                                                       *)
(***************************************************************************)
EXTENDS Integers, Sequences, FiniteSets, FiniteSetsExt, SequencesExt

CONSTANTS
  Alphabet,  \* the cells an upstream may send
  MaxCells   \* bound on the length of one stream

CR == "CR"
LF == "LF"

ASSUME AlphabetOK ==
  /\ Alphabet \subseteq {CR, LF, "data:", "data", "event:", "id:", ":", "x"}
  /\ MaxCells \in Nat

VARIABLES
  d,       \* the Decoder
  records, \* the records dispatched so far
  tail,    \* SSEBackfiller.tail: what arrived and was in no record
  written  \* the cells written so far

decoderVars == <<d, records, tail, written>>

Rest(s, i) == SubSeq(s, i, Len(s))
Fresh == [buf |-> <<>>, scan |-> 1, event |-> <<>>, data |-> <<>>, spans |-> <<>>,
          id |-> <<>>, hasID |-> FALSE, closed |-> FALSE]

NewDecoder ==
  /\ d = Fresh
  /\ records = <<>>
  /\ tail = <<>>
  /\ written = <<>>

-----------------------------------------------------------------------------
NoLine == [ok |-> FALSE, from |-> 0, to |-> 0, next |-> 0]
Line(from, to, next) == [ok |-> TRUE, from |-> from, to |-> to, next |-> next]

\* Mutant of NextLine: a CR that ends a chunk ends the line.
NextLine_Impatient(buf, start, final) ==
  LET ends == {i \in start .. Len(buf) : buf[i] \in {CR, LF}}
      e    == Min(ends)
      crlf == buf[e] = CR /\ e < Len(buf) /\ buf[e + 1] = LF
  IN  IF ends # {} THEN Line(start, e - 1, IF crlf THEN e + 2 ELSE e + 1)
      ELSE IF final /\ start <= Len(buf) THEN Line(start, Len(buf), Len(buf) + 1)
      ELSE NoLine

\* nextLine: the line that begins at start, if it is complete.
NextLine(buf, start, final) ==
  LET ends == {i \in start .. Len(buf) : buf[i] \in {CR, LF}}
      e    == Min(ends)
      crlf == buf[e] = CR /\ e < Len(buf) /\ buf[e + 1] = LF
  IN  IF ends # {}
        THEN IF buf[e] = CR /\ e = Len(buf) /\ ~ final THEN NoLine
             ELSE Line(start, e - 1, IF crlf THEN e + 2 ELSE e + 1)
      ELSE IF final /\ start <= Len(buf) THEN Line(start, Len(buf), Len(buf) + 1)
      ELSE NoLine

\* addData: data is the list of values the code joins with newlines.
AddData(dec, value, from, canonical) ==
  [dec EXCEPT !.data  = Append(@, value),
              !.spans = IF dec.data = <<>> /\ canonical
                          THEN <<[from |-> from, to |-> from + Len(value) - 1]>> ELSE <<>>]

\* field
Field(dec, l) ==
  LET name  == dec.buf[l.from]
      value == SubSeq(dec.buf, l.from + 1, l.to)
  IN  CASE name = "data:"  -> AddData(dec, value, l.from + 1, TRUE)
        [] name = "data" /\ value = <<>> -> AddData(dec, <<>>, l.to + 1, FALSE)
        [] name = "event:" -> [dec EXCEPT !.event = value]
        [] name = "id:"    -> [dec EXCEPT !.id = value, !.hasID = TRUE]
        [] OTHER           -> dec

\* dispatch: the record, and the decoder after it. The last id stays.
Dispatch(dec, next) ==
  [rec |-> [event |-> dec.event, data |-> dec.data, id |-> dec.id, hasID |-> dec.hasID,
            raw |-> SubSeq(dec.buf, 1, next - 1),
            spans |-> IF Len(dec.data) = 1 THEN dec.spans ELSE <<>>],
   dec |-> [Fresh EXCEPT !.buf = Rest(dec.buf, next), !.id = dec.id, !.closed = dec.closed]]

\* The lines from start on.
LinesIn(buf, start, final) ==
  LET lines[i \in 1 .. Len(buf) + 1] ==
        LET l == NextLine(buf, i, final)
        IN  IF l.ok THEN <<l>> \o lines[l.next] ELSE <<>>
  IN  lines[start]

\* One line of scanLines. A dispatch shortens the buffer, so a line's positions,
\* found in a buffer of n cells, are counted from the end of it.
ScanLine(acc, line, n) ==
  LET cut  == n - Len(acc.dec.buf)
      l    == Line(line.from - cut, line.to - cut, line.next - cut)
      here == [acc.dec EXCEPT !.scan = l.next]
      x    == Dispatch(here, l.next)
  IN  IF l.from <= l.to THEN [acc EXCEPT !.dec = Field(here, l)]
      ELSE IF here.data = <<>> THEN [acc EXCEPT !.dec = [here EXCEPT !.event = <<>>]]
      ELSE [dec |-> x.dec, recs |-> Append(acc.recs, x.rec)]

\* scanLines: the decoder and the records after all the lines.
ScanLines(dec, final) ==
  LET lines == LinesIn(dec.buf, dec.scan, final)
      acc[k \in 0 .. Len(lines)] ==
        IF k = 0 THEN [dec |-> dec, recs |-> <<>>]
        ELSE ScanLine(acc[k - 1], lines[k], Len(dec.buf))
  IN  acc[Len(lines)]

\* Mutant of Consume: the last record of a chunk is not taken off.
Consume_ButLast(t, recs) ==
  IF recs = <<>> THEN t
  ELSE FoldLeft(LAMBDA u, r : Rest(u, Len(r.raw) + 1), t, Front(recs))

\* Write adds a chunk to the tail, and drop takes off every record dispatched.
Consume(t, recs) == FoldLeft(LAMBDA u, r : Rest(u, Len(r.raw) + 1), t, recs)

FeedChunk(chunk) ==
  /\ ~ d.closed
  /\ LET r == ScanLines([d EXCEPT !.buf = @ \o chunk], FALSE)
     IN  /\ d' = r.dec
         /\ records' = records \o r.recs
         /\ tail' = Consume(tail \o chunk, r.recs)
         /\ written' = written \o chunk

\* Close dispatches a trailing record that has data.
Close ==
  LET r == ScanLines([d EXCEPT !.closed = TRUE], TRUE)
      x == Dispatch(r.dec, r.dec.scan)
      last == IF r.dec.data = <<>> THEN <<>> ELSE <<x.rec>>
  IN  /\ ~ d.closed
      /\ d' = IF last = <<>> THEN r.dec ELSE x.dec
      /\ records' = records \o r.recs \o last
      /\ tail' = Consume(tail, r.recs \o last)
      /\ UNCHANGED written

DecoderNext ==
  Close \/ \E n \in 1 .. MaxCells - Len(written) : \E chunk \in [1 .. n -> Alphabet] : FeedChunk(chunk)

DecoderSpec == NewDecoder /\ [][DecoderNext]_decoderVars

-----------------------------------------------------------------------------
(* Properties. *)

\* The stream with every terminator written as one LF, and cut into lines.
Normal ==
  LET keep == SelectSeq([i \in DOMAIN written |-> i],
                LAMBDA i : ~ (written[i] = LF /\ i > 1 /\ written[i - 1] = CR))
  IN  [k \in DOMAIN keep |-> IF written[keep[k]] = CR THEN LF ELSE written[keep[k]]]
LinesOf(text) ==
  LET ends == SelectSeq([i \in 1 .. Len(text) + 1 |-> i],
                LAMBDA i : i = Len(text) + 1 \/ text[i] = LF)
  IN  [k \in DOMAIN ends |-> SubSeq(text, IF k = 1 THEN 1 ELSE ends[k - 1] + 1, ends[k] - 1)]

IsData(l) == l # <<>> /\ (l[1] = "data:" \/ l = <<"data">>)

\* What each record is to say, whatever the chunks were. A paragraph is the
\* lines between two blank ones, and a record is a paragraph with data.
Expected ==
  LET lines == LinesOf(Normal)
      n     == Len(lines)
      Named(name, from, to) ==
        {k \in from .. to : lines[k] # <<>> /\ lines[k][1] = name}
      LastOf(ks) == IF ks = {} THEN <<>> ELSE Tail(lines[Max(ks)])
      ends  == SelectSeq([k \in 1 .. n |-> k], LAMBDA k : lines[k] = <<>> \/ k = n)
      first == [i \in DOMAIN ends |-> IF i = 1 THEN 1 ELSE ends[i - 1] + 1]
      recs  == SelectSeq([i \in DOMAIN ends |-> i],
                 LAMBDA i : \E k \in first[i] .. ends[i] : IsData(lines[k]))
  IN  [r \in DOMAIN recs |->
        LET i == recs[r]
            datas == SelectSeq(SubSeq(lines, first[i], ends[i]), IsData)
        IN  [event |-> LastOf(Named("event:", first[i], ends[i])),
             data  |-> [j \in DOMAIN datas |-> Tail(datas[j])],
             spans |-> IF Len(datas) = 1 /\ datas[1][1] = "data:"
                         THEN <<Tail(datas[1])>> ELSE <<>>,
             id    |-> LastOf(Named("id:", 1, ends[i])),
             hasID |-> Named("id:", IF r = 1 THEN 1 ELSE ends[recs[r - 1]] + 1, ends[i]) # {}]]
Said == [i \in DOMAIN records |->
          [event |-> records[i].event, data |-> records[i].data,
           spans |-> [j \in DOMAIN records[i].spans |->
             SubSeq(records[i].raw, records[i].spans[j].from, records[i].spans[j].to)],
           id |-> records[i].id, hasID |-> records[i].hasID]]

\* However the stream was cut, even between CR and LF, the records are those of
\* the whole stream (sse.go: "chunks may split a record at any byte boundary"),
\* and a record's span holds its one data value, which is what a restore rewrites.
ChunkInvariant == IF d.closed THEN Said = Expected ELSE IsPrefix(Said, Expected)

\* The bytes of the records, one after the other.
Raws(recs) == FoldLeft(LAMBDA all, r : all \o r.raw, <<>>, recs)

\* Every byte is in exactly one record or in the tail that Flush appends, which
\* is what makes a stream of pings pass unchanged.
Partition ==
  /\ Raws(records) \o tail = written
  /\ d.buf = tail /\ d.scan <= Len(tail) + 1
=============================================================================
