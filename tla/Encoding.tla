------------------------------ MODULE Encoding ------------------------------
(***************************************************************************)
(* The two forms of a log: the bytes in a message (SerializableHelper,     *)
(* LogEntry::serialize, src/common/serializable.cpp, .hpp, log_entry.cpp)  *)
(* and the line in a file (LogEntry::serialize_str, deserialize_str), with *)
(* get_last_line_of_file (src/common/util.cpp), by which the server finds  *)
(* out how far it had got.                                                 *)
(*                                                                         *)
(* Bytes are the numbers below B, four or eight to an integer; with a      *)
(* small B small integers have several of them.  The characters of a line  *)
(* are the digits 0 .. 9 and those below.                                  *)
(***************************************************************************)
EXTENDS Integers, Sequences, SequencesExt

CONSTANT B  \* 256

ASSUME EncodingAssumption == B \in Nat \ {0, 1}

VARIABLE logs  \* some logs, on which the properties are stated

Fail  == [ok |-> FALSE, value |-> <<>>, rest |-> <<>>]  \* an exception
Ok(value, rest) == [ok |-> TRUE, value |-> value, rest |-> rest]
-----------------------------------------------------------------------------
(***************************************************************************)
(* Bytes.                                                                  *)
(***************************************************************************)

Pow[n \in Nat] == IF n = 0 THEN 1 ELSE B * Pow[n - 1]

\* The n bytes of a number in memory, the lowest first, and back.
Bytes(v, n) == [i \in 1 .. n |-> (v \div Pow[i - 1]) % B]
Number(s)   == FoldRight(LAMBDA byte, v : byte + B * v, s, 0)

swap_endian(v, n) == Number(Reverse(Bytes(v, n)))

\* Mutation: only what is read is swapped.
WriteUint_Unswapped(v, n) == Bytes(v, n)

WriteUint(v, n) == Bytes(swap_endian(v, n), n)

ReadUint(s, n) ==
  IF Len(s) < n THEN Fail
  ELSE Ok(swap_endian(Number(SubSeq(s, 1, n)), n), SubSeq(s, n + 1, Len(s)))

write_string(str) == WriteUint(Len(str), 4) \o str

read_string(s) ==
  LET size == ReadUint(s, 4) IN
    IF ~size.ok \/ Len(size.rest) < size.value THEN Fail
    ELSE Ok(SubSeq(size.rest, 1, size.value),
            SubSeq(size.rest, size.value + 1, Len(size.rest)))

serialize(e) ==
  WriteUint(e.id, 8) \o write_string(e.process_name) \o WriteUint(e.timestamp_ms, 8)
    \o WriteUint(e.log_type, 4) \o WriteUint(e.value, 8)

deserialize(s) ==
  LET id == ReadUint(s, 8)             name  == read_string(id.rest)
      ts == ReadUint(name.rest, 8)     type  == ReadUint(ts.rest, 4)
      v  == ReadUint(type.rest, 8)
  IN IF ~(id.ok /\ name.ok /\ ts.ok /\ type.ok /\ v.ok) THEN Fail
     ELSE Ok([id |-> id.value, process_name |-> name.value, timestamp_ms |-> ts.value,
              log_type |-> type.value, value |-> v.value], v.rest)

write_vector(es) == WriteUint(Len(es), 4) \o FlattenSeq([i \in DOMAIN es |-> serialize(es[i])])

\* What may be read: if "count" is cut short it is whatever was in memory.
\* Any count but 0 then fails at the first item.
read_vector(s) ==
  LET count == ReadUint(s, 4)
      item[i \in Nat] ==
        IF i = 0 THEN Ok(<<>>, count.rest)
        ELSE LET e == deserialize(item[i - 1].rest) IN
               IF item[i - 1].ok /\ e.ok THEN Ok(Append(item[i - 1].value, e.value), e.rest)
                                         ELSE Fail
  IN IF count.ok THEN {item[count.value]} ELSE {Fail, Ok(<<>>, <<>>)}
-----------------------------------------------------------------------------
(***************************************************************************)
(* Lines.                                                                  *)
(***************************************************************************)

Bar == 10    \* '|'
NL  == 11    \* '\n'
CR  == 12    \* '\r'
Letter == 13 \* any other

\* std::ostream << and std::from_chars.  With no digit, from_chars leaves the
\* number as it is, here uninitialized.
Decimal[v \in Nat] == IF v < 10 THEN <<v>> ELSE Append(Decimal[v \div 10], v % 10)
Unset == -1
FromChars(t) ==
  LET end == SelectInSeq(Append(t, NL), LAMBDA c : c > 9) - 1 IN
    IF end = 0 THEN Unset ELSE FoldLeft(LAMBDA v, c : 10 * v + c, 0, SubSeq(t, 1, end))

\* std::getline(ss, _, '|'): what comes before the first '|', and after it.
Before(t) == SubSeq(t, 1, SelectInSeq(Append(t, Bar), LAMBDA c : c = Bar) - 1)
After(t)  == SubSeq(t, Len(Before(t)) + 2, Len(t))

serialize_str(e) ==
  Decimal[e.id] \o <<Bar>> \o e.process_name \o <<Bar>> \o Decimal[e.timestamp_ms]
    \o <<Bar>> \o Decimal[e.log_type] \o <<Bar>> \o Decimal[e.value] \o <<NL>>

\* Of a line that is not empty.
deserialize_str(line) ==
  LET name == After(line)  ts == After(name)  type == After(ts)  v == After(type)
  IN [id |-> FromChars(Before(line)), process_name |-> Before(name),
      timestamp_ms |-> FromChars(Before(ts)), log_type |-> FromChars(Before(type)),
      value |-> FromChars(Before(v))]

without_cr(t) == FoldLeft(LAMBDA kept, c : IF c = CR THEN kept ELSE Append(kept, c), <<>>, t)

\* Mutation: a newline at the end is not skipped.
get_last_line_of_file_NoSkip(t) ==
  SubSeq(t, SelectLastInSeq(t, LAMBDA c : c = NL) + 1, Len(t))

\* Back from the end: over newlines, to the one before, without the '\r's.
get_last_line_of_file(t) ==
  LET end   == SelectLastInSeq(t, LAMBDA c : c \notin {NL, CR})
      line  == SubSeq(t, 1, end)
      begin == SelectLastInSeq(line, LAMBDA c : c = NL) + 1
  IN without_cr(SubSeq(line, begin, end))

\* last_acked_id as handle_recv_log deduces it from the file.
last_acked_id(t) ==
  LET line == get_last_line_of_file(t) IN IF line = <<>> THEN 0 ELSE deserialize_str(line).id
-----------------------------------------------------------------------------
(***************************************************************************)
(* Properties                                                              *)
(***************************************************************************)

\* What the members of a LogEntry can be, and the logs of a batch: numbers of
\* the width they are sent in.
Unsigned(n) == 0 .. Pow[n] - 1
LogEntry == [id : Unsigned(8), process_name : Seq(Nat), timestamp_ms : Unsigned(8),
             log_type : Unsigned(4), value : Unsigned(8)]
IsBatch(es) ==
  /\ es \in Seq(LogEntry) /\ Len(es) \in Unsigned(4)
  /\ \A i \in DOMAIN es : Len(es[i].process_name) \in Unsigned(4)

\* A name with a newline would be two lines of a file.
OneLineNames(es) == \A i \in DOMAIN es : NL \notin ToSet(es[i].process_name)

\* A batch arrives as it was sent; of one that is cut off anywhere nothing
\* is taken, rather than some logs or wrong ones (write_vector_serializeable,
\* read_vector_serializeable).
BatchWholeOrNothing(es) ==
  LET bytes == write_vector(es) IN
    /\ read_vector(bytes) = {Ok(es, <<>>)}
    /\ \A cut \in 0 .. Len(bytes) - 1 :
         \A r \in read_vector(SubSeq(bytes, 1, cut)) : ~r.ok \/ r.value = <<>>

\* In a message a character is a byte.
AsBytes(es) ==
  [i \in DOMAIN es |-> [es[i] EXCEPT !.process_name = [j \in DOMAIN @ |-> @[j] % B]]]

Text(es) == FlattenSeq([i \in DOMAIN es |-> serialize_str(es[i])])

\* The last line of a server's file may be cut off anywhere, by a kill or a
\* failing write.  The id then read from it is never uninitialized and never
\* larger than that line's, and it is that line's as soon as its digits are
\* complete, whatever separators the process's name contains: a line of which
\* only the id was stored counts as stored.  This is about one read; the next
\* line is appended to what is left of this one (ClientHandler).
IdOfTornLine(es) ==
  \A n \in DOMAIN es : \A cut \in 1 .. Len(serialize_str(es[n])) :
    LET line == serialize_str(es[n])
        id   == last_acked_id(Text(SubSeq(es, 1, n - 1)) \o SubSeq(line, 1, cut))
    IN id \in 0 .. es[n].id /\ (cut >= Len(Decimal[es[n].id]) => id = es[n].id)

\* A log the client reads back from its file is the one it wrote, if its name
\* has no separator, and the id is that of any log.
LogSurvivesRestart(es) ==
  \A n \in DOMAIN es :
    LET back == deserialize_str(Front(serialize_str(es[n]))) IN
      /\ back.id = es[n].id
      /\ Bar \notin ToSet(es[n].process_name) => back = es[n]

\* A batch of logs is sent and received as a whole or not at all
\* (BatchWholeOrNothing: write_vector_serializeable, read_vector_serializeable).
BatchesWhole == logs # <<>> => BatchWholeOrNothing(AsBytes(logs))

\* A log survives the client's file, and wherever the server's is cut off it
\* reads an id no larger than the last line's (LogSurvivesRestart,
\* IdOfTornLine: serialize_str, deserialize_str, get_last_line_of_file).
LinesKeepLogs == logs # <<>> => LogSurvivesRestart(logs) /\ IdOfTornLine(logs)
=============================================================================
