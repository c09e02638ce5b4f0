--------------------------- MODULE MemcacheReader ---------------------------
(***************************************************************************)
(* A memcache connection from the received bytes to the executed commands: *)
(* mc_reader_routine of memcache/memcache.c, the ASCII parser of parser.c  *)
(* and the binary parser of binary.c.                                      *)
(*                                                                         *)
(* The input is a sequence of symbols.  A command word (with the space the *)
(* parser matches along with it, if any), "oreply" and a binary header are *)
(* one symbol each; every other symbol is a byte.  The input gets into the *)
(* receive buffer in pieces of any size, and a piece may start a new buffer*)
(* segment.  A position p in "cuts" says a segment ends with symbol p.     *)
(***************************************************************************)
EXTENDS Integers, Sequences, SequencesExt, FiniteSets, FiniteSetsExt

CONSTANTS
  Streams,    \* the inputs of a client: sequences of symbols
  Headers,    \* binary header symbols: their fields (a function)
  KeyMax,     \* MC_KEY_LEN_MAX
  Span,       \* 1024: contiguous input wanted by the ASCII parser
  JunkMax,    \* 16K: input a lookup command may scan
  NumMod,     \* 2^32: numbers wrap around
  Now, MonthMax,  \* the clock and the longest relative expiration time, in seconds
  BatchSize,  \* mc_config.batch_size
  MaxCuts     \* bound: segment ends at a time

VARIABLES
  stream, have,  \* the client's bytes; how many are in the buffer or consumed
  cuts,       \* where buffer segments end
  head,       \* the position the reader is at between commands
  pc,         \* the reader routine
  m,          \* the parser's locals while it waits for the bytes of a value
  left,       \* commands left in the batch
  batch, detached,  \* commands of the batch; command_last is off the list
  done,       \* commands executed
  lost, leaked  \* ghosts: commands dropped off the list, entries never released

mvars == <<stream, have, cuts, head, pc, m, left, batch, detached, done, lost, leaked>>

--------------------------------------------------------------------------
(* Symbols *)

Words4 == {"get", "set", "add", "cas", "quit"}
Words5 == {"gets", "incr", "decr", "replace", "append", "prepend", "delete", "touch",
           "slabs", "stats", "flush_all", "version", "verbosity"}
Words == Words4 \cup Words5

Digits == [c \in {"0", "1", "2", "9"} |->
             CASE c = "0" -> 0 [] c = "1" -> 1 [] c = "2" -> 2 [] OTHER -> 9]

Eol == {"CR", "LF"}

Bytes(c) == IF c \in Words4 THEN 4 ELSE IF c \in Words5 THEN 5 ELSE 1

\* Where mc_parser_parse starts each command: the parser, its state and its shift.
StartOf(w) ==
  CASE w \in {"get", "gets"}              -> <<"lookup", "SPACE", "GET_1">>
    [] w \in {"set", "add", "cas"}        -> <<"storage", "SPACE", "SET_1">>
    [] w \in {"replace", "append", "prepend"} -> <<"storage", "MATCH", "SET_1">>
    [] w \in {"incr", "decr"}             -> <<"storage", "SPACE", "DELTA_1">>
    [] w = "delete"                       -> <<"other", "MATCH", "DELETE_1">>
    [] w = "touch"                        -> <<"other", "MATCH", "TOUCH_1">>
    [] w \in {"slabs", "stats"}           -> <<"other", "MATCH", "OPT">>
    [] w = "flush_all"                    -> <<"other", "MATCH", "FLUSH_ALL_1">>
    [] w = "version"                      -> <<"other", "MATCH", "EOL">>
    [] w = "verbosity"                    -> <<"other", "MATCH", "VERBOSITY_1">>
    [] w = "quit"                         -> <<"other", "SPACE", "EOL">>

Error == [cmd |-> "error", key |-> <<>>, nums |-> <<>>, val |-> <<>>, flag |-> FALSE]
Quit == [Error EXCEPT !.cmd = "quit", !.flag = TRUE]   \* the one a broken connection gets
Concats == {"append", "prepend"}

--------------------------------------------------------------------------
(* The ASCII parser.  i: the input [s, have, cuts]; p: the parser's locals *)

SegEnd(i, s) == Min({c \in i.cuts : c >= s} \cup {i.have})

\* mc_parser_scan_lf looks into the next segment, not beyond the received input.
ScanLf(i, s) == s < i.have /\ i.s[s + 1] = "LF"

Locals(i, s, cmd, start) ==
  [cmd |-> cmd, parser |-> start[1], st |-> start[2], sh |-> start[3], match |-> "",
   s |-> s, e |-> SegEnd(i, s), rget |-> s, count |-> 0, key |-> <<>>, ks |-> 0,
   num |-> 0, nums |-> <<>>, val |-> <<>>, flag |-> FALSE, cmds |-> <<>>,
   entry |-> FALSE, made |-> 1, out |-> "run"]

Command(p) == [cmd |-> p.cmd, key |-> p.key, nums |-> p.nums, val |-> p.val, flag |-> p.flag]

Eat(p) == [p EXCEPT !.s = @ + 1]
To(p, st) == [p EXCEPT !.st = st]
Then(p, st, sh) == [p EXCEPT !.st = st, !.sh = sh]
TakeNum(p) == [p EXCEPT !.nums = Append(@, p.num)]
\* mc_entry_fix_exptime: a short time is relative to the clock.
FixExptime(n) == IF n # 0 /\ n <= MonthMax THEN (n + Now) % NumMod ELSE n
TakeTime(p) == [p EXCEPT !.nums = Append(@, FixExptime(p.num))]
Fail(p) == [p EXCEPT !.st = "ERROR"]

\* A key that is as long as it may be is refused where its segment ends.
CopyKeyShort(i, p) ==
  IF p.s - p.ks >= KeyMax THEN Fail(p)
  ELSE To([p EXCEPT !.key = SubSeq(i.s, p.ks, p.s - 1)], "KEY_COPY")

\* The part of a key in the segment that ends is copied; the rest will be appended.
CopyKey(i, p) ==
  IF p.s - p.ks > KeyMax THEN Fail(p)
  ELSE To([p EXCEPT !.key = SubSeq(i.s, p.ks, p.s - 1)],
          IF p.s - p.ks = KeyMax THEN "KEY_EDGE" ELSE "KEY_COPY")

\* The end of a segment is the end of what a storage or another command scans.
AtSegmentEnd(p) == [p EXCEPT !.out = IF p.e - p.rget + 1 >= Span THEN "trash" ELSE "more"]

\* A lookup command goes on to the next segment, if there is one.
AtLookupEnd(i, p) ==
  LET count == p.count + p.e - p.rget + 1
      q == IF p.st = "KEY_N" THEN CopyKey(i, p) ELSE p
  IN  IF count > JunkMax THEN [p EXCEPT !.out = "trash"]
      ELSE IF p.e = i.have THEN [q EXCEPT !.out = "more"]
      ELSE [q EXCEPT !.count = count, !.rget = p.s, !.e = SegEnd(i, p.s)]

AtEnd(i, p) == IF p.parser = "lookup" THEN AtLookupEnd(i, p) ELSE AtSegmentEnd(p)

\* mc_parser_scan_value, and the check of the byte behind the value.
ScanValue(i, p) ==
  LET len == p.nums[3]
      s == p.s + len
  IN  IF len + 1 > i.have - p.s + 1 THEN [p EXCEPT !.out = "fill"]
      ELSE IF len > 0 /\ (s - 1) \in i.cuts THEN [p EXCEPT !.out = "wild"]
      ELSE [p EXCEPT !.val = SubSeq(i.s, p.s, s - 1), !.s = s, !.rget = s,
                     !.e = SegEnd(i, s), !.st = "EOL", !.out = "run"]

--------------------------------------------------------------------------
(* The switches of the three parsers.  A state takes the symbol c (Eat), or  *)
(* leaves it to the next state, which is the code's "goto again".            *)

Ends(i, p, c) == c = "LF" \/ (c = "CR" /\ ScanLf(i, p.s))

StepMatch(p, c) ==
  IF p.match = "oreply"
  THEN IF c = "oreply" THEN Eat([p EXCEPT !.match = ""]) ELSE Fail(p)
  ELSE IF c = "SP" THEN Eat(To(p, "SPACE"))
  ELSE IF c \in Eol THEN To(p, p.sh) ELSE Eat(Fail(p))

StepSpace(p, c) == IF c = "SP" THEN Eat(p) ELSE To(p, p.sh)

StepKey(i, p, c) ==
  LET len == p.s - p.ks
      q == IF len > KeyMax THEN Fail(p)
           ELSE To([p EXCEPT !.key = SubSeq(i.s, p.ks, p.s - 1)], IF c = "SP" THEN "SPACE" ELSE p.sh)
  IN  CASE p.st = "KEY" -> IF Ends(i, p, c) THEN Fail(p)
                           ELSE Eat([p EXCEPT !.st = "KEY_N", !.ks = p.s])
        [] p.st = "KEY_N" -> IF c = "SP" THEN Eat(q) ELSE IF Ends(i, p, c) THEN q ELSE Eat(p)

\* A key that goes on in the next segment.
StepKeySplit(i, p, c) ==
  IF c = "SP" THEN Eat(To(p, "SPACE"))
  ELSE IF Ends(i, p, c) THEN To(p, p.sh)
  ELSE IF p.st = "KEY_EDGE" \/ Len(p.key) = KeyMax THEN Eat(Fail(p))
  ELSE Eat([p EXCEPT !.key = Append(@, c)])

StepNum(p, c) ==
  IF c \in DOMAIN Digits
  THEN Eat([p EXCEPT !.st = "NUM_N",
                     !.num = IF p.st = "NUM" THEN Digits[c] ELSE (@ * 10 + Digits[c]) % NumMod])
  ELSE IF p.st = "NUM" THEN Fail(p)
  ELSE IF c = "SP" THEN Eat(To(p, "SPACE"))
  ELSE IF c \in Eol THEN To(p, p.sh) ELSE Eat(Fail(p))

NoReply(p, sh) == Eat([p EXCEPT !.st = "MATCH", !.match = "oreply", !.sh = sh])
OptNoReply(p, c) == IF c = "n" THEN NoReply(p, "NOREPLY") ELSE To(p, "EOL")

\* One command for each key; the last one is told so.
StepGet(p, c) ==
  IF p.st = "GET_1" THEN Then(p, "KEY", "GET_N")
  ELSE IF c \in Eol
  THEN [p EXCEPT !.cmds = Append(@, Command([p EXCEPT !.flag = TRUE])), !.st = "EOL"]
  ELSE [p EXCEPT !.cmds = Append(@, Command(p)), !.st = "KEY", !.made = @ + 1]

\* S_SET_5: the length of the value is known, the entry is created.
SetValueLength(p) ==
  [p EXCEPT !.nums = Append(@, p.num), !.entry = p.cmd \notin Concats]

StepSet(p, c) ==
  LET value(q) == IF c = "n" THEN NoReply(q, "SET_6") ELSE To(q, "VALUE") IN
  CASE p.st = "SET_1" -> Then(p, "KEY", "SET_2")
    [] p.st = "SET_2" -> Then(p, "NUM", "SET_3")
    [] p.st = "SET_3" -> Then(TakeNum(p), "NUM", "SET_4")
    [] p.st = "SET_4" -> Then(TakeTime(p), "NUM", "SET_5")
    [] p.st = "SET_5" -> IF p.cmd = "cas" THEN Then(SetValueLength(p), "NUM", "CAS")
                         ELSE value(SetValueLength(p))
    [] p.st = "SET_6" -> To([p EXCEPT !.flag = TRUE], "VALUE")
    [] p.st = "CAS"   -> value(TakeNum(p))

StepDelta(p, c) ==
  CASE p.st = "DELTA_1" -> Then(p, "KEY", "DELTA_2")
    [] p.st = "DELTA_2" -> Then(p, "NUM", "DELTA_3")
    [] p.st = "DELTA_3" -> OptNoReply(TakeNum(p), c)

StepValue(i, p, c) ==
  CASE p.st = "VALUE"   -> IF c = "CR" THEN Eat(To(p, "VALUE_1")) ELSE To(p, "VALUE_1")
    [] p.st = "VALUE_1" -> IF c = "LF" THEN Eat(To(p, "VALUE_2")) ELSE Eat(Fail(p))
    [] p.st = "VALUE_2" -> ScanValue(i, p)

StepDelete(p, c) == IF p.st = "DELETE_1" THEN Then(p, "KEY", "DELETE_2") ELSE OptNoReply(p, c)

StepTouch(p, c) ==
  CASE p.st = "TOUCH_1" -> Then(p, "KEY", "TOUCH_2")
    [] p.st = "TOUCH_2" -> Then(p, "NUM", "TOUCH_3")
    [] p.st = "TOUCH_3" -> OptNoReply(TakeTime(p), c)

StepFlushAll(p, c) ==
  IF p.st = "FLUSH_ALL_2" THEN OptNoReply(TakeNum(p), c)
  ELSE IF c \in Eol THEN To(p, "EOL")
  ELSE IF c \in DOMAIN Digits THEN Then(p, "NUM", "FLUSH_ALL_2")
  ELSE IF c = "n" THEN NoReply(p, "NOREPLY") ELSE Fail(p)

StepVerbosity(p, c) ==
  IF p.st = "VERBOSITY_2" THEN OptNoReply(TakeNum(p), c)
  ELSE IF c \in DOMAIN Digits THEN Then(p, "NUM", "VERBOSITY_2") ELSE Fail(p)

\* mc_parser_handle_option counts the options.
HandleOption(p) == [p EXCEPT !.nums = IF p.cmd = "stats" THEN Append(@, Len(@) + 1) ELSE @]

StepOpt(p, c) ==
  IF p.st = "OPT" THEN IF c \in Eol THEN To(p, "EOL") ELSE Eat(To(p, "OPT_N"))
  ELSE IF c = "SP" THEN Eat(To(HandleOption(p), "SPACE"))
  ELSE IF c \in Eol THEN To(HandleOption(p), "EOL") ELSE Eat(p)

StepEol(p, c) ==
  IF p.st = "EOL" THEN IF c = "CR" THEN Eat(To(p, "EOL_1")) ELSE To(p, "EOL_1")
  ELSE IF c = "LF"
  THEN Eat([p EXCEPT !.out = "ok", !.cmds = IF p.parser = "lookup" THEN @ ELSE <<Command(p)>>])
  ELSE Eat(Fail(p))

\* The commands made so far become one that is an error; a line is skipped.
StepError(p, c) ==
  IF p.st = "ERROR" THEN [p EXCEPT !.st = "ERROR_1", !.entry = FALSE, !.cmds = <<Error>>]
  ELSE IF c = "LF" THEN Eat([p EXCEPT !.out = "ok"]) ELSE Eat(p)

\* The states all three switches have, and then those of each.
StepCommon(i, p, c) ==
  CASE p.st = "MATCH" -> StepMatch(p, c)
    [] p.st = "SPACE" -> StepSpace(p, c)
    [] p.st \in {"KEY", "KEY_N"} -> StepKey(i, p, c)
    [] p.st \in {"NUM", "NUM_N"} -> StepNum(p, c)
    [] p.st = "NOREPLY" -> To([p EXCEPT !.flag = TRUE], "EOL")
    [] p.st \in {"EOL", "EOL_1"} -> StepEol(p, c)
    [] p.st \in {"ERROR", "ERROR_1"} -> StepError(p, c)

StepLookup(i, p, c) ==
  CASE p.st \in {"GET_1", "GET_N"} -> StepGet(p, c)
    [] p.st \in {"KEY_EDGE", "KEY_COPY"} -> StepKeySplit(i, p, c)
    [] OTHER -> StepCommon(i, p, c)

StepStorage(i, p, c) ==
  CASE p.st \in {"SET_1", "SET_2", "SET_3", "SET_4", "SET_5", "SET_6", "CAS"} -> StepSet(p, c)
    [] p.st \in {"DELTA_1", "DELTA_2", "DELTA_3"} -> StepDelta(p, c)
    [] p.st \in {"VALUE", "VALUE_1", "VALUE_2"} -> StepValue(i, p, c)
    [] OTHER -> StepCommon(i, p, c)

StepOther(i, p, c) ==
  CASE p.st \in {"DELETE_1", "DELETE_2"} -> StepDelete(p, c)
    [] p.st \in {"TOUCH_1", "TOUCH_2", "TOUCH_3"} -> StepTouch(p, c)
    [] p.st \in {"FLUSH_ALL_1", "FLUSH_ALL_2"} -> StepFlushAll(p, c)
    [] p.st \in {"VERBOSITY_1", "VERBOSITY_2"} -> StepVerbosity(p, c)
    [] p.st \in {"OPT", "OPT_N"} -> StepOpt(p, c)
    [] OTHER -> StepCommon(i, p, c)

Step(i, p, c) ==
  CASE p.parser = "lookup"  -> StepLookup(i, p, c)
    [] p.parser = "storage" -> StepStorage(i, p, c)
    [] p.parser = "other"   -> StepOther(i, p, c)

RECURSIVE Run(_, _)
Run(i, p) ==
  IF p.out # "run" THEN p
  ELSE Run(i, IF p.s > p.e THEN AtEnd(i, p) ELSE Step(i, p, i.s[p.s]))

SkipSpaces(i, s, e) == Min({t \in s .. e : i.s[t] # "SP"} \cup {e + 1})
SumBytes(i, s, e) == FoldLeft(LAMBDA n, c : n + Bytes(c), 0, SubSeq(i.s, s, e))

\* mc_parser_parse
ParseAscii(i, at) ==
  LET e == SegEnd(i, at)
      s == SkipSpaces(i, at, e)
      lead(p) == [p EXCEPT !.rget = at]
      bad == lead(Locals(i, s, "error", <<"other", "ERROR", "ERROR">>))
  IN  IF SumBytes(i, s, e) < 5
      THEN IF e - at + 1 >= Span THEN [bad EXCEPT !.out = "trash"]
           ELSE IF \E t \in s .. e : i.s[t] = "LF" THEN Run(i, bad)
           ELSE [bad EXCEPT !.out = "more"]
      ELSE IF i.s[s] \in Words
      THEN Run(i, lead([Locals(i, s, i.s[s], StartOf(i.s[s])) EXCEPT !.s = s + 1, !.e = e]))
      ELSE Run(i, bad)

--------------------------------------------------------------------------
(* The binary parser.  A header symbol is followed by body_len bytes. *)

KindOf(op) ==
  CASE op \in {"get", "getq", "getk", "getkq"}              -> "LOOKUP"
    [] op \in {"delete", "deleteq"}                         -> "DELETE"
    [] op \in {"set", "setq", "add", "addq", "replace", "replaceq"} -> "STORAGE"
    [] op \in {"append", "appendq", "prepend", "prependq"}  -> "CONCAT"
    [] op \in {"increment", "incrementq", "decrement", "decrementq"} -> "DELTA"
    [] op \in {"flush", "flushq"}                           -> "FLUSH"
    [] op \in {"noop", "quit", "quitq", "version", "stat"}  -> "CUSTOM"
    [] OTHER                                                -> "NONE"

StorageExtra == 2   \* MC_BINARY_STORAGE_EXTRA_SIZE, 8 in the code
DeltaExtra == 3     \* MC_BINARY_DELTA_EXTRA_SIZE, 20
FlushExtra == 1     \* sizeof exp_time, 4

\* mc_binary_fill, mc_binary_skip: a command with n bytes behind the header at t.
BinaryFill(i, t, n, command) ==
  LET p == Locals(i, t, "binary", <<"binary", "BODY", "BODY">>) IN
  IF n > i.have - t THEN [p EXCEPT !.out = "fill"]
  ELSE [p EXCEPT !.s = t + 1 + n, !.out = "ok", !.cmds = <<command>>]

\* mc_binary_unknown_command, mc_binary_invalid_arguments
BinaryError(i, t, h) == BinaryFill(i, t, h.body, Error)

\* n bytes that follow byte number skip of the body (mc_binary_set_key, mm_netbuf_read)
BodyPart(i, t, skip, n) == SubSeq(i.s, t + skip + 1, t + skip + n)

BinaryLookup(i, t, h) ==
  BinaryFill(i, t, h.key, [Error EXCEPT !.cmd = h.op, !.key = BodyPart(i, t, 0, h.key)])

BinaryStorage(i, t, h) ==
  BinaryFill(i, t, h.body,
    [Error EXCEPT !.cmd = h.op, !.nums = BodyPart(i, t, 0, StorageExtra),
                  !.key = BodyPart(i, t, StorageExtra, h.key),
                  !.val = BodyPart(i, t, StorageExtra + h.key, h.body - h.key - StorageExtra)])

BinaryConcat(i, t, h) ==
  BinaryFill(i, t, h.body,
    [Error EXCEPT !.cmd = h.op, !.key = BodyPart(i, t, 0, h.key),
                  !.val = BodyPart(i, t, h.key, h.body - h.key)])

BinaryDelta(i, t, h) ==
  BinaryFill(i, t, h.key + DeltaExtra,
    [Error EXCEPT !.cmd = h.op, !.nums = BodyPart(i, t, 0, DeltaExtra),
                  !.key = BodyPart(i, t, DeltaExtra, h.key)])

BinaryFlush(i, t, h) ==
  LET n == IF h.ext # 0 THEN FlushExtra ELSE 0
  IN  BinaryFill(i, t, n, [Error EXCEPT !.cmd = h.op, !.nums = BodyPart(i, t, 0, n)])

InvalidArguments(h) ==
  LET kind == KindOf(h.op) IN
  \/ h.key + h.ext > h.body
  \/ kind \in {"LOOKUP", "DELETE"} /\ (h.ext # 0 \/ h.key # h.body \/ h.key = 0)
  \/ kind = "STORAGE" /\ (h.ext # StorageExtra \/ h.key = 0)
  \/ kind = "CONCAT" /\ (h.ext # 0 \/ h.key = h.body \/ h.key = 0)
  \/ kind = "DELTA" /\ (h.ext # DeltaExtra \/ h.key + h.ext # h.body \/ h.key = 0)
  \/ kind = "FLUSH" /\ (h.ext \notin {0, FlushExtra} \/ h.key # 0 \/ h.body # h.ext)

ParseBinary(i, t) ==
  LET h == Headers[i.s[t]]
      kind == KindOf(h.op)
  IN  CASE i.s[t] \notin DOMAIN Headers ->
             [Locals(i, t, "binary", <<"binary", "BODY", "BODY">>) EXCEPT !.out = "trash"]
        [] OTHER ->
             CASE InvalidArguments(h) \/ kind = "NONE" -> BinaryError(i, t, h)
               [] kind \in {"LOOKUP", "DELETE"} -> BinaryLookup(i, t, h)
               [] kind = "STORAGE" -> BinaryStorage(i, t, h)
               [] kind = "CONCAT"  -> BinaryConcat(i, t, h)
               [] kind = "DELTA"   -> BinaryDelta(i, t, h)
               [] kind = "FLUSH"   -> BinaryFlush(i, t, h)
               [] kind = "CUSTOM"  -> BinaryFill(i, t, h.body, [Error EXCEPT !.cmd = h.op])

--------------------------------------------------------------------------
(* The reader routine *)

Input == [s |-> stream, have |-> have, cuts |-> cuts]

\* mc_getprotocol looks at the first byte of the connection.
Binary(str) == str[1] \in DOMAIN Headers
Parse(i, t) == IF Binary(i.s) THEN ParseBinary(i, t) ELSE ParseAscii(i, t)
Resume(i, p) == IF Binary(i.s) THEN ParseBinary(i, p.s) ELSE Run(i, ScanValue(i, p))

NoLocals == [parser |-> "none"]

Init ==
  /\ stream \in Streams /\ have = 0 /\ cuts = {} /\ head = 1 /\ pc = "idle" /\ m = NoLocals
  /\ left = 0 /\ batch = <<>> /\ detached = FALSE /\ done = <<>> /\ lost = FALSE /\ leaked = 0

\* mm_netbuf_fill got some input; it may have started a new segment.
Filled ==
  \E n \in 1 .. Len(stream) - have, fresh \in BOOLEAN :
    /\ fresh => have >= head /\ Cardinality(cuts) < MaxCuts
    /\ have' = have + n
    /\ cuts' = IF fresh THEN cuts \cup {have} ELSE cuts

\* The routine starts with an empty command list and a full batch.
Start ==
  /\ pc = "idle"
  /\ IF head > have THEN Filled ELSE UNCHANGED <<have, cuts>>
  /\ pc' = "parse" /\ left' = BatchSize /\ detached' = FALSE
  /\ UNCHANGED <<stream, head, m, batch, done, lost, leaked>>

\* The connection is found closed before there is a command.
StartClosed ==
  /\ pc = "idle" /\ head > have
  /\ pc' = "closed"
  /\ UNCHANGED <<stream, have, cuts, head, m, left, batch, detached, done, lost, leaked>>

\* mm_netbuf_span: the unread input gets contiguous unless enough of it already is.
SpanWidth == IF Binary(stream) THEN 1 ELSE Span
SpanCuts == IF SegEnd(Input, head) - head + 1 >= SpanWidth THEN cuts ELSE {}

\* What the routine does with the result of the parser.  A lookup error leaves
\* state->command_last at a command that is no longer on the list.
Outcome(r) ==
  CASE r.out = "ok" ->
         /\ batch' = IF detached THEN batch ELSE batch \o r.cmds
         /\ lost' = (lost \/ detached)
         /\ detached' = (detached \/ (r.cmds = <<Error>> /\ r.made > 1))
         /\ head' = r.s /\ left' = left - 1
         /\ pc' = IF r.s > have' \/ left = 1 THEN "process" ELSE "parse"
         /\ m' = NoLocals /\ UNCHANGED leaked
    [] r.out = "fill" ->
         /\ m' = r /\ pc' = "fill"
         /\ UNCHANGED <<head, left, batch, detached, lost, leaked>>
    [] r.out = "more" ->
         /\ leaked' = leaked + (IF r.entry THEN 1 ELSE 0)
         /\ pc' = "more" /\ m' = NoLocals
         /\ UNCHANGED <<head, left, batch, detached, lost>>
    [] r.out = "trash" ->
         /\ pc' = "reset" /\ batch' = <<>> /\ m' = NoLocals
         /\ UNCHANGED <<head, left, detached, lost, leaked>>
    [] r.out = "wild" ->
         /\ pc' = "wild" /\ m' = NoLocals
         /\ UNCHANGED <<head, left, batch, detached, lost, leaked>>

ParseNext ==
  /\ pc = "parse"
  /\ cuts' = SpanCuts
  /\ UNCHANGED <<stream, have, done>>
  /\ Outcome(Parse([Input EXCEPT !.cuts = SpanCuts], head))

\* The parser waits for the value (mc_parser_scan_value, mc_binary_fill, mc_binary_skip).
FillValue ==
  /\ pc = "fill" /\ Filled
  /\ UNCHANGED <<stream, done>>
  /\ Outcome(Resume([s |-> stream, have |-> have', cuts |-> cuts'], m))

\* The wait timed out: the command is dropped and parsed again from its start.
FillTimeout ==
  /\ pc = "fill"
  /\ Outcome([m EXCEPT !.out = "more"])
  /\ UNCHANGED <<stream, have, cuts, done>>

\* The command is incomplete: wait for more input and parse it again.
FillMore ==
  /\ pc = "more" /\ Filled
  /\ pc' = "parse"
  /\ UNCHANGED <<stream, head, m, left, batch, detached, done, lost, leaked>>

\* The connection broke within a command: the good ones before it are followed by a quit.
Broken ==
  /\ pc \in {"fill", "more"}
  /\ batch' = IF detached THEN batch ELSE Append(batch, Quit)
  /\ leaked' = leaked + (IF pc = "fill" THEN (IF m.entry THEN 1 ELSE 0) ELSE 0)
  /\ pc' = "process" /\ m' = NoLocals
  /\ UNCHANGED <<stream, have, cuts, head, left, detached, done, lost>>

\* mc_process_command executes the whole list, also what follows a quit.
Process ==
  /\ pc = "process"
  /\ done' = done \o SelectSeq(batch, LAMBDA c : c # Quit)
  /\ pc' = IF \E j \in DOMAIN batch : batch[j].cmd \in {"quit", "quitq"} THEN "closed" ELSE "idle"
  /\ batch' = <<>>
  /\ UNCHANGED <<stream, have, cuts, head, m, left, detached, lost, leaked>>

Next ==
  \/ Start \/ StartClosed \/ ParseNext \/ FillValue \/ FillTimeout \/ FillMore \/ Broken \/ Process

Spec == Init /\ [][Next]_mvars

--------------------------------------------------------------------------
(* Properties *)

\* The commands of a whole input that is in one piece, each with its last position.
RECURSIVE Whole(_, _)
Whole(str, t) ==
  IF t > Len(str) THEN <<>>
  ELSE LET r == Parse([s |-> str, have |-> Len(str), cuts |-> {}], t)
           end == IF Binary(str) THEN t + 1 + Headers[str[t]].body ELSE r.s
       IN  IF r.out # "ok" THEN <<>> ELSE <<[end |-> end, cmds |-> r.cmds]>> \o Whole(str, end)

Consumed(whole) == FlattenSeq([j \in DOMAIN SelectSeq(whole, LAMBDA w : w.end <= head) |-> whole[j].cmds])

\* However the input is split into reads and buffer segments, and however often a command
\* is parsed anew, the commands that are executed are those of the input in one piece, each
\* once and in order, and the read position never leaves the command boundaries.  The two
\* ways to lose this are excluded: "lost" (a lookup error cuts the list, parser.c:338) and
\* "wild" (a value that ends with its segment, parser.c ASSERT(s < e)).
SplitIndependent ==
  (~lost /\ pc # "wild") =>
    LET whole == Whole(stream, 1)
        all == done \o SelectSeq(batch, LAMBDA c : c # Quit)
    IN  /\ IF pc = "reset" THEN IsPrefix(all, Consumed(whole)) ELSE all = Consumed(whole)
        /\ head = 1 \/ \E j \in DOMAIN whole : whole[j].end = head

\* An entry made for a storage command is stored or released.  The code does not keep
\* this: mc_command_cleanup of an incomplete command leaves its new entry behind.
NoEntryLeak == leaked = 0
============================================================================
