----------------------------- MODULE JsonReader -----------------------------
(***************************************************************************)
(* The JSON pull parser of base/json.c.  A reader is a record r; Feed      *)
(* gives it the next piece of the text, Call starts mm_json_reader_next or *)
(* mm_json_reader_skip, and Enter and Round are the beginning and a round  *)
(* of the loop of mm_json_reader_next.                                     *)
(*                                                                         *)
(* The read position is an offset "at" in one of two memories: the input,  *)
(* which is the last piece fed, and the reader's own buffer, to which what *)
(* is left of a piece is saved.  The end of reading belongs to the memory  *)
(* of the position, except after a string or a number that starts in the   *)
(* buffer and ends in the input (json.c:403): the reader is "stray", it    *)
(* reads the input up to the end of the buffer.  "WILD" is the token for   *)
(* whatever it finds behind the input.                                     *)
(*                                                                         *)
(* A character is a symbol: "Q" and "BS" are the quote and the backslash,  *)
(* "SP" a blank, or any white space outside of strings, and "CTL" another  *)
(* control character.  Letters have one case.                              *)
(***************************************************************************)
EXTENDS Integers, SequencesExt

(* mm_json_reader_prepare *)
Prepared ==
    [token |-> "INITIAL", state |-> "VALUE", value |-> <<>>, escaped |-> FALSE,
     mem |-> "input", at |-> 0, stray |-> FALSE, piece |-> <<>>, input |-> 0, buffer |-> <<>>,
     stack |-> <<>>, skip_level |-> 0, skipping |-> FALSE, run |-> "idle"]

Call(r, skipping) == [r EXCEPT !.skipping = skipping, !.run = "enter"]
Return(r, token) == [r EXCEPT !.token = token, !.run = "idle"]

Push(r, is_object) == [r EXCEPT !.stack = Append(@, is_object), !.at = @ + 1]
Pop(r) == [r EXCEPT !.stack = Front(@), !.at = @ + 1]

-----------------------------------------------------------------------------
(* The input and the internal buffer.                                      *)

From(s, offset) == SubSeq(s, offset + 1, Len(s))
Memory(r) == IF r.mem = "buffer" THEN r.buffer ELSE r.piece
Left(r) == Len(Memory(r)) - r.at

(* mm_json_reader_save_input, up to an offset of the input                 *)
SaveInput(r, limit) ==
    [r EXCEPT !.buffer = IF r.mem = "buffer"
                         THEN From(@, r.at) \o SubSeq(r.piece, r.input + 1, limit)
                         ELSE SubSeq(r.piece, r.at + 1, limit),
              !.mem = "buffer", !.at = 0]

(* mm_json_reader_feed.  A reader that is not stray is fed.                *)
Feed(r, piece) ==
    LET q == IF r.mem = "input" /\ Left(r) = 0 THEN [r EXCEPT !.at = 0] ELSE SaveInput(r, Len(r.piece))
    IN [q EXCEPT !.piece = piece, !.input = 0]

(* What can be read from the position on, also across to the input.        *)
Ahead(r) == From(Memory(r), r.at) \o IF r.mem = "buffer" THEN From(r.piece, r.input) ELSE <<>>

Shortage(r) == Return(r, IF r.stray THEN "WILD" ELSE "PARTIAL")

-----------------------------------------------------------------------------
(* mm_json_reader_check_size brings n characters together in the buffer;   *)
(* mm_json_reader_scan_false, _true and _null.                             *)
CheckSize(r, n) ==
    IF Left(r) >= n THEN r
    ELSE [SaveInput(r, r.input + n - Left(r)) EXCEPT !.input = r.input + n - Left(r)]

ScanWord(r, word, token) ==
    IF Len(Ahead(r)) < Len(word) THEN Shortage(r)
    ELSE IF IsPrefix(word, Ahead(r)) THEN
        Return([CheckSize(r, Len(word)) EXCEPT !.at = @ + Len(word)], token)
    ELSE Return(CheckSize(r, Len(word)), "INVALID")

(* mm_json_string_table and the states of mm_json_reader_scan_string; n    *)
(* counts the characters of the value.                                     *)
Digits == {"0", "1", "2", "3", "4", "5", "6", "7", "8", "9"}
HexDigits == Digits \cup {"a", "b", "c", "d", "e", "f"}
StringStep(s, c) ==
    CASE s.out # "more" -> s
      [] s.state = "NORMAL" /\ c = "Q" -> [s EXCEPT !.out = "end"]
      [] s.state = "NORMAL" /\ c = "BS" -> [s EXCEPT !.state = "ESCAPE", !.escaped = TRUE, !.n = @ + 1]
      [] s.state = "NORMAL" /\ c \notin {"Q", "BS", "CTL"} -> [s EXCEPT !.n = @ + 1]
      [] s.state = "ESCAPE" /\ c \in {"b", "f", "n", "r", "t", "/", "Q", "BS"} ->
            [s EXCEPT !.state = "NORMAL", !.n = @ + 1]
      [] s.state = "ESCAPE" /\ c = "u" -> [s EXCEPT !.state = "HEXNUM", !.n = @ + 1]
      [] s.state = "HEXNUM" /\ c \in HexDigits ->
            [s EXCEPT !.state = IF s.count = 3 THEN "NORMAL" ELSE @, !.count = (@ + 1) % 4, !.n = @ + 1]
      [] OTHER -> [s EXCEPT !.out = "error"]

(* mm_json_number_table and the states of mm_json_reader_scan_number       *)
NumberNext(state, c) ==
    CASE state = "START" /\ c = "-" -> "FIRST"
      [] state \in {"START", "FIRST"} /\ c = "0" -> "ONLY"
      [] state \in {"START", "FIRST"} /\ c \in Digits \ {"0"} -> "NEXT"
      [] state \in {"NEXT", "FNEXT", "ENEXT"} /\ c \in Digits -> state
      [] state \in {"NEXT", "ONLY"} /\ c = "." -> "FFIRST"
      [] state = "FFIRST" /\ c \in Digits -> "FNEXT"
      [] state \in {"NEXT", "ONLY", "FNEXT"} /\ c = "e" -> "ESTART"
      [] state = "ESTART" /\ c \in {"-", "+"} -> "EFIRST"
      [] state \in {"ESTART", "EFIRST"} /\ c \in Digits -> "ENEXT"
      [] state \in {"NEXT", "ONLY", "FNEXT", "ENEXT"} /\ c \in {"SP", "]", "}", ","} -> "end"
      [] OTHER -> "error"
NumberStep(s, c) ==
    IF s.out # "more" THEN s
    ELSE LET next == NumberNext(s.state, c) IN
        IF next \in {"end", "error"} THEN [s EXCEPT !.out = next]
        ELSE [s EXCEPT !.state = next, !.n = @ + 1]

ScanStart(state) == [state |-> state, count |-> 0, escaped |-> FALSE, n |-> 0, out |-> "more"]

(* The value is the next n characters; one that ends in another memory     *)
(* than it starts in is brought together in the buffer.  Reading goes on   *)
(* behind its end, and a closing quote.                                    *)
TakeValue(r, n, quote) ==
    IF r.mem = "buffer" /\ n >= Left(r) THEN
        LET cp == r.input + n - Left(r)
            q == SaveInput(r, cp)
        IN [q EXCEPT !.value = q.buffer, !.input = cp, !.mem = "input", !.at = cp + quote, !.stray = TRUE]
    ELSE [r EXCEPT !.value = SubSeq(Memory(r), r.at + 1, r.at + n), !.at = @ + n + quote]

(* mm_json_reader_scan_string                                              *)
ScanString(r, token) ==
    LET s == FoldLeft(StringStep, ScanStart("NORMAL"), Tail(Ahead(r))) IN
    CASE s.out = "more" -> Shortage(r)
      [] s.out = "error" -> Return(r, "INVALID")
      [] s.out = "end" ->
            Return(TakeValue([r EXCEPT !.at = @ + 1, !.escaped = s.escaped], s.n, 1), token)

(* mm_json_reader_scan_number                                              *)
ScanNumber(r) ==
    LET s == FoldLeft(NumberStep, ScanStart("START"), Ahead(r)) IN
    CASE s.out = "more" -> Shortage(r)
      [] s.out = "error" -> Return(r, "INVALID")
      [] s.out = "end" -> Return(TakeValue(r, s.n, 0), "NUMBER")

-----------------------------------------------------------------------------
(* mm_json_text_table                                                      *)
Opening == [c \in {"{", "[", "f", "t", "n", "Q"} |->
    CASE c = "{" -> "OBJECT" [] c = "[" -> "ARRAY" [] c = "f" -> "FALSE"
      [] c = "t" -> "TRUE" [] c = "n" -> "NULL" [] c = "Q" -> "STRING"]
TextType(state, c) ==
    CASE c = "SP" -> "SPACE"
      [] state \in {"VALUE", "ARRAY"} /\ c \in DOMAIN Opening -> Opening[c]
      [] state \in {"VALUE", "ARRAY"} /\ c \in Digits \cup {"-"} -> "NUMBER"
      [] state \in {"ARRAY", "ARRAY_VALUE_SEP"} /\ c = "]" -> "ARRAY_END"
      [] state = "ARRAY_VALUE_SEP" /\ c = "," -> "ARRAY_NEXT"
      [] state \in {"OBJECT", "OBJECT_NAME"} /\ c = "Q" -> "NAME"
      [] state \in {"OBJECT", "OBJECT_VALUE_SEP"} /\ c = "}" -> "OBJECT_END"
      [] state = "OBJECT_NAME_SEP" /\ c = ":" -> "OBJECT_VALUE"
      [] state = "OBJECT_VALUE_SEP" /\ c = "," -> "OBJECT_NEXT"
      [] OTHER -> "ERROR"

(* mm_json_reader_next up to its loop                                      *)
After(r) ==
    CASE r.token = "PARTIAL" -> r.state
      [] r.token = "START_DOCUMENT" -> "VALUE"
      [] r.token = "START_OBJECT" -> "OBJECT"
      [] r.token = "START_ARRAY" -> "ARRAY"
      [] r.token = "NAME" -> "OBJECT_NAME_SEP"
      [] r.token = "END_DOCUMENT" -> "SPACE"
      [] OTHER -> IF Last(r.stack) THEN "OBJECT_VALUE_SEP" ELSE "ARRAY_VALUE_SEP"
EndsOfValues == {"STRING", "NUMBER", "FALSE", "TRUE", "NULL", "END_OBJECT", "END_ARRAY"}
Enter(r) ==
    CASE r.token = "INITIAL" -> Return(r, "START_DOCUMENT")
      [] r.token = "INVALID" -> Return(r, "INVALID")
      [] r.token \in EndsOfValues /\ r.stack = <<>> -> Return(r, "END_DOCUMENT")
      [] OTHER -> [r EXCEPT !.state = After(r), !.run = "loop"]

(* A round of the loop, which may just cross over to the input             *)
Act(r, type) ==
    CASE type = "ERROR" -> Return(r, "INVALID")
      [] type = "SPACE" -> [r EXCEPT !.at = @ + 1]
      [] type \in {"ARRAY_NEXT", "OBJECT_VALUE"} -> [r EXCEPT !.at = @ + 1, !.state = "VALUE"]
      [] type = "OBJECT_NEXT" -> [r EXCEPT !.at = @ + 1, !.state = "OBJECT_NAME"]
      [] type = "ARRAY" -> Return(Push(r, FALSE), "START_ARRAY")
      [] type = "OBJECT" -> Return(Push(r, TRUE), "START_OBJECT")
      [] type = "ARRAY_END" -> Return(Pop(r), "END_ARRAY")
      [] type = "OBJECT_END" -> Return(Pop(r), "END_OBJECT")
      [] type = "FALSE" -> ScanWord(r, <<"f", "a", "l", "s", "e">>, "FALSE")
      [] type = "TRUE" -> ScanWord(r, <<"t", "r", "u", "e">>, "TRUE")
      [] type = "NULL" -> ScanWord(r, <<"n", "u", "l", "l">>, "NULL")
      [] type \in {"NAME", "STRING"} -> ScanString(r, type)
      [] type = "NUMBER" -> ScanNumber(r)
Round(r) ==
    CASE Left(r) > 0 -> Act(r, TextType(r.state, Memory(r)[r.at + 1]))
      [] Left(r) = 0 /\ r.mem = "buffer" -> [r EXCEPT !.mem = "input", !.at = r.input]
      [] Left(r) = 0 /\ r.mem = "input" -> Shortage(r)

(* The loop of mm_json_reader_skip around mm_json_reader_next              *)
SkipLevel(r) ==
    CASE r.token \in {"START_OBJECT", "START_ARRAY"} -> r.skip_level + 1
      [] r.token \in {"END_OBJECT", "END_ARRAY"} /\ r.skip_level > 0 -> r.skip_level - 1
      [] OTHER -> r.skip_level
Skip(r) ==
    IF r.run = "idle" /\ r.skipping /\ r.token \notin {"PARTIAL", "INVALID", "WILD"}
    THEN [r EXCEPT !.skip_level = SkipLevel(r), !.run = IF SkipLevel(r) = 0 THEN "idle" ELSE "enter"]
    ELSE r

Advance(r) == Skip(IF r.run = "enter" THEN Enter(r) ELSE Round(r))
=============================================================================
