----------------------------- MODULE JsonStream -----------------------------
(***************************************************************************)
(* A user of the reader of module JsonReader that has the text of a        *)
(* document in memory and feeds it in pieces, as the unit test of the      *)
(* reader does with one piece.  It feeds at the start and when the reader  *)
(* asks for more, and may skip the value of a name.                        *)
(***************************************************************************)
EXTENDS JsonReader, FiniteSets

CONSTANT Docs     \* documents: their text, and the tokens with their values

VARIABLES
    doc,
    fed,    \* characters fed
    r,      \* the reader
    dry,    \* the reader asked for more and has got nothing yet
    pos     \* tokens of the document that are behind the reader

Init == doc \in Docs /\ fed = 0 /\ r = Prepared /\ dry = FALSE /\ pos = 0

FeedPiece ==
    /\ r.run = "idle" /\ r.token \in {"START_DOCUMENT", "PARTIAL"}
    /\ \E n \in 1 .. Len(doc.text) - fed :
        r' = Feed(r, SubSeq(doc.text, fed + 1, fed + n)) /\ fed' = fed + n
    /\ dry' = FALSE /\ UNCHANGED <<doc, pos>>

(* The position behind the value that starts at token i.                   *)
Depth(i, j) ==
    Cardinality({k \in i .. j : doc.tokens[k][1] \in {"START_OBJECT", "START_ARRAY"}})
    - Cardinality({k \in i .. j : doc.tokens[k][1] \in {"END_OBJECT", "END_ARRAY"}})
EndOfValue(i) == CHOOSE j \in i .. Len(doc.tokens) :
    Depth(i, j) = 0 /\ \A k \in i .. j - 1 : Depth(i, k) > 0

Ask ==
    /\ r.run = "idle" /\ r.token \notin {"WILD", "INVALID"}
    /\ \E skipping \in IF r.token = "NAME" THEN BOOLEAN ELSE {r.token = "PARTIAL" /\ r.skipping} :
        r' = Call(r, skipping)
    /\ UNCHANGED <<doc, fed, dry, pos>>

Proceed ==
    /\ r.run # "idle"
    /\ r' = Advance(r)
    /\ dry' = (r'.run = "idle" /\ r'.token = "PARTIAL")
    /\ pos' = CASE r'.run # "idle" \/ r'.token \in {"PARTIAL", "WILD"} -> pos
                [] r'.run = "idle" /\ r.skipping -> EndOfValue(pos + 1)
                [] OTHER -> pos + 1
    /\ UNCHANGED <<doc, fed>>

Next == FeedPiece \/ Ask \/ Proceed

(* The reader returns the tokens of the document and their values, however *)
(* the text is cut into pieces, and skips a value as a whole; it asks for  *)
(* more only until it has the text of the next token.                      *)
TokensExact ==
    r.run = "idle" /\ r.token \notin {"INITIAL", "WILD"} =>
        IF r.token = "PARTIAL" THEN dry /\ fed = Len(doc.text) => pos = Len(doc.tokens)
        ELSE /\ pos <= Len(doc.tokens) /\ r.token = doc.tokens[pos][1]
             /\ r.token \in {"NAME", "STRING", "NUMBER"} => r.value = doc.tokens[pos][2]
=============================================================================
