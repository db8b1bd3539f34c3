------------------------------ MODULE NmeaInput ------------------------------
(* The framing of NmeaFramer with the characters themselves, and the tokens
   that nmea_reader_parse takes from a sentence.                           *)
EXTENDS NmeaFramer, NmeaTokenizer

CONSTANT Characters   \* what the receiver sends

VARIABLES
    in,     \* NmeaReader::in, up to pos
    line    \* history: the current line as the receiver sent it, as far as
            \* the buffer could hold it

inputVars == <<framerVars, in, line>>

InputInit == FramerInit /\ in = <<>> /\ line = <<>>

\* Mutant: a full buffer is not emptied.
Keep_Overrun(c) ==
    IF c = NL \/ overflow THEN <<>> ELSE Append(in, c)

\* in[pos] as nmea_reader_addc leaves it.
Keep(c) ==
    IF c = NL \/ overflow \/ pos >= NMEA_MAX_SIZE THEN <<>> ELSE Append(in, c)

\* nmea_reader_addc.
AddChar(c) ==
    /\ Skip(c = NL) \/ Overrun(c = NL) \/ Store(c = NL)
    /\ in' = Keep(c)
    /\ line' = IF c = NL THEN <<>>
               ELSE IF Len(line) < NMEA_MAX_SIZE THEN Append(line, c) ELSE line

InputNext == \E c \in Characters \cup {NL} : AddChar(c)

InputSpec == InputInit /\ [][InputNext]_inputVars

----------------------------------------------------------------------------
\* A sentence that a newline would complete now is the line the receiver
\* sent, character by character.
SentenceIsLine == Len(in) = pos /\ (~overflow => in = line)

\* Why it holds: the framing is right, and no newline is kept.
InputTypeOK == /\ in \in Seq(Characters \ {NL})
               /\ line \in Seq(Characters \ {NL})
InputInv == FramerInv /\ InputTypeOK /\ SentenceIsLine

\* What the receiver put between the commas numbered index and index + 1.
Field(body, index) ==
    LET places == {p \in 1 .. Len(body) :
                     /\ body[p] # COMMA
                     /\ Cardinality({q \in 1 .. p - 1 : body[q] = COMMA}) = index}
    IN  IF places = {} THEN <<>> ELSE SubSeq(body, Min(places), Max(places))

\* The parser, which asks for fields by number, gets each as the receiver
\* sent it, with empty fields, a comma at the end and fields that are missing
\* told apart from each other by nothing but the number of tokens.
TokensAreFields ==
    pos < NMEA_MAX_SIZE =>
        LET sentence == Append(in, NL)
        IN  \A i \in -1 .. NMEA_MAX_SIZE :
                Token(Tokens(sentence), i) =
                    IF i < MAX_NMEA_TOKENS THEN Field(Body(sentence), i) ELSE <<>>
=============================================================================
