---------------------------- MODULE NmeaTokenizer ----------------------------
(* nmea_tokenizer.c: a sentence is cut into the fields between its commas.
   A sentence is a sequence of characters; a token, which the code keeps as
   two pointers into the sentence, is the text between them.               *)
EXTENDS Integers, Sequences, SequencesExt, FiniteSetsExt

CONSTANT MAX_NMEA_TOKENS

ASSUME TokenAssumption == MAX_NMEA_TOKENS \in Nat

NL == "newline"
CR == "return"
COMMA == ","
STAR == "*"
DOLLAR == "$"

\* The initial '$' is optional; the end of the line and a checksum are left
\* out.  The checksum is never compared with anything.
Body(sentence) ==
    LET a == IF sentence # <<>> /\ sentence[1] = DOLLAR THEN Tail(sentence)
                                                     ELSE sentence
        b == IF a # <<>> /\ Last(a) = NL THEN Front(a) ELSE a
        c == IF a # b /\ b # <<>> /\ Last(b) = CR THEN Front(b) ELSE b
    IN  IF Len(c) >= 3 /\ c[Len(c) - 2] = STAR THEN SubSeq(c, 1, Len(c) - 3)
                                              ELSE c

\* The place of the next comma from p on, or of the end.
Comma(body, p) ==
    Min({q \in p .. Len(body) : body[q] = COMMA} \cup {Len(body) + 1})

\* Mutant: an empty field is skipped, as strtok does.
Split_SkipsEmpty(body) ==
    LET from[p \in 1 .. Len(body) + 2] ==
            IF p > Len(body) THEN <<>>
            ELSE LET q == Comma(body, p)
                 IN  (IF p = q THEN <<>> ELSE <<SubSeq(body, p, q - 1)>>)
                     \o from[q + 1]
    IN  from[1]

\* The loop: it ends at the end of the text, so that nothing follows a comma
\* at the very end.
Split(body) ==
    LET from[p \in 1 .. Len(body) + 2] ==
            IF p > Len(body) THEN <<>>
            ELSE LET q == Comma(body, p)
                 IN  <<SubSeq(body, p, q - 1)>> \o from[q + 1]
    IN  from[1]

\* nmea_tokenizer_init: tokens beyond the last place are dropped.
Tokens(sentence) ==
    LET fields == Split(Body(sentence))
    IN  SubSeq(fields, 1, Min({Len(fields), MAX_NMEA_TOKENS}))

\* nmea_tokenizer_get: a token that is not there is empty.
Token(tokens, index) ==
    IF index \in 0 .. Len(tokens) - 1 THEN tokens[index + 1] ELSE <<>>
=============================================================================
