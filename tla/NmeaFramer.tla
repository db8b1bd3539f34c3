----------------------------- MODULE NmeaFramer -----------------------------
(***************************************************************************)
(* nmea_reader_addc (libodroid-gps/nmea_reader.c): how the characters that *)
(* come from the receiver are cut into sentences.  Characters go into a    *)
(* buffer of NMEA_MAX_SIZE until a newline completes the sentence; when    *)
(* the buffer is full the line is given up and the reader skips to the     *)
(* next newline.                                                           *)
(*                                                                         *)
(* Only lengths matter here, so a character is either a newline or not.    *)
(* lineLen, last and before are history variables: what the receiver sent, *)
(* against which the framing is judged.                                    *)
(***************************************************************************)
EXTENDS Naturals

CONSTANTS
    NMEA_MAX_SIZE,  \* characters the buffer holds: sizeof(in) - 1
    MIN_SENTENCE,   \* nmea_reader_parse discards anything shorter
    MaxLine         \* bound: characters the receiver puts on one line

ASSUME SizeAssumption == NMEA_MAX_SIZE \in Nat \ {0} /\ MaxLine \in Nat
                         /\ MIN_SENTENCE \in Nat

VARIABLES
    pos,       \* characters in the buffer
    overflow,  \* skipping to the next newline
    lineLen,   \* history: characters of the current line so far
    last,      \* history: the line before, its length and whether it was
    before     \*          handed to the parser; and the one before that

framerVars == <<pos, overflow, lineLen, last, before>>

Fate == [len : 0 .. MaxLine, parsed : BOOLEAN]

FramerTypeOK ==
    /\ pos \in 0 .. NMEA_MAX_SIZE
    /\ overflow \in BOOLEAN
    /\ lineLen \in 0 .. MaxLine
    /\ last \in Fate
    /\ before \in Fate

FramerInit ==
    /\ pos = 0
    /\ overflow = FALSE
    /\ lineLen = 0
    /\ last = [len |-> 0, parsed |-> TRUE]
    /\ before = [len |-> 0, parsed |-> TRUE]

\* History: one more character of the line, or its end.
Sent(newline, parsed) ==
    IF newline
    THEN /\ lineLen' = 0
         /\ last' = [len |-> lineLen, parsed |-> parsed]
         /\ before' = last
    ELSE /\ lineLen < MaxLine
         /\ lineLen' = lineLen + 1
         /\ UNCHANGED <<last, before>>

\* Skipping: the newline ends it.
Skip(newline) ==
    /\ overflow
    /\ overflow' = ~newline
    /\ UNCHANGED pos
    /\ Sent(newline, FALSE)

\* Mutant: the buffer is not emptied.
Overrun_KeepsPos(newline) ==
    /\ ~overflow
    /\ pos >= NMEA_MAX_SIZE
    /\ overflow' = TRUE
    /\ UNCHANGED pos
    /\ Sent(newline, FALSE)

\* The buffer is full: the character is dropped, whatever it is, and the
\* reader starts skipping.
Overrun(newline) ==
    /\ ~overflow
    /\ pos >= NMEA_MAX_SIZE
    /\ overflow' = TRUE
    /\ pos' = 0
    /\ Sent(newline, FALSE)

\* Mutant: the sentence that fills the buffer is given up.
Store_Short(newline) ==
    /\ ~overflow
    /\ pos < NMEA_MAX_SIZE
    /\ pos' = IF newline THEN 0 ELSE pos + 1
    /\ UNCHANGED overflow
    /\ Sent(newline, pos < NMEA_MAX_SIZE - 1)

\* The character is stored; a newline hands the sentence, newline included,
\* to the parser and empties the buffer.
Store(newline) ==
    /\ ~overflow
    /\ pos < NMEA_MAX_SIZE
    /\ pos' = IF newline THEN 0 ELSE pos + 1
    /\ UNCHANGED overflow
    /\ Sent(newline, pos + 1 >= MIN_SENTENCE)

FramerNext ==
    \E newline \in BOOLEAN : Skip(newline) \/ Overrun(newline) \/ Store(newline)

FramerSpec == FramerInit /\ [][FramerNext]_framerVars

----------------------------------------------------------------------------
\* What is in the buffer is the current line from its first character, so a
\* sentence handed to the parser is a whole line and nothing but that line.
InSync == ~overflow => pos = lineLen

\* A line that fits in the buffer with its newline and is long enough to be a
\* sentence is parsed, with one exception: a line of exactly NMEA_MAX_SIZE
\* characters loses its newline to the full buffer, and the next line is
\* skipped in its place.  Two such lines in a row are never lost.
LostOnlyAfterFull ==
    (/\ last.len < NMEA_MAX_SIZE
     /\ last.len + 1 >= MIN_SENTENCE
     /\ ~last.parsed) => (before.len = NMEA_MAX_SIZE /\ ~before.parsed)

\* A line too long for the buffer never reaches the parser, not even its
\* tail.
LongNeverParsed == last.len >= NMEA_MAX_SIZE => ~last.parsed

\* Why they hold: while the reader skips, the buffer is empty, and either the
\* current line is already too long or the line before it was the one that
\* exactly filled the buffer.
SkipInv == overflow => /\ pos = 0
                       /\ \/ lineLen > NMEA_MAX_SIZE
                          \/ last.len = NMEA_MAX_SIZE /\ ~last.parsed
FramerInv == /\ FramerTypeOK /\ InSync /\ SkipInv
             /\ LostOnlyAfterFull /\ LongNeverParsed
=============================================================================
