----------------------------- MODULE NmeaReader -----------------------------
(***************************************************************************)
(* What a complete NMEA sentence does to the reader                        *)
(* (libodroid-gps/nmea_reader.c: nmea_reader_parse and the update helpers),*)
(* up to the point where callbacks are requested.  OdroidGps composes it   *)
(* with the threads; NmeaFramer is how sentences are cut.  Two threads may *)
(* be in the reader at once and nothing is locked, so an operator is what  *)
(* one thread does to the reader in one step: the flags of the fix and the *)
(* list of satellites are stored separately, and a satellite is counted by *)
(* a load and a store.                                                     *)
(*                                                                         *)
(* A sentence is a record of what the code tests in it:                    *)
(*   kind    the letters after the talker, or "short" if there are fewer   *)
(*           than three or the sentence is discarded unread;               *)
(*   valid   the fix status field lets the sentence count;                 *)
(*   fields  the fields that are not empty (a position: long enough);      *)
(*   date    RMC only: "good", "badDay" or "badYear", where the day or the *)
(*           month, or only the year, is not a number, or "short", where   *)
(*           the field has not six characters;                             *)
(*   num, total, sats, prns   GSV only: the sentence's place in its group, *)
(*           the group's size, the satellites in view and how many of the  *)
(*           sentence's four satellite numbers are positive.               *)
(* Coordinates, times and other values are not kept, only which of them    *)
(* the fix has.                                                            *)
(***************************************************************************)
EXTENDS Integers, FiniteSets

CONSTANT Sentences   \* the sentences the receiver may send

Fields == {"altitude", "accuracy", "used", "latlong", "bearing", "speed"}
FixFields == Fields \ {"used"}

SentenceAssumption ==
    \A s \in Sentences :
        /\ s.kind \in {"GGA", "GSA", "GLL", "RMC", "GSV", "other", "short"}
        /\ s.valid \in BOOLEAN
        /\ s.fields \subseteq Fields
        /\ s.date \in {"good", "badDay", "badYear", "short"}
        /\ s.num \in Nat /\ s.total \in Nat /\ s.sats \in Nat
        /\ s.prns \in 0 .. 4
ASSUME SentencesAreRecords == SentenceAssumption

VARIABLES
    flags,      \* fix.flags: what the fix being collected has
    update,     \* the fix is due
    svChanged,  \* sv_status_changed
    numSvs,     \* sv_status.num_svs
    utcDate     \* utc_year, _mon, _day: "unset", "good", or "1999" when the
                \* year is str2int's -1 plus 2000

readerVars == <<flags, update, svChanged, numSvs, utcDate>>

ReaderTypeOK ==
    /\ flags \subseteq FixFields
    /\ update \in BOOLEAN
    /\ svChanged \in BOOLEAN
    /\ numSvs \in Nat
    /\ utcDate \in {"unset", "good", "1999"}

ReaderInit ==
    /\ flags = {}
    /\ update = FALSE
    /\ svChanged = FALSE
    /\ numSvs = 0
    /\ utcDate = "unset"

\* GGA: the altitude, if there is a fix.
ReadGGA(s) ==
    /\ s.kind = "GGA"
    /\ flags' = flags \cup (IF s.valid THEN s.fields \cap {"altitude"} ELSE {})
    /\ UNCHANGED <<update, svChanged, numSvs, utcDate>>

\* GSA: the accuracy.  An accuracy of 99.99 is meant to be left out, but the
\* comparison of the float with the double 99.99 never succeeds.
ReadGSA(s) ==
    /\ s.kind = "GSA"
    /\ flags' = flags \cup (IF s.valid THEN s.fields \cap {"accuracy"} ELSE {})
    /\ UNCHANGED <<update, svChanged, numSvs, utcDate>>

\* GLL: the position.
ReadGLL(s) ==
    /\ s.kind = "GLL"
    /\ flags' = flags \cup (IF s.valid THEN s.fields \cap {"latlong"} ELSE {})
    /\ UNCHANGED <<update, svChanged, numSvs, utcDate>>

\* nmea_reader_update_date: a field of the wrong length, or a day or month
\* that is no number, leaves the date alone.  A year that is no number is
\* 1999, which the test for a negative number does not catch.
UpdateDate(date) ==
    utcDate' = CASE date = "good"    -> "good"
                 [] date = "badYear" -> "1999"
                 [] OTHER            -> utcDate

\* RMC: date and time, position, bearing and speed.
ReadRMC(s) ==
    /\ s.kind = "RMC"
    /\ IF s.valid
       THEN /\ UpdateDate(s.date)
            /\ flags' = flags \cup (s.fields \cap {"latlong", "bearing", "speed"})
       ELSE UNCHANGED <<utcDate, flags>>
    /\ UNCHANGED <<update, svChanged, numSvs>>

\* GSV: the first sentence of a group empties the list.
Empties(s) == s.kind = "GSV" /\ s.sats > 0 /\ s.num = 1

ReadGSV(s) ==
    /\ s.kind = "GSV"
    /\ IF Empties(s)
       THEN numSvs' = 0 /\ svChanged' = FALSE
       ELSE UNCHANGED <<numSvs, svChanged>>
    /\ UNCHANGED <<flags, update, utcDate>>

\* A sentence that is not known, or too short to be.
ReadOther(s) ==
    /\ s.kind \in {"other", "short"}
    /\ UNCHANGED readerVars

Read(s) ==
    \/ ReadGGA(s) \/ ReadGSA(s) \/ ReadGLL(s) \/ ReadRMC(s) \/ ReadGSV(s)
    \/ ReadOther(s)

\* What the parser does next: the fix is due after a valid position, even one
\* that was too short; satellites used are news; satellites in view are
\* counted; and a sentence that is too short asks for no callback.
Follows(s) ==
    CASE s.kind = "short"                                   -> "nmea"
      [] s.kind \in {"GLL", "RMC"} /\ s.valid               -> "due"
      [] s.kind = "GSA" /\ s.valid /\ "used" \in s.fields   -> "changed"
      [] s.kind = "GSV" /\ s.sats > 0                       -> "count"
      [] OTHER                                              -> "fix"

\* r->update = 1 and r->sv_status_changed = 1.
MarkDue == update' = TRUE /\ UNCHANGED <<flags, svChanged, numSvs, utcDate>>
MarkChanged ==
    svChanged' = TRUE /\ UNCHANGED <<flags, update, numSvs, utcDate>>

\* num_svs += 1, of the value that was loaded.
StoreSvs(loaded) ==
    numSvs' = loaded + 1 /\ UNCHANGED <<flags, update, svChanged, utcDate>>

\* The location callback was requested.
ClearFix ==
    /\ flags' = {}
    /\ update' = FALSE
    /\ UNCHANGED <<svChanged, numSvs, utcDate>>

\* The satellite callback was requested.
ClearSv ==
    /\ svChanged' = FALSE
    /\ UNCHANGED <<flags, update, numSvs, utcDate>>

=============================================================================
