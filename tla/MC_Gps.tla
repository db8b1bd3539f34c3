------------------------------- MODULE MC_Gps -------------------------------
(* OdroidGps for TLC: the sentences of a receiver's cycle, few enough that
   the runs end.                                                            *)
EXTENDS OdroidGps

\* A sentence of no interest, from which the others differ.
plain == [kind |-> "other", valid |-> TRUE, fields |-> {}, date |-> "good",
          num |-> 1, total |-> 1, sats |-> 0, prns |-> 0]

short == [plain EXCEPT !.kind = "short"]
gga == [plain EXCEPT !.kind = "GGA", !.fields = {"altitude"}]
used == [plain EXCEPT !.kind = "GSA", !.fields = {"used"}]
gll == [plain EXCEPT !.kind = "GLL", !.fields = {"latlong"}]
rmc == [plain EXCEPT !.kind = "RMC", !.fields = {"latlong", "speed"}]
void == [rmc EXCEPT !.valid = FALSE]
badYear == [rmc EXCEPT !.date = "badYear"]
badDay == [rmc EXCEPT !.date = "badDay"]
svs(num, total, sats, prns) ==
    [plain EXCEPT !.kind = "GSV", !.num = num, !.total = total, !.sats = sats,
                  !.prns = prns]

\* One sentence of each kind that matters to the threads.
cycle == {plain, short, gga, rmc, void, badDay, badYear}
\* Only fixes.
fixes == {rmc}
\* Only positions.
positions == {gll}
\* Groups of satellites that may be cut or mixed, with sentences in between.
groups == {short, gga, void, used, svs(1, 2, 2, 1), svs(2, 2, 2, 2),
           svs(2, 2, 1, 2), svs(1, 1, 0, 0)}
=============================================================================
