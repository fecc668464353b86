----------------------------- MODULE NmeaParser -----------------------------
(***************************************************************************)
(* The NMEA parser of the vehicle gateway (hnmea.cpp): four sentence types *)
(* are parsed field by field into one GNS_DATA record, which keeps what    *)
(* earlier sentences stored.  `valid_new` holds the fields this sentence   *)
(* announced, `valid` the fields announced so far; a field and its bit     *)
(* share a name, and the extension bits are kept in the same sets.         *)
(*                                                                         *)
(* A sentence is its name, the state of its checksum and its fields.  The  *)
(* field of index 0 is the name; a field is a letter, a number or empty.   *)
(***************************************************************************)
EXTENDS Integers, Sequences, FiniteSetsExt, SequencesExt

Letter(c) == [c |-> c, v |-> 0]
Number(n) == [c |-> "#", v |-> n]
Blank     == [c |-> "", v |-> 0]

Filled(t) == t.c # ""
Long(t)   == t.c = "#"   \* numbers are long enough, letters are not

\* Values no receiver sends mark the fields as never stored.
NoDegrees == 999
NoMetres  == -1000
NoFix     == -1
Unset     == -99

GNS_DATA_FIELDS == {"time", "date", "lat", "lon", "alt", "geoid", "speed", "course",
                    "hdop", "vdop", "pdop", "usat", "usat_gps", "usat_glo", "fix2d",
                    "fix3d", "hacc", "vacc", "valid", "valid_new"}

HNMEA_Init_GNS_DATA ==
  [f \in GNS_DATA_FIELDS |->
     CASE f \in {"lat", "lon"}         -> NoDegrees
       [] f \in {"alt", "geoid"}       -> NoMetres
       [] f \in {"fix2d", "fix3d"}     -> NoFix
       [] f \in {"valid", "valid_new"} -> {}
       [] OTHER                        -> Unset]

Announce(d, f) == [d EXCEPT !.valid_new = @ \cup {f}]
Put(d, f, n)   == Announce([d EXCEPT ![f] = n], f)

\* The loop over the fields of a sentence: Field(d, i, t) treats field i, the
\* fields after `last` are ignored.
OverFields(Field(_, _, _), d, fields, last) ==
  LET n == Min({last, Len(fields)})
      after[i \in 0 .. n] == IF i = 0 THEN d ELSE Field(after[i - 1], i, fields[i])
  IN  after[n]

\* At the start of every parser, and at its end.
Opened(d) == [d EXCEPT !.valid_new = {}]
Closed(d) == [d EXCEPT !.valid = @ \cup d.valid_new]

(***************************************************************************)
(* RMC.  The position is stored only when the sentence reports a fix; the  *)
(* hemisphere letters negate what is stored, whether it is of this         *)
(* sentence or not.                                                        *)
(***************************************************************************)
\* Mutant: the status of the sentence is not looked at.
FixAssumed(d) == TRUE

FixReported(d) == "fix2d" \in d.valid_new /\ d.fix2d = 1

RmcField(d, i, t) ==
  CASE i = 1 /\ Long(t)                     -> Put(d, "time", t.v)
    [] i = 2 /\ Filled(t)                   -> Put(d, "fix2d", IF t.c = "A" THEN 1 ELSE 0)
    [] i = 3 /\ FixReported(d) /\ Long(t)   -> Put(d, "lat", t.v)
    [] i = 4 /\ t.c = "S"                   -> [d EXCEPT !.lat = -@]
    [] i = 5 /\ FixReported(d) /\ Long(t)   -> Put(d, "lon", t.v)
    [] i = 6 /\ t.c = "W"                   -> [d EXCEPT !.lon = -@]
    [] i = 7 /\ FixReported(d) /\ Filled(t) -> Put(d, "speed", t.v)
    [] i = 8 /\ FixReported(d) /\ Filled(t) -> Put(d, "course", t.v)
    [] i = 9 /\ Long(t)                     -> Put(d, "date", t.v)
    [] OTHER                                -> d

HNMEA_Parse_RMC(d, fields) == Closed(OverFields(RmcField, Opened(d), fields, 9))

(***************************************************************************)
(* GGA.  Position, altitude and geoid separation wait in locals until the  *)
(* fix indicator and the units are read; their bits do not wait.           *)
(***************************************************************************)
GgaLocals == [lat |-> 0, lon |-> 0, alt |-> 0, geoid |-> 0]

Withdraw(d, fs) == [d EXCEPT !.valid_new = @ \ fs]

Await(w, f, n)  == [d |-> Announce(w.d, f), local |-> [w.local EXCEPT ![f] = n]]
Negate(w, f)    == [w EXCEPT !.local[f] = -@]
Take(w, f)      == [w EXCEPT !.d[f] = w.local[f]]
Stored(w, f, n) == [w EXCEPT !.d = Put(w.d, f, n)]

\* At the letter of the unit.
TakeIf(w, f, inMetres) ==
  IF inMetres THEN Take(w, f) ELSE [w EXCEPT !.d = Withdraw(@, {f})]

FixIndicator(w, t) ==
  IF t.c = "#" /\ t.v \in {1, 2, 6}
  THEN Take(Take(Stored(w, "fix2d", 1), "lat"), "lon")
  ELSE [w EXCEPT !.d = Withdraw(Put(w.d, "fix2d", 0), {"lat", "lon"})]

GgaPosition(w, i, t) ==
  CASE i = 1 /\ Long(t)   -> Stored(w, "time", t.v)
    [] i = 2 /\ Long(t)   -> Await(w, "lat", t.v)
    [] i = 3 /\ t.c = "S" -> Negate(w, "lat")
    [] i = 4 /\ Long(t)   -> Await(w, "lon", t.v)
    [] i = 5 /\ t.c = "W" -> Negate(w, "lon")
    [] i = 6 /\ Filled(t) -> FixIndicator(w, t)
    [] OTHER              -> w

GgaHeight(w, i, t) ==
  CASE i = 7  -> Stored(w, "usat", t.v)
    [] i = 8  -> Stored(w, "hdop", t.v)
    [] i = 9  -> Await(w, "alt", t.v)
    [] i = 10 -> TakeIf(w, "alt", t.c = "M" /\ w.d.fix2d # 0)
    [] i = 11 -> Await(w, "geoid", t.v)
    [] i = 12 -> TakeIf(w, "geoid", t.c = "M")

GgaField(w, i, t) ==
  IF i <= 6 THEN GgaPosition(w, i, t) ELSE IF Filled(t) THEN GgaHeight(w, i, t) ELSE w

HNMEA_Parse_GGA(d, fields) ==
  Closed(OverFields(GgaField, [d |-> Opened(d), local |-> GgaLocals], fields, 12).d)

(***************************************************************************)
(* GSA: the kind of fix, the satellites used and the dilutions; since      *)
(* NMEA 4.1 one sentence per satellite system.                             *)
(***************************************************************************)
FixKind(d, t) ==
  Put(Put(d, "fix2d", IF t.c = "#" /\ t.v \in {2, 3} THEN 1 ELSE 0),
      "fix3d", IF t.c = "#" /\ t.v = 3 THEN 1 ELSE 0)

GsaField(d, i, t) ==
  CASE i = 2 /\ Filled(t)  -> FixKind(d, t)
    [] i = 15 /\ Filled(t) -> Put(d, "pdop", t.v)
    [] i = 16 /\ Filled(t) -> Put(d, "hdop", t.v)
    [] i = 17 /\ Filled(t) -> Put(d, "vdop", t.v)
    [] OTHER               -> d

\* The counters of satellites by the system they belong to; 0 is no system.
Counters == <<"usat", "usat_gps", "usat_glo">>

SatellitesUsed(fields) ==
  Quantify(3 .. Min({14, Len(fields)}), LAMBDA i : Filled(fields[i]))

SystemId(fields) == IF Len(fields) >= 18 THEN fields[18].v ELSE 0

CountSatellites(d, fields) ==
  IF SatellitesUsed(fields) > 0 /\ SystemId(fields) \in 0 .. 2
  THEN Put(d, Counters[SystemId(fields) + 1], SatellitesUsed(fields))
  ELSE d

HNMEA_Parse_GSA(d, fields) ==
  Closed(CountSatellites(OverFields(GsaField, Opened(d), fields, 17), fields))

(***************************************************************************)
(* GST: the accuracies.  The horizontal one needs both deviations.         *)
(***************************************************************************)
\* sqrt(lat_std^2 + lon_std^2), rounded down; the deviations are small.
Hypotenuse(x, y) == Max({r \in 0 .. (x + y) : r * r <= x * x + y * y})

GstField(fields, d, i, t) ==
  CASE i = 1 /\ Long(t)                        -> Put(d, "time", t.v)
    [] i = 7 /\ Filled(t) /\ Filled(fields[6]) -> Put(d, "hacc", Hypotenuse(fields[6].v, t.v))
    [] i = 8 /\ Filled(t)                      -> Put(d, "vacc", t.v)
    [] OTHER                                   -> d

HNMEA_Parse_GST(d, fields) ==
  Closed(OverFields(LAMBDA a, i, t : GstField(fields, a, i, t), Opened(d), fields, 8))

(***************************************************************************)
(* Any sentence.  One without a checksum counts as sound.                  *)
(***************************************************************************)
HNMEA_Checksum_Valid(s) == s.checksum # "wrong"

HNMEA_Parse(s, d) ==
  CASE s.name \notin {"RMC", "GGA", "GSA", "GST"} -> [result |-> "UNKNOWN", data |-> d]
    [] ~HNMEA_Checksum_Valid(s) -> [result |-> "BAD_CHKSUM", data |-> d]
    [] s.name = "RMC" -> [result |-> "RMC", data |-> HNMEA_Parse_RMC(d, s.fields)]
    [] s.name = "GGA" -> [result |-> "GGA", data |-> HNMEA_Parse_GGA(d, s.fields)]
    [] s.name = "GSA" -> [result |-> "GSA", data |-> HNMEA_Parse_GSA(d, s.fields)]
    [] s.name = "GST" -> [result |-> "GST", data |-> HNMEA_Parse_GST(d, s.fields)]
=============================================================================
