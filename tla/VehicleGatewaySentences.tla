----------------------- MODULE VehicleGatewaySentences -----------------------
(***************************************************************************)
(* Proofs about the sentences of the receiver: what the parser keeps of    *)
(* them, what strtok finds in them, and what the main thread sends of a    *)
(* sentence that arrived in full, for any lines of a receiver.             *)
(*                                                                         *)
(* Both the parser and strtok go over the fields of a sentence in a loop.  *)
(* The least-element principle of the natural numbers, which the library   *)
(* states for sets, gives induction over the turns of such a loop.         *)
(***************************************************************************)
EXTENDS VehicleGatewayProofs, WellFoundedInduction, FiniteSetTheorems

(***************************************************************************)
(* Loops.                                                                  *)
(***************************************************************************)
\* Induction: a set with 0 in it and the successor of whatever is in it.
LEMMA Induction ==
  ASSUME NEW S, 0 \in S, \A n \in Nat : n \in S => n + 1 \in S
  PROVE  \A n \in Nat : n \in S
<1> SUFFICES ASSUME NEW n \in Nat, n \notin S PROVE FALSE
  OBVIOUS
<1> DEFINE Less  == OpToRel(<, Nat)
           Above == Nat \ S
<1>1. IsWellFoundedOn(Less, Nat) BY NatLessThanWellFounded, Zenon
<1>2. Above \subseteq Nat /\ Above # {} OBVIOUS
<1> HIDE DEF Less, Above
<1>3. PICK x \in Above : \A y \in Above : ~(<<y, x>> \in Less) BY <1>1, <1>2, WFMin, Zenon
<1> USE DEF Above
<1>4. x \in Nat /\ x \notin S /\ x # 0 OBVIOUS
<1>5. x - 1 \in Nat BY <1>4
<1>6. x - 1 \notin S BY <1>4, <1>5
<1>7. <<x - 1, x>> \in Less BY <1>4, <1>5 DEF Less, OpToRel
<1> QED BY <1>3, <1>5, <1>6, <1>7

\* Induction over the turns of a loop.
LEMMA OverTurns ==
  ASSUME NEW n \in Nat, NEW S, 0 \in S, \A i \in 1 .. n : i - 1 \in S => i \in S
  PROVE  \A i \in 0 .. n : i \in S
<1> DEFINE T == {i \in Nat : i <= n => i \in S}
<1>1. 0 \in T OBVIOUS
<1>2. ASSUME NEW i \in Nat, i \in T PROVE i + 1 \in T
  <2>1. CASE i + 1 <= n
    <3>1. i + 1 \in 1 .. n /\ (i + 1) - 1 = i /\ i \in S BY <1>2, <2>1
    <3> QED BY <3>1
  <2> QED BY <2>1
<1> HIDE DEF T
<1>3. \A i \in Nat : i \in T BY <1>1, <1>2, Induction
<1> QED BY <1>3 DEF T

\* A loop whose turn maps the values D to themselves has a run.
LEMMA LoopRuns ==
  ASSUME NEW D, NEW base \in D, NEW n \in Nat, NEW turn \in [D \X (1 .. n) -> D]
  PROVE  \E run \in [0 .. n -> D] :
           run[0] = base /\ \A i \in 1 .. n : run[i] = turn[<<run[i - 1], i>>]
<1> DEFINE Runs(m) == {run \in [0 .. m -> D] :
              run[0] = base /\ \A i \in 1 .. m : run[i] = turn[<<run[i - 1], i>>]}
           S == {m \in 0 .. n : Runs(m) # {}}
<1>1. 0 \in S
  <2> DEFINE run == [i \in 0 .. 0 |-> base]
  <2>1. run \in Runs(0) OBVIOUS
  <2> QED BY <2>1
<1>2. ASSUME NEW m \in 1 .. n, m - 1 \in S PROVE m \in S
  <2>1. PICK run \in [0 .. m - 1 -> D] :
          run[0] = base /\ \A i \in 1 .. m - 1 : run[i] = turn[<<run[i - 1], i>>]
    BY <1>2
  <2>2. run[m - 1] \in D /\ turn[<<run[m - 1], m>>] \in D OBVIOUS
  <2> DEFINE next == [i \in 0 .. m |-> IF i < m THEN run[i] ELSE turn[<<run[m - 1], m>>]]
  <2>3. next \in [0 .. m -> D] /\ next[0] = base BY <2>1, <2>2
  <2>4. ASSUME NEW i \in 1 .. m PROVE next[i] = turn[<<next[i - 1], i>>]
    <3>1. next[i - 1] = run[i - 1] OBVIOUS
    <3>2. CASE i = m
      <4>1. next[m] = turn[<<run[m - 1], m>>] OBVIOUS
      <4> QED BY <3>1, <3>2, <4>1, Zenon
    <3>3. CASE i < m
      <4>1. i \in 1 .. m - 1 /\ next[i] = run[i] BY <3>3
      <4> QED BY <2>1, <3>1, <4>1, Zenon
    <3> QED BY <3>2, <3>3
  <2>5. next \in Runs(m) BY <2>3, <2>4, Zenon
  <2>6. m \in 0 .. n OBVIOUS
  <2> HIDE DEF Runs
  <2> QED BY <2>5, <2>6
<1> HIDE DEF S
<1>3. n \in S BY <1>1, <1>2, OverTurns
<1> QED BY <1>3, Zenon DEF S

(***************************************************************************)
(* What the parser keeps.                                                  *)
(***************************************************************************)
Flagged == {"valid", "valid_new"}
Numbers == Int \cup {Hypotenuse(x, y) : x \in Int, y \in Int}

GnsData ==
  {d \in [GNS_DATA_FIELDS -> Numbers \cup SUBSET GNS_DATA_FIELDS] :
     /\ d.lat \in Int /\ d.lon \in Int
     /\ d.valid \in SUBSET GNS_DATA_FIELDS /\ d.valid_new \in SUBSET GNS_DATA_FIELDS}

\* The names of the fields that the parsers store.
Named == {"time", "date", "speed", "course", "hdop", "vdop", "pdop", "usat", "usat_gps",
          "usat_glo", "hacc", "vacc", "alt", "geoid", "fix2d", "fix3d"}

\* The fields are those of GNS_DATA.
LEMMA FieldNames ==
  /\ {"lat", "lon", "fix2d", "valid", "valid_new"} \subseteq GNS_DATA_FIELDS
  /\ Named \subseteq GNS_DATA_FIELDS
  /\ \A f \in Named : f \notin Flagged \cup {"lat", "lon"}
BY DEF GNS_DATA_FIELDS, Named, Flagged

\* Storing a value changes it and announces it, and leaves the others.
LEMMA PutStores ==
  ASSUME NEW d \in GnsData, NEW f \in GNS_DATA_FIELDS \ Flagged, NEW n \in Numbers
  PROVE  /\ Put(d, f, n) \in [GNS_DATA_FIELDS -> Numbers \cup SUBSET GNS_DATA_FIELDS]
         /\ \A g \in GNS_DATA_FIELDS \ {f, "valid_new"} : Put(d, f, n)[g] = d[g]
         /\ Put(d, f, n)[f] = n
         /\ Put(d, f, n).valid_new = d.valid_new \cup {f}
<1> DEFINE e == [d EXCEPT ![f] = n]
<1>1. d \in [GNS_DATA_FIELDS -> Numbers \cup SUBSET GNS_DATA_FIELDS] BY DEF GnsData
<1>2. /\ e \in [GNS_DATA_FIELDS -> Numbers \cup SUBSET GNS_DATA_FIELDS]
      /\ \A g \in GNS_DATA_FIELDS \ {f} : e[g] = d[g]
      /\ e[f] = n
  BY <1>1
<1>3. "valid_new" # f /\ "valid_new" \in GNS_DATA_FIELDS BY FieldNames DEF Flagged
<1>4. e["valid_new"] = d["valid_new"] /\ d["valid_new"] \in SUBSET GNS_DATA_FIELDS
  BY <1>2, <1>3 DEF GnsData
<1>5. Put(d, f, n) = [e EXCEPT !["valid_new"] = @ \cup {f}] BY Zenon DEF Put, Announce
<1> HIDE DEF e
<1> QED BY <1>2, <1>3, <1>4, <1>5

\* Storing one of the other fields keeps the types, and the position.
LEMMA PutNamed ==
  ASSUME NEW d \in GnsData, NEW f \in Named, NEW n \in Numbers
  PROVE  /\ Put(d, f, n) \in GnsData
         /\ Put(d, f, n).lat = d.lat /\ Put(d, f, n).lon = d.lon
         /\ f # "fix2d" /\ FixReported(d) => FixReported(Put(d, f, n))
         /\ f = "fix2d" /\ n = 1 => FixReported(Put(d, f, n))
<1> DEFINE e == Put(d, f, n)
<1>1. /\ f \in GNS_DATA_FIELDS \ Flagged /\ f # "lat" /\ f # "lon" /\ f # "valid"
      /\ {"lat", "lon", "fix2d", "valid", "valid_new"} \subseteq GNS_DATA_FIELDS
  BY FieldNames DEF Flagged
<1>2. /\ e \in [GNS_DATA_FIELDS -> Numbers \cup SUBSET GNS_DATA_FIELDS]
      /\ \A g \in GNS_DATA_FIELDS \ {f, "valid_new"} : e[g] = d[g]
      /\ e[f] = n
      /\ e.valid_new = d.valid_new \cup {f}
  BY <1>1, PutStores
<1> HIDE DEF e
<1>3. /\ e["lat"] = d["lat"] /\ e["lon"] = d["lon"] /\ e["valid"] = d["valid"]
      /\ f # "fix2d" => e["fix2d"] = d["fix2d"]
  BY <1>1, <1>2
<1>4. e \in GnsData BY <1>1, <1>2, <1>3 DEF GnsData
<1>5. f # "fix2d" /\ FixReported(d) => FixReported(e)
  BY <1>2, <1>3 DEF FixReported
<1>6. f = "fix2d" /\ n = 1 => FixReported(e)
  BY <1>2 DEF FixReported
<1> QED BY <1>3, <1>4, <1>5, <1>6 DEF e

\* Storing a coordinate keeps the types and what is known of the fix.
LEMMA PutCoordinate ==
  ASSUME NEW d \in GnsData, NEW f \in {"lat", "lon"}, NEW n \in Int
  PROVE  /\ Put(d, f, n) \in GnsData
         /\ FixReported(d) => FixReported(Put(d, f, n))
<1> DEFINE e == Put(d, f, n)
<1>1. /\ f \in GNS_DATA_FIELDS \ Flagged /\ f # "valid" /\ f # "fix2d" /\ n \in Numbers
      /\ {"lat", "lon", "fix2d", "valid", "valid_new"} \subseteq GNS_DATA_FIELDS
  BY FieldNames DEF Flagged, Numbers
<1>2. /\ e \in [GNS_DATA_FIELDS -> Numbers \cup SUBSET GNS_DATA_FIELDS]
      /\ \A g \in GNS_DATA_FIELDS \ {f, "valid_new"} : e[g] = d[g]
      /\ e[f] = n
      /\ e.valid_new = d.valid_new \cup {f}
  BY <1>1, PutStores
<1> HIDE DEF e
<1>3. /\ e["valid"] = d["valid"] /\ e["fix2d"] = d["fix2d"]
      /\ e["lat"] \in {d["lat"], n} /\ e["lon"] \in {d["lon"], n}
  BY <1>1, <1>2
<1>4. e \in GnsData BY <1>1, <1>2, <1>3 DEF GnsData
<1>5. FixReported(d) => FixReported(e)
  BY <1>2, <1>3 DEF FixReported
<1> QED BY <1>4, <1>5 DEF e

\* What a hemisphere letter and the two ends of a parser do.
SameMagnitude(d, e) ==
  /\ Magnitude(e.lat) = Magnitude(d.lat)
  /\ Magnitude(e.lon) = Magnitude(d.lon)

\* Turning a coordinate round keeps the types, the fix and the magnitudes.
LEMMA Turned ==
  ASSUME NEW d \in GnsData
  PROVE  /\ [d EXCEPT !.lat = -@] \in GnsData
         /\ [d EXCEPT !.lon = -@] \in GnsData
         /\ SameMagnitude(d, [d EXCEPT !.lat = -@])
         /\ SameMagnitude(d, [d EXCEPT !.lon = -@])
         /\ FixReported(d) => /\ FixReported([d EXCEPT !.lat = -@])
                              /\ FixReported([d EXCEPT !.lon = -@])
<1>1. /\ d \in [GNS_DATA_FIELDS -> Numbers \cup SUBSET GNS_DATA_FIELDS]
      /\ d.lat \in Int /\ d.lon \in Int /\ -d.lat \in Numbers /\ -d.lon \in Numbers
      /\ {"lat", "lon", "fix2d", "valid", "valid_new"} \subseteq GNS_DATA_FIELDS
  BY FieldNames DEF GnsData, Numbers
<1>2. \A x \in Int : -x \in Int /\ Magnitude(-x) = Magnitude(x) BY DEF Magnitude
<1>3. [d EXCEPT !.lat = -@] \in GnsData /\ [d EXCEPT !.lon = -@] \in GnsData
  BY <1>1, <1>2 DEF GnsData
<1>4. /\ SameMagnitude(d, [d EXCEPT !.lat = -@])
      /\ SameMagnitude(d, [d EXCEPT !.lon = -@])
  BY <1>1, <1>2 DEF SameMagnitude
<1> QED BY <1>1, <1>3, <1>4 DEF FixReported

\* The ends of a parser.
LEMMA Ends ==
  ASSUME NEW d \in GnsData
  PROVE  /\ Opened(d) \in GnsData /\ SameMagnitude(d, Opened(d))
         /\ Closed(d) \in GnsData /\ SameMagnitude(d, Closed(d))
         /\ FixReported(d) <=> FixReported(Closed(d))
<1>1. /\ d \in [GNS_DATA_FIELDS -> Numbers \cup SUBSET GNS_DATA_FIELDS]
      /\ {"lat", "lon", "fix2d", "valid", "valid_new"} \subseteq GNS_DATA_FIELDS
      /\ d.valid \in SUBSET GNS_DATA_FIELDS /\ d.valid_new \in SUBSET GNS_DATA_FIELDS
      /\ d.lat \in Int /\ d.lon \in Int
  BY FieldNames DEF GnsData
<1>2. /\ Opened(d) \in GnsData /\ Opened(d).lat = d.lat /\ Opened(d).lon = d.lon
  BY <1>1 DEF GnsData, Opened
<1>3. /\ Closed(d) \in GnsData /\ Closed(d).lat = d.lat /\ Closed(d).lon = d.lon
      /\ Closed(d).fix2d = d.fix2d /\ Closed(d).valid_new = d.valid_new
  BY <1>1 DEF GnsData, Closed
<1> QED BY <1>2, <1>3 DEF SameMagnitude, FixReported

\* Magnitudes that stay the same twice stay the same.
LEMMA SameTwice ==
  ASSUME NEW a, NEW b, NEW c, SameMagnitude(a, b), SameMagnitude(b, c)
  PROVE  SameMagnitude(a, c)
BY DEF SameMagnitude

\* A loop whose turns move the position only once the fix is reported, in turn
\* k, does so as a whole.
LEMMA MovesInLoop ==
  ASSUME NEW n \in Nat, NEW run, NEW k \in Int,
         \A i \in 1 .. n :
           /\ FixReported(run[i]) \/ SameMagnitude(run[i - 1], run[i])
           /\ i < k => SameMagnitude(run[i - 1], run[i])
           /\ i > k /\ FixReported(run[i - 1]) => FixReported(run[i])
  PROVE  FixReported(run[n]) \/ SameMagnitude(run[0], run[n])
<1> DEFINE P(i) == /\ FixReported(run[i]) \/ SameMagnitude(run[0], run[i])
                   /\ i < k => SameMagnitude(run[0], run[i])
           S == {i \in 0 .. n : P(i)}
<1>1. 0 \in S
  <2>1. SameMagnitude(run[0], run[0]) BY DEF SameMagnitude
  <2> QED BY <2>1
<1>2. ASSUME NEW i \in 1 .. n, i - 1 \in S PROVE i \in S
  <2>1. /\ FixReported(run[i]) \/ SameMagnitude(run[i - 1], run[i])
        /\ i < k => SameMagnitude(run[i - 1], run[i])
        /\ i > k /\ FixReported(run[i - 1]) => FixReported(run[i])
    BY Zenon
  <2>2. /\ FixReported(run[i - 1]) \/ SameMagnitude(run[0], run[i - 1])
        /\ i - 1 < k => SameMagnitude(run[0], run[i - 1])
    BY <1>2, Zenon
  <2>3. SameMagnitude(run[0], run[i - 1]) /\ SameMagnitude(run[i - 1], run[i])
          => SameMagnitude(run[0], run[i])
    BY SameTwice, Zenon
  <2>4. /\ i \in 0 .. n /\ (i < k => i - 1 < k) /\ (i <= k => i - 1 < k)
        /\ i <= k \/ i > k
    OBVIOUS
  <2>5. P(i) BY <2>1, <2>2, <2>3, <2>4, Zenon
  <2> QED BY <2>4, <2>5, Zenon
<1> HIDE DEF P
<1>3. S = {i \in 0 .. n : P(i)} OBVIOUS
<1> HIDE DEF S
<1>4. n \in S BY <1>1, <1>2, OverTurns
<1> QED BY <1>3, <1>4, Zenon DEF P

\* A loop whose turns leave the position alone does so as a whole.
LEMMA StaysInLoop ==
  ASSUME NEW n \in Nat, NEW run, \A i \in 1 .. n : SameMagnitude(run[i - 1], run[i])
  PROVE  SameMagnitude(run[0], run[n])
<1> DEFINE S == {i \in 0 .. n : SameMagnitude(run[0], run[i])}
<1>1. 0 \in S BY DEF SameMagnitude
<1>2. ASSUME NEW i \in 1 .. n, i - 1 \in S PROVE i \in S
  <2>1. SameMagnitude(run[0], run[i - 1]) BY <1>2, Zenon
  <2>2. i \in 0 .. n OBVIOUS
  <2> QED BY <2>1, <2>2, SameTwice, Zenon
<1>3. \A i \in 0 .. n : i \in S
  <2> HIDE DEF S
  <2> QED BY <1>1, <1>2, OverTurns
<1>4. n \in 0 .. n OBVIOUS
<1> QED BY <1>3, <1>4, Zenon

\* The turns of a parser: how many there are.
LEMMA TurnsOfLoop ==
  ASSUME NEW fields \in Seq(FieldType), NEW last \in Nat
  PROVE  /\ Min({last, Len(fields)}) \in 0 .. last
         /\ \A i \in 1 .. Min({last, Len(fields)}) : i \in 1 .. last /\ fields[i] \in FieldType
<1>1. Len(fields) \in Nat /\ \A i \in 1 .. Len(fields) : fields[i] \in FieldType OBVIOUS
<1> DEFINE n == Min({last, Len(fields)})
<1>2. n = IF last <= Len(fields) THEN last ELSE Len(fields)
  BY <1>1 DEF Min
<1> HIDE DEF n
<1>3. n \in 0 .. last /\ \A i \in 1 .. n : i \in 1 .. last /\ i \in 1 .. Len(fields)
  BY <1>1, <1>2
<1> QED BY <1>1, <1>3 DEF n

\* A loop stays in the values that its turns map to themselves.
LEMMA LoopStays ==
  ASSUME NEW D, NEW n \in Nat, NEW run, run[0] \in D,
         \A i \in 1 .. n : run[i - 1] \in D => run[i] \in D
  PROVE  \A i \in 0 .. n : run[i] \in D
<1> DEFINE S == {i \in 0 .. n : run[i] \in D}
<1>1. 0 \in S OBVIOUS
<1>2. ASSUME NEW i \in 1 .. n, i - 1 \in S PROVE i \in S
  <2>1. run[i - 1] \in D BY <1>2, Zenon
  <2>2. i \in 0 .. n OBVIOUS
  <2> QED BY <2>1, <2>2, Zenon
<1>3. \A i \in 0 .. n : i \in S
  <2> HIDE DEF S
  <2> QED BY <1>1, <1>2, OverTurns
<1> QED BY <1>3, Zenon

\* A loop whose turn maps what the parser keeps to what it keeps has a run.
LEMMA ParserRuns ==
  ASSUME NEW base \in GnsData, NEW n \in Nat,
         NEW turn \in [GnsData \X (1 .. n) -> GnsData]
  PROVE  \E run \in [0 .. n -> GnsData] :
           run[0] = base /\ \A i \in 1 .. n : run[i] = turn[<<run[i - 1], i>>]
BY LoopRuns

(***************************************************************************)
(* RMC.                                                                    *)
(***************************************************************************)
\* A turn moves the position only when this sentence has reported a fix.
LEMMA RmcTurn ==
  ASSUME NEW d \in GnsData, NEW i \in 1 .. 9, NEW t \in FieldType
  PROVE  /\ RmcField(d, i, t) \in GnsData
         /\ FixReported(RmcField(d, i, t)) \/ SameMagnitude(d, RmcField(d, i, t))
         /\ i < 2 => SameMagnitude(d, RmcField(d, i, t))
         /\ i > 2 /\ FixReported(d) => FixReported(RmcField(d, i, t))
<1> DEFINE e == RmcField(d, i, t)
           fixed == IF t.c = "A" THEN 1 ELSE 0
<1>1. \/ e = d
      \/ i = 1 /\ e = Put(d, "time", t.v)
      \/ i = 2 /\ e = Put(d, "fix2d", fixed)
      \/ i = 3 /\ FixReported(d) /\ e = Put(d, "lat", t.v)
      \/ i = 4 /\ e = [d EXCEPT !.lat = -@]
      \/ i = 5 /\ FixReported(d) /\ e = Put(d, "lon", t.v)
      \/ i = 6 /\ e = [d EXCEPT !.lon = -@]
      \/ i = 7 /\ e = Put(d, "speed", t.v)
      \/ i = 8 /\ e = Put(d, "course", t.v)
      \/ i = 9 /\ e = Put(d, "date", t.v)
  BY DEF RmcField
<1>2. t.v \in Int /\ t.v \in Numbers /\ fixed \in Numbers BY DEF FieldType, Numbers
<1> HIDE DEF fixed
<1>3. {"time", "fix2d", "speed", "course", "date"} \subseteq Named BY DEF Named
<1>4. ASSUME NEW f \in Named, NEW n \in Numbers, e = Put(d, f, n)
      PROVE  /\ e \in GnsData /\ SameMagnitude(d, e)
             /\ f # "fix2d" /\ FixReported(d) => FixReported(e)
  BY <1>4, PutNamed DEF SameMagnitude
<1>5. ASSUME NEW f \in {"lat", "lon"}, FixReported(d), e = Put(d, f, t.v)
      PROVE  e \in GnsData /\ FixReported(e)
  BY <1>2, <1>5, PutCoordinate
<1>6. ASSUME e \in {[d EXCEPT !.lat = -@], [d EXCEPT !.lon = -@]}
      PROVE  e \in GnsData /\ SameMagnitude(d, e) /\ (FixReported(d) => FixReported(e))
  BY <1>6, Turned, Zenon
<1>7. e = d => SameMagnitude(d, e) BY DEF SameMagnitude
<1>8. /\ e \in GnsData
      /\ FixReported(e) \/ SameMagnitude(d, e)
      /\ i < 2 => SameMagnitude(d, e)
      /\ i > 2 /\ FixReported(d) => FixReported(e)
  BY <1>1, <1>2, <1>3, <1>4, <1>5, <1>6, <1>7
<1> QED BY <1>8 DEF e

\* RMC keeps the types and moves the position only on a fix of its own.
LEMMA RmcMoves ==
  ASSUME NEW d \in GnsData, NEW fields \in Seq(FieldType)
  PROVE  LET e == HNMEA_Parse_RMC(d, fields)
         IN  e \in GnsData /\ (FixReported(e) \/ SameMagnitude(d, e))
<1> DEFINE n     == Min({9, Len(fields)})
           base  == Opened(d)
           turn  == [p \in GnsData \X (1 .. n) |-> RmcField(p[1], p[2], fields[p[2]])]
           after == CHOOSE f : f = [i \in 0 .. n |-> IF i = 0 THEN base
                                      ELSE RmcField(f[i - 1], i, fields[i])]
<1>1. /\ n \in Nat /\ \A i \in 1 .. n : i \in 1 .. 9 /\ fields[i] \in FieldType
  <2>1. 9 \in Nat OBVIOUS
  <2>2. n \in 0 .. 9 /\ \A i \in 1 .. n : i \in 1 .. 9 /\ fields[i] \in FieldType
    BY <2>1, TurnsOfLoop, Zenon
  <2> HIDE DEF n
  <2> QED BY <2>2
<1>2. base \in GnsData /\ SameMagnitude(d, base) BY Ends
<1>3. HNMEA_Parse_RMC(d, fields) = Closed(after[n]) BY Zenon DEF HNMEA_Parse_RMC, OverFields
<1> HIDE DEF n, base
<1>4. turn \in [GnsData \X (1 .. n) -> GnsData] BY <1>1, RmcTurn
<1>5. \A a \in GnsData, i \in 1 .. n : turn[<<a, i>>] = RmcField(a, i, fields[i]) OBVIOUS
<1> HIDE DEF turn
<1>6. PICK run \in [0 .. n -> GnsData] :
        run[0] = base /\ \A i \in 1 .. n : run[i] = turn[<<run[i - 1], i>>]
  BY <1>1, <1>2, <1>4, ParserRuns, ZenonT(60)
<1>7. run = [i \in 0 .. n |-> IF i = 0 THEN base ELSE RmcField(run[i - 1], i, fields[i])]
  <2>1. \A i \in 0 .. n : i = 0 \/ (i \in 1 .. n /\ i - 1 \in 0 .. n) BY <1>1
  <2>2. \A i \in 1 .. n : run[i] = RmcField(run[i - 1], i, fields[i])
    <3>1. \A i \in 1 .. n : i - 1 \in 0 .. n /\ run[i - 1] \in GnsData BY <1>1
    <3> QED BY <1>5, <1>6, <3>1, Zenon
  <2> QED BY <1>6, <2>1, <2>2
<1>8. after = [i \in 0 .. n |-> IF i = 0 THEN base ELSE RmcField(after[i - 1], i, fields[i])]
  BY <1>7, Zenon
<1> HIDE DEF after
<1>9. after[0] = base /\ \A i \in 1 .. n : after[i] = RmcField(after[i - 1], i, fields[i])
  BY <1>1, <1>8
<1>10. \A i \in 0 .. n : after[i] \in GnsData
  <2>1. after[0] \in GnsData BY <1>2, <1>9
  <2>2. \A i \in 1 .. n : after[i - 1] \in GnsData => after[i] \in GnsData
    BY <1>1, <1>9, RmcTurn, Zenon
  <2> QED BY <1>1, <2>1, <2>2, LoopStays, Zenon
<1>11. FixReported(after[n]) \/ SameMagnitude(base, after[n])
  <2>1. \A i \in 1 .. n : i - 1 \in 0 .. n BY <1>1
  <2>2. \A i \in 1 .. n :
          /\ FixReported(after[i]) \/ SameMagnitude(after[i - 1], after[i])
          /\ i < 2 => SameMagnitude(after[i - 1], after[i])
          /\ i > 2 /\ FixReported(after[i - 1]) => FixReported(after[i])
    BY <1>1, <1>9, <1>10, <2>1, RmcTurn, Zenon
  <2>3. 2 \in Int OBVIOUS
  <2> QED BY <1>1, <1>9, <2>2, <2>3, MovesInLoop, Zenon
<1>12. after[n] \in GnsData BY <1>1, <1>10
<1> QED BY <1>2, <1>3, <1>11, <1>12, Ends, SameTwice, Zenon

(***************************************************************************)
(* GSA.                                                                    *)
(***************************************************************************)
\* A turn leaves the position alone.
LEMMA GsaTurn ==
  ASSUME NEW d \in GnsData, NEW i \in 1 .. 17, NEW t \in FieldType
  PROVE  GsaField(d, i, t) \in GnsData /\ SameMagnitude(d, GsaField(d, i, t))
<1> DEFINE e     == GsaField(d, i, t)
           fix2d == IF t.c = "#" /\ t.v \in {2, 3} THEN 1 ELSE 0
           fix3d == IF t.c = "#" /\ t.v = 3 THEN 1 ELSE 0
<1>1. \/ e = d
      \/ e = FixKind(d, t)
      \/ e = Put(d, "pdop", t.v)
      \/ e = Put(d, "hdop", t.v)
      \/ e = Put(d, "vdop", t.v)
  BY DEF GsaField
<1>2. FixKind(d, t) = Put(Put(d, "fix2d", fix2d), "fix3d", fix3d) BY Zenon DEF FixKind
<1>3. t.v \in Numbers /\ fix2d \in Numbers /\ fix3d \in Numbers BY DEF FieldType, Numbers
<1> HIDE DEF e, fix2d, fix3d
<1>4. {"fix2d", "fix3d", "pdop", "hdop", "vdop"} \subseteq Named BY DEF Named
<1>5. \A a \in GnsData, f \in Named, x \in Numbers :
        Put(a, f, x) \in GnsData /\ SameMagnitude(a, Put(a, f, x))
  BY PutNamed DEF SameMagnitude
<1>6. SameMagnitude(d, d) BY DEF SameMagnitude
<1>7. FixKind(d, t) \in GnsData /\ SameMagnitude(d, FixKind(d, t))
  BY <1>2, <1>3, <1>4, <1>5, SameTwice
<1>8. e \in GnsData /\ SameMagnitude(d, e) BY <1>1, <1>3, <1>4, <1>5, <1>6, <1>7
<1> QED BY <1>8 DEF e

\* Counting the satellites leaves the position alone.
LEMMA SatellitesCounted ==
  ASSUME NEW d \in GnsData, NEW fields \in Seq(FieldType)
  PROVE  /\ CountSatellites(d, fields) \in GnsData
         /\ SameMagnitude(d, CountSatellites(d, fields))
<1> DEFINE used == SatellitesUsed(fields)
           id   == SystemId(fields)
<1>1. used \in Numbers
  <2>1. Min({14, Len(fields)}) \in Nat
    <3>1. 14 \in Nat OBVIOUS
    <3>2. Min({14, Len(fields)}) \in 0 .. 14 BY <3>1, TurnsOfLoop, Zenon
    <3> QED BY <3>2
  <2>2. IsFiniteSet(3 .. Min({14, Len(fields)})) BY <2>1, FS_Interval
  <2>3. used \in Nat
    BY <2>2, FS_Subset, FS_CardinalityType DEF SatellitesUsed, Quantify
  <2> QED BY <2>3 DEF Numbers
<1>2. id \in 0 .. 2 => Counters[id + 1] \in Named BY DEF Counters, Named
<1>3. SameMagnitude(d, d) BY DEF SameMagnitude
<1>4. \A f \in Named : Put(d, f, used) \in GnsData /\ SameMagnitude(d, Put(d, f, used))
  BY <1>1, PutNamed DEF SameMagnitude
<1>5. CountSatellites(d, fields) = IF used > 0 /\ id \in 0 .. 2
                                   THEN Put(d, Counters[id + 1], used) ELSE d
  BY Zenon DEF CountSatellites
<1> HIDE DEF used, id
<1> QED BY <1>2, <1>3, <1>4, <1>5

\* GSA keeps the types and the position.
LEMMA GsaMoves ==
  ASSUME NEW d \in GnsData, NEW fields \in Seq(FieldType)
  PROVE  LET e == HNMEA_Parse_GSA(d, fields)
         IN  e \in GnsData /\ SameMagnitude(d, e)
<1> DEFINE n     == Min({17, Len(fields)})
           base  == Opened(d)
           turn  == [p \in GnsData \X (1 .. n) |-> GsaField(p[1], p[2], fields[p[2]])]
           after == CHOOSE f : f = [i \in 0 .. n |-> IF i = 0 THEN base
                                      ELSE GsaField(f[i - 1], i, fields[i])]
<1>1. /\ n \in Nat /\ \A i \in 1 .. n : i \in 1 .. 17 /\ fields[i] \in FieldType
  <2>1. 17 \in Nat OBVIOUS
  <2>2. n \in 0 .. 17 /\ \A i \in 1 .. n : i \in 1 .. 17 /\ fields[i] \in FieldType
    BY <2>1, TurnsOfLoop, Zenon
  <2> HIDE DEF n
  <2> QED BY <2>2
<1>2. base \in GnsData /\ SameMagnitude(d, base) BY Ends
<1>3. HNMEA_Parse_GSA(d, fields) = Closed(CountSatellites(after[n], fields))
  BY Zenon DEF HNMEA_Parse_GSA, OverFields
<1> HIDE DEF n, base
<1>4. turn \in [GnsData \X (1 .. n) -> GnsData] BY <1>1, GsaTurn
<1>5. \A a \in GnsData, i \in 1 .. n : turn[<<a, i>>] = GsaField(a, i, fields[i]) OBVIOUS
<1> HIDE DEF turn
<1>6. PICK run \in [0 .. n -> GnsData] :
        run[0] = base /\ \A i \in 1 .. n : run[i] = turn[<<run[i - 1], i>>]
  BY <1>1, <1>2, <1>4, ParserRuns, ZenonT(60)
<1>7. run = [i \in 0 .. n |-> IF i = 0 THEN base ELSE GsaField(run[i - 1], i, fields[i])]
  <2>1. \A i \in 0 .. n : i = 0 \/ (i \in 1 .. n /\ i - 1 \in 0 .. n) BY <1>1
  <2>2. \A i \in 1 .. n : run[i] = GsaField(run[i - 1], i, fields[i])
    <3>1. \A i \in 1 .. n : i - 1 \in 0 .. n /\ run[i - 1] \in GnsData BY <1>1
    <3> QED BY <1>5, <1>6, <3>1, Zenon
  <2> QED BY <1>6, <2>1, <2>2
<1>8. after = [i \in 0 .. n |-> IF i = 0 THEN base ELSE GsaField(after[i - 1], i, fields[i])]
  BY <1>7, Zenon
<1> HIDE DEF after
<1>9. after[0] = base /\ \A i \in 1 .. n : after[i] = GsaField(after[i - 1], i, fields[i])
  BY <1>1, <1>8
<1>10. \A i \in 0 .. n : after[i] \in GnsData
  <2>1. after[0] \in GnsData BY <1>2, <1>9
  <2>2. \A i \in 1 .. n : after[i - 1] \in GnsData => after[i] \in GnsData
    BY <1>1, <1>9, GsaTurn, Zenon
  <2> QED BY <1>1, <2>1, <2>2, LoopStays, Zenon
<1>11. SameMagnitude(base, after[n])
  <2>1. \A i \in 1 .. n : i - 1 \in 0 .. n BY <1>1
  <2>2. \A i \in 1 .. n : SameMagnitude(after[i - 1], after[i])
    BY <1>1, <1>9, <1>10, <2>1, GsaTurn, Zenon
  <2> QED BY <1>1, <1>9, <2>2, StaysInLoop, Zenon
<1>12. after[n] \in GnsData BY <1>1, <1>10
<1> QED BY <1>2, <1>3, <1>11, <1>12, SatellitesCounted, Ends, SameTwice, Zenon

(***************************************************************************)
(* GST.                                                                    *)
(***************************************************************************)
\* A turn leaves the position alone.
LEMMA GstTurn ==
  ASSUME NEW d \in GnsData, NEW i \in 1 .. 8, NEW t \in FieldType, NEW fields,
         i = 7 => fields[6] \in FieldType
  PROVE  /\ GstField(fields, d, i, t) \in GnsData
         /\ SameMagnitude(d, GstField(fields, d, i, t))
<1> DEFINE e    == GstField(fields, d, i, t)
           hacc == Hypotenuse(fields[6].v, t.v)
<1>1. \/ e = d
      \/ e = Put(d, "time", t.v)
      \/ i = 7 /\ e = Put(d, "hacc", hacc)
      \/ e = Put(d, "vacc", t.v)
  BY DEF GstField
<1>2. t.v \in Int /\ t.v \in Numbers BY DEF FieldType, Numbers
<1>3. i = 7 => hacc \in Numbers
  <2>1. i = 7 => fields[6].v \in Int BY DEF FieldType
  <2>2. \A x, y \in Int : Hypotenuse(x, y) \in Numbers
    <3> HIDE DEF e, hacc
    <3> QED BY DEF Numbers
  <2> QED BY <1>2, <2>1, <2>2, Zenon
<1> HIDE DEF e, hacc
<1>4. {"time", "hacc", "vacc"} \subseteq Named BY DEF Named
<1>5. \A f \in Named, x \in Numbers :
        Put(d, f, x) \in GnsData /\ SameMagnitude(d, Put(d, f, x))
  BY PutNamed DEF SameMagnitude
<1>6. SameMagnitude(d, d) BY DEF SameMagnitude
<1>7. e \in GnsData /\ SameMagnitude(d, e) BY <1>1, <1>2, <1>3, <1>4, <1>5, <1>6
<1> QED BY <1>7 DEF e

\* GST keeps the types and the position.
LEMMA GstMoves ==
  ASSUME NEW d \in GnsData, NEW fields \in Seq(FieldType)
  PROVE  LET e == HNMEA_Parse_GST(d, fields)
         IN  e \in GnsData /\ SameMagnitude(d, e)
<1> DEFINE n     == Min({8, Len(fields)})
           base  == Opened(d)
           turn  == [p \in GnsData \X (1 .. n) |-> GstField(fields, p[1], p[2], fields[p[2]])]
           after == CHOOSE f : f = [i \in 0 .. n |-> IF i = 0 THEN base
                                      ELSE GstField(fields, f[i - 1], i, fields[i])]
<1>1. /\ n \in Nat /\ \A i \in 1 .. n : i \in 1 .. 8 /\ fields[i] \in FieldType
  <2>1. 8 \in Nat OBVIOUS
  <2>2. n \in 0 .. 8 /\ \A i \in 1 .. n : i \in 1 .. 8 /\ fields[i] \in FieldType
    BY <2>1, TurnsOfLoop, Zenon
  <2> HIDE DEF n
  <2> QED BY <2>2
<1>0. \A i \in 1 .. n : i = 7 => fields[6] \in FieldType
  <2> HIDE DEF n, base, turn, after
  <2>1. \A i \in 1 .. n : i = 7 => 6 \in 1 .. n BY <1>1
  <2> QED BY <1>1, <2>1, Zenon
<1>2. base \in GnsData /\ SameMagnitude(d, base) BY Ends
<1>3. HNMEA_Parse_GST(d, fields) = Closed(after[n])
  BY Zenon DEF HNMEA_Parse_GST, OverFields
<1> HIDE DEF n, base
<1> HIDE DEF after
<1>3a. \A a \in GnsData, i \in 1 .. n : /\ GstField(fields, a, i, fields[i]) \in GnsData
                                      /\ SameMagnitude(a, GstField(fields, a, i, fields[i]))
  BY <1>0, <1>1, GstTurn
<1>4. turn \in [GnsData \X (1 .. n) -> GnsData] BY <1>3a
<1> USE DEF after
<1>5. \A a \in GnsData, i \in 1 .. n : turn[<<a, i>>] = GstField(fields, a, i, fields[i]) OBVIOUS
<1> HIDE DEF turn
<1>6. PICK run \in [0 .. n -> GnsData] :
        run[0] = base /\ \A i \in 1 .. n : run[i] = turn[<<run[i - 1], i>>]
  BY <1>1, <1>2, <1>4, ParserRuns, ZenonT(60)
<1>7. run = [i \in 0 .. n |-> IF i = 0 THEN base ELSE GstField(fields, run[i - 1], i, fields[i])]
  <2>1. \A i \in 0 .. n : i = 0 \/ (i \in 1 .. n /\ i - 1 \in 0 .. n) BY <1>1
  <2>2. \A i \in 1 .. n : run[i] = GstField(fields, run[i - 1], i, fields[i])
    <3>1. \A i \in 1 .. n : i - 1 \in 0 .. n /\ run[i - 1] \in GnsData BY <1>1
    <3> QED BY <1>5, <1>6, <3>1, Zenon
  <2> QED BY <1>6, <2>1, <2>2
<1>8. after = [i \in 0 .. n |-> IF i = 0 THEN base ELSE GstField(fields, after[i - 1], i, fields[i])]
  BY <1>7, Zenon
<1> HIDE DEF after
<1>9. after[0] = base /\ \A i \in 1 .. n : after[i] = GstField(fields, after[i - 1], i, fields[i])
  BY <1>1, <1>8
<1>10. \A i \in 0 .. n : after[i] \in GnsData
  <2>1. after[0] \in GnsData BY <1>2, <1>9
  <2>2. \A i \in 1 .. n : after[i - 1] \in GnsData => after[i] \in GnsData
    BY <1>9, <1>3a, Zenon
  <2> QED BY <1>1, <2>1, <2>2, LoopStays, Zenon
<1>11. SameMagnitude(base, after[n])
  <2>1. \A i \in 1 .. n : i - 1 \in 0 .. n BY <1>1
  <2>2. \A i \in 1 .. n : SameMagnitude(after[i - 1], after[i])
    BY <1>9, <1>10, <1>3a, <2>1, Zenon
  <2> QED BY <1>1, <1>9, <2>2, StaysInLoop, Zenon
<1>12. after[n] \in GnsData BY <1>1, <1>10
<1> QED BY <1>2, <1>3, <1>11, <1>12, Ends, SameTwice, Zenon

(***************************************************************************)
(* GGA.                                                                    *)
(***************************************************************************)
LocalNames == {"lat", "lon", "alt", "geoid"}
GgaData    == [d : GnsData, local : [LocalNames -> Int]]

\* Announcing a field, or taking that back, changes no value.
LEMMA AnnouncedOnly ==
  ASSUME NEW d \in GnsData, NEW f \in LocalNames, NEW fs \in SUBSET LocalNames
  PROVE  /\ Announce(d, f) \in GnsData /\ SameMagnitude(d, Announce(d, f))
         /\ FixReported(d) => FixReported(Announce(d, f))
         /\ Withdraw(d, fs) \in GnsData /\ SameMagnitude(d, Withdraw(d, fs))
         /\ FixReported(d) => FixReported(Withdraw(d, fs))
<1>1. /\ d \in [GNS_DATA_FIELDS -> Numbers \cup SUBSET GNS_DATA_FIELDS]
      /\ {"lat", "lon", "fix2d", "valid", "valid_new"} \subseteq GNS_DATA_FIELDS
      /\ d.valid \in SUBSET GNS_DATA_FIELDS /\ d.valid_new \in SUBSET GNS_DATA_FIELDS
      /\ d.lat \in Int /\ d.lon \in Int
  BY FieldNames DEF GnsData
<1>2. f \in GNS_DATA_FIELDS /\ "fix2d" \notin fs BY DEF GNS_DATA_FIELDS, LocalNames
<1>3. /\ Announce(d, f) \in GnsData
      /\ Announce(d, f).lat = d.lat /\ Announce(d, f).lon = d.lon
      /\ Announce(d, f).fix2d = d.fix2d
      /\ Announce(d, f).valid_new = d.valid_new \cup {f}
  BY <1>1, <1>2 DEF GnsData, Announce
<1>4. /\ Withdraw(d, fs) \in GnsData
      /\ Withdraw(d, fs).lat = d.lat /\ Withdraw(d, fs).lon = d.lon
      /\ Withdraw(d, fs).fix2d = d.fix2d
      /\ Withdraw(d, fs).valid_new = d.valid_new \ fs
  BY <1>1, <1>2 DEF GnsData, Withdraw
<1> QED BY <1>2, <1>3, <1>4 DEF SameMagnitude, FixReported

\* What waits in the locals is kept apart from the data until it is taken.
LEMMA LocalsKept ==
  ASSUME NEW w \in GgaData, NEW f \in LocalNames, NEW n \in Int, NEW e \in GnsData
  PROVE  /\ Await(w, f, n) \in GgaData /\ Await(w, f, n).d = Announce(w.d, f)
         /\ Negate(w, f) \in GgaData /\ Negate(w, f).d = w.d
         /\ [w EXCEPT !.d = e] \in GgaData /\ [w EXCEPT !.d = e].d = e
<1>1. w.d \in GnsData /\ w.local \in [LocalNames -> Int] BY DEF GgaData
<1>2. Announce(w.d, f) \in GnsData BY <1>1, AnnouncedOnly
<1>3. [w.local EXCEPT ![f] = n] \in [LocalNames -> Int] BY <1>1
<1>4. [w.local EXCEPT ![f] = -@] \in [LocalNames -> Int] BY <1>1
<1>5. Await(w, f, n) \in GgaData /\ Await(w, f, n).d = Announce(w.d, f)
  BY <1>2, <1>3 DEF GgaData, Await
<1>6. Negate(w, f) = [w EXCEPT !.local = [w.local EXCEPT ![f] = -@]]
  BY DEF GgaData, Negate
<1>7. Negate(w, f) \in GgaData /\ Negate(w, f).d = w.d
  BY <1>4, <1>6 DEF GgaData
<1>8. [w EXCEPT !.d = e] \in GgaData /\ [w EXCEPT !.d = e].d = e
  BY DEF GgaData
<1> QED BY <1>5, <1>7, <1>8

\* Taking a local moves the position only if it is a coordinate.
LEMMA LocalTaken ==
  ASSUME NEW w \in GgaData, NEW f \in LocalNames
  PROVE  /\ Take(w, f) \in GgaData
         /\ f \in {"alt", "geoid"} => SameMagnitude(w.d, Take(w, f).d)
         /\ FixReported(w.d) => FixReported(Take(w, f).d)
<1> DEFINE d == w.d
           x == w.local[f]
           e == [d EXCEPT ![f] = x]
<1>1. d \in GnsData /\ x \in Int /\ x \in Numbers BY DEF GgaData, Numbers
<1>2. Take(w, f) = [w EXCEPT !.d = e] BY DEF GgaData, Take
<1> HIDE DEF d, x
<1>3. /\ d \in [GNS_DATA_FIELDS -> Numbers \cup SUBSET GNS_DATA_FIELDS]
      /\ {"lat", "lon", "fix2d", "valid", "valid_new"} \subseteq GNS_DATA_FIELDS
      /\ d.valid \in SUBSET GNS_DATA_FIELDS /\ d.valid_new \in SUBSET GNS_DATA_FIELDS
      /\ d.lat \in Int /\ d.lon \in Int
  BY <1>1, FieldNames DEF GnsData
<1>4. f \in GNS_DATA_FIELDS /\ f \notin {"fix2d", "valid", "valid_new"}
  BY DEF GNS_DATA_FIELDS, LocalNames
<1>5. /\ e \in [GNS_DATA_FIELDS -> Numbers \cup SUBSET GNS_DATA_FIELDS]
      /\ \A g \in GNS_DATA_FIELDS \ {f} : e[g] = d[g]
      /\ e[f] = x
  BY <1>1, <1>3, <1>4
<1> HIDE DEF e
<1>6. /\ e["valid"] = d["valid"] /\ e["valid_new"] = d["valid_new"]
      /\ e["fix2d"] = d["fix2d"]
      /\ e["lat"] \in {d["lat"], x} /\ e["lon"] \in {d["lon"], x}
      /\ f \in {"alt", "geoid"} => e["lat"] = d["lat"] /\ e["lon"] = d["lon"]
  BY <1>3, <1>4, <1>5
<1>7. e \in GnsData BY <1>1, <1>3, <1>5, <1>6 DEF GnsData
<1>8. FixReported(d) => FixReported(e) BY <1>6 DEF FixReported
<1>9. f \in {"alt", "geoid"} => SameMagnitude(d, e) BY <1>6 DEF SameMagnitude
<1>10. Take(w, f) \in GgaData /\ Take(w, f).d = e BY <1>2, <1>7, LocalsKept
<1> QED BY <1>8, <1>9, <1>10 DEF d

\* The fix indicator takes the coordinates with a fix, and refuses them without.
LEMMA FixIndicated ==
  ASSUME NEW w \in GgaData, NEW t \in FieldType
  PROVE  /\ FixIndicator(w, t) \in GgaData
         /\ FixReported(FixIndicator(w, t).d) \/ SameMagnitude(w.d, FixIndicator(w, t).d)
<1>1. w.d \in GnsData BY DEF GgaData
<1>2. {0, 1} \subseteq Numbers BY DEF Numbers
<1>3. "fix2d" \in Named /\ {"lat", "lon"} \subseteq LocalNames BY DEF Named, LocalNames
<1>4. CASE t.c = "#" /\ t.v \in {1, 2, 6}
  <2> DEFINE a == Stored(w, "fix2d", 1)
             b == Take(a, "lat")
             e == Take(b, "lon")
  <2>1. a \in GgaData /\ FixReported(a.d)
    <3>1. Put(w.d, "fix2d", 1) \in GnsData /\ FixReported(Put(w.d, "fix2d", 1))
      BY <1>1, <1>2, <1>3, PutNamed
    <3>2. a = [w EXCEPT !.d = Put(w.d, "fix2d", 1)] BY Zenon DEF Stored
    <3>3. a \in GgaData /\ a.d = Put(w.d, "fix2d", 1)
      <4> HIDE DEF a
      <4>1. 0 \in Int /\ "lat" \in LocalNames BY <1>3
      <4> QED BY <3>1, <3>2, <4>1, LocalsKept, Zenon
    <3> HIDE DEF a
    <3> QED BY <3>1, <3>3
  <2> HIDE DEF a
  <2>2. b \in GgaData /\ FixReported(b.d) BY <1>3, <2>1, LocalTaken
  <2> HIDE DEF b
  <2>3. e \in GgaData /\ FixReported(e.d) BY <1>3, <2>2, LocalTaken
  <2>4. FixIndicator(w, t) = e BY <1>4, Zenon DEF FixIndicator, a, b
  <2> QED BY <2>3, <2>4, Zenon
<1>5. CASE ~(t.c = "#" /\ t.v \in {1, 2, 6})
  <2> DEFINE a == Put(w.d, "fix2d", 0)
             x == Withdraw(a, {"lat", "lon"})
  <2>1. a \in GnsData /\ SameMagnitude(w.d, a)
    BY <1>1, <1>2, <1>3, PutNamed DEF SameMagnitude
  <2>2. FixIndicator(w, t) = [w EXCEPT !.d = x] BY <1>5, Zenon DEF FixIndicator
  <2> HIDE DEF a
  <2>3. x \in GnsData /\ SameMagnitude(a, x) BY <1>3, <2>1, AnnouncedOnly
  <2>4. SameMagnitude(w.d, x) BY <2>1, <2>3, SameTwice, Zenon
  <2> HIDE DEF x
  <2>5. 0 \in Int /\ "lat" \in LocalNames BY <1>3
  <2>6. [w EXCEPT !.d = x] \in GgaData /\ [w EXCEPT !.d = x].d = x
    BY <2>3, <2>5, LocalsKept, Zenon
  <2> QED BY <2>2, <2>4, <2>6, Zenon
<1> QED BY <1>4, <1>5, Zenon

\* Only the fix indicator, in turn 6, may take the coordinates.
LEMMA GgaTurn ==
  ASSUME NEW w \in GgaData, NEW i \in 1 .. 12, NEW t \in FieldType
  PROVE  /\ GgaField(w, i, t) \in GgaData
         /\ FixReported(GgaField(w, i, t).d) \/ SameMagnitude(w.d, GgaField(w, i, t).d)
         /\ i < 6 => SameMagnitude(w.d, GgaField(w, i, t).d)
         /\ i > 6 /\ FixReported(w.d) => FixReported(GgaField(w, i, t).d)
<1> DEFINE e == GgaField(w, i, t)
<1>1. \/ e = w
      \/ e = Stored(w, "time", t.v) \/ e = Stored(w, "usat", t.v) \/ e = Stored(w, "hdop", t.v)
      \/ e = Await(w, "lat", t.v) \/ e = Await(w, "lon", t.v)
      \/ e = Await(w, "alt", t.v) \/ e = Await(w, "geoid", t.v)
      \/ e = Negate(w, "lat") \/ e = Negate(w, "lon")
      \/ i = 6 /\ e = FixIndicator(w, t)
      \/ \E m \in BOOLEAN : e = TakeIf(w, "alt", m) \/ e = TakeIf(w, "geoid", m)
  <2>1. CASE i <= 6
    <3>1. e = GgaPosition(w, i, t) BY <2>1, Zenon DEF GgaField
    <3> HIDE DEF e
    <3>2. \/ e \in {w, Stored(w, "time", t.v), Await(w, "lat", t.v), Await(w, "lon", t.v)}
          \/ e \in {Negate(w, "lat"), Negate(w, "lon")}
          \/ i = 6 /\ e = FixIndicator(w, t)
      BY <3>1 DEF GgaPosition
    <3> QED BY <3>2, Zenon
  <2>2. CASE i > 6 /\ Filled(t)
    <3> DEFINE inMetres == t.c = "M"
               fixed    == inMetres /\ w.d.fix2d # 0
    <3>1. e = GgaHeight(w, i, t) BY <2>2 DEF GgaField
    <3>2. inMetres \in BOOLEAN /\ fixed \in BOOLEAN BY Zenon
    <3>3. i \in {7, 8, 9, 10, 11, 12} BY <2>2
    <3> HIDE DEF e
    <3>4. \/ e \in {Stored(w, "usat", t.v), Stored(w, "hdop", t.v)}
          \/ e \in {Await(w, "alt", t.v), Await(w, "geoid", t.v)}
          \/ e \in {TakeIf(w, "alt", fixed), TakeIf(w, "geoid", inMetres)}
      BY <3>1, <3>3 DEF GgaHeight
    <3> QED BY <3>2, <3>4, Zenon
  <2>3. CASE i > 6 /\ ~Filled(t)
    BY <2>3 DEF GgaField
  <2> QED BY <2>1, <2>2, <2>3
<1> HIDE DEF e
<1>2. w.d \in GnsData /\ t.v \in Int /\ t.v \in Numbers /\ 0 \in Int /\ "lat" \in LocalNames
  BY DEF GgaData, FieldType, Numbers, LocalNames
<1>3. {"time", "usat", "hdop"} \subseteq Named /\ "fix2d" \notin {"time", "usat", "hdop"}
  BY DEF Named
<1> DEFINE Good == /\ e \in GgaData /\ SameMagnitude(w.d, e.d)
                   /\ FixReported(w.d) => FixReported(e.d)
<1>4. e = w => Good BY DEF SameMagnitude
<1>5. ASSUME NEW f \in {"time", "usat", "hdop"}, e = Stored(w, f, t.v) PROVE Good
  <2>1. f \in Named /\ f # "fix2d" BY <1>3
  <2> DEFINE a == Put(w.d, f, t.v)
  <2>2. a \in GnsData /\ SameMagnitude(w.d, a) /\ (FixReported(w.d) => FixReported(a))
    BY <1>2, <2>1, PutNamed DEF SameMagnitude
  <2>3. e = [w EXCEPT !.d = a] BY <1>5, Zenon DEF Stored
  <2> HIDE DEF a
  <2>4. e \in GgaData /\ e.d = a BY <1>2, <2>2, <2>3, LocalsKept, Zenon
  <2> QED BY <2>2, <2>4, Zenon
<1>6. ASSUME NEW f \in LocalNames, e = Await(w, f, t.v) PROVE Good
  <2>1. e \in GgaData /\ e.d = Announce(w.d, f) BY <1>2, <1>6, LocalsKept, Zenon
  <2>2. {} \in SUBSET LocalNames OBVIOUS
  <2> QED BY <1>2, <2>1, <2>2, AnnouncedOnly, Zenon
<1>7. ASSUME NEW f \in LocalNames, e = Negate(w, f) PROVE Good
  <2>1. e \in GgaData /\ e.d = w.d BY <1>2, <1>7, LocalsKept, Zenon
  <2> QED BY <2>1 DEF SameMagnitude
<1>8. ASSUME NEW f \in {"alt", "geoid"}, NEW inMetres \in BOOLEAN, e = TakeIf(w, f, inMetres)
      PROVE  Good
  <2>1. f \in LocalNames /\ {f} \in SUBSET LocalNames BY DEF LocalNames
  <2>2. CASE inMetres
    <3>1. e = Take(w, f) BY <1>8, <2>2, Zenon DEF TakeIf
    <3> QED BY <2>1, <3>1, LocalTaken, Zenon
  <2>3. CASE ~inMetres
    <3> DEFINE a == Withdraw(w.d, {f})
    <3>1. a \in GnsData /\ SameMagnitude(w.d, a) /\ (FixReported(w.d) => FixReported(a))
      BY <1>2, <2>1, AnnouncedOnly, Zenon
    <3>2. e = [w EXCEPT !.d = a] BY <1>8, <2>3, Zenon DEF TakeIf
    <3> HIDE DEF a
    <3>3. e \in GgaData /\ e.d = a BY <1>2, <3>1, <3>2, LocalsKept, Zenon
    <3> QED BY <3>1, <3>3, Zenon
  <2> QED BY <2>2, <2>3
<1>10. i = 6 => ~(i < 6) /\ ~(i > 6) OBVIOUS
<1>11. i = 6 /\ e = FixIndicator(w, t) =>
         e \in GgaData /\ (FixReported(e.d) \/ SameMagnitude(w.d, e.d))
  BY FixIndicated, Zenon
<1>12. Good \/ (i = 6 /\ e = FixIndicator(w, t))
  <2> HIDE DEF Good
  <2>1. {"lat", "lon", "alt", "geoid"} \subseteq LocalNames BY DEF LocalNames
  <2> QED BY <1>1, <1>4, <1>5, <1>6, <1>7, <1>8, <2>1
<1>13. /\ e \in GgaData
       /\ FixReported(e.d) \/ SameMagnitude(w.d, e.d)
       /\ i < 6 => SameMagnitude(w.d, e.d)
       /\ i > 6 /\ FixReported(w.d) => FixReported(e.d)
  BY <1>10, <1>11, <1>12, Zenon
<1> QED BY <1>13 DEF e

\* A loop whose turn maps what GGA has in hand to what it has in hand has a run.
LEMMA GgaRuns ==
  ASSUME NEW base \in GgaData, NEW n \in Nat,
         NEW turn \in [GgaData \X (1 .. n) -> GgaData]
  PROVE  \E run \in [0 .. n -> GgaData] :
           run[0] = base /\ \A i \in 1 .. n : run[i] = turn[<<run[i - 1], i>>]
BY LoopRuns

\* GGA keeps the types and moves the position only on a fix of its own.
LEMMA GgaMoves ==
  ASSUME NEW d \in GnsData, NEW fields \in Seq(FieldType)
  PROVE  LET e == HNMEA_Parse_GGA(d, fields)
         IN  e \in GnsData /\ (FixReported(e) \/ SameMagnitude(d, e))
<1> DEFINE n     == Min({12, Len(fields)})
           base  == [d |-> Opened(d), local |-> GgaLocals]
           turn  == [p \in GgaData \X (1 .. n) |-> GgaField(p[1], p[2], fields[p[2]])]
           after == CHOOSE f : f = [i \in 0 .. n |-> IF i = 0 THEN base
                                      ELSE GgaField(f[i - 1], i, fields[i])]
           data  == [i \in 0 .. n |-> after[i].d]
<1>1. /\ n \in Nat /\ \A i \in 1 .. n : i \in 1 .. 12 /\ fields[i] \in FieldType
  <2>1. 12 \in Nat OBVIOUS
  <2>2. n \in 0 .. 12 /\ \A i \in 1 .. n : i \in 1 .. 12 /\ fields[i] \in FieldType
    BY <2>1, TurnsOfLoop, Zenon
  <2> HIDE DEF n
  <2> QED BY <2>2
<1>2. base \in GgaData /\ base.d = Opened(d)
  <2>1. Opened(d) \in GnsData BY Ends
  <2>2. GgaLocals \in [LocalNames -> Int] BY DEF GgaLocals, LocalNames
  <2> QED BY <2>1, <2>2 DEF GgaData
<1>3. HNMEA_Parse_GGA(d, fields) = Closed(after[n].d)
  BY Zenon DEF HNMEA_Parse_GGA, OverFields
<1> HIDE DEF n, base, data
<1>4. turn \in [GgaData \X (1 .. n) -> GgaData] BY <1>1, GgaTurn
<1>5. \A a \in GgaData, i \in 1 .. n : turn[<<a, i>>] = GgaField(a, i, fields[i]) OBVIOUS
<1> HIDE DEF turn
<1>6. PICK run \in [0 .. n -> GgaData] :
        run[0] = base /\ \A i \in 1 .. n : run[i] = turn[<<run[i - 1], i>>]
  BY <1>1, <1>2, <1>4, GgaRuns, ZenonT(60)
<1>7. run = [i \in 0 .. n |-> IF i = 0 THEN base ELSE GgaField(run[i - 1], i, fields[i])]
  <2>1. \A i \in 0 .. n : i = 0 \/ (i \in 1 .. n /\ i - 1 \in 0 .. n) BY <1>1
  <2>2. \A i \in 1 .. n : run[i] = GgaField(run[i - 1], i, fields[i])
    <3>1. \A i \in 1 .. n : i - 1 \in 0 .. n /\ run[i - 1] \in GgaData BY <1>1
    <3> QED BY <1>5, <1>6, <3>1, Zenon
  <2> QED BY <1>6, <2>1, <2>2
<1>8. after = [i \in 0 .. n |-> IF i = 0 THEN base ELSE GgaField(after[i - 1], i, fields[i])]
  BY <1>7, Zenon
<1> HIDE DEF after
<1>9. after[0] = base /\ \A i \in 1 .. n : after[i] = GgaField(after[i - 1], i, fields[i])
  BY <1>1, <1>8
<1>10. \A i \in 0 .. n : after[i] \in GgaData
  <2>1. after[0] \in GgaData BY <1>2, <1>9
  <2>2. \A i \in 1 .. n : after[i - 1] \in GgaData => after[i] \in GgaData
    BY <1>1, <1>9, GgaTurn, Zenon
  <2> QED BY <1>1, <2>1, <2>2, LoopStays, Zenon
<1>11. FixReported(data[n]) \/ SameMagnitude(data[0], data[n])
  <2>1. \A i \in 1 .. n : i \in 0 .. n /\ i - 1 \in 0 .. n BY <1>1
  <2>2. \A i \in 1 .. n : data[i] = after[i].d /\ data[i - 1] = after[i - 1].d
    BY <2>1, Zenon DEF data
  <2>2a. \A a \in GgaData, i \in 1 .. n :
          LET b == GgaField(a, i, fields[i])
          IN  /\ FixReported(b.d) \/ SameMagnitude(a.d, b.d)
              /\ i < 6 => SameMagnitude(a.d, b.d)
              /\ i > 6 /\ FixReported(a.d) => FixReported(b.d)
    BY <1>1, GgaTurn, Zenon
  <2>3. \A i \in 1 .. n :
          /\ FixReported(data[i]) \/ SameMagnitude(data[i - 1], data[i])
          /\ i < 6 => SameMagnitude(data[i - 1], data[i])
          /\ i > 6 /\ FixReported(data[i - 1]) => FixReported(data[i])
    BY <1>9, <1>10, <2>1, <2>2, <2>2a, Zenon
  <2>4. 6 \in Int OBVIOUS
  <2> QED BY <1>1, <2>3, <2>4, MovesInLoop, Zenon
<1>12. data[0] = Opened(d) /\ data[n] = after[n].d /\ after[n].d \in GnsData
  BY <1>1, <1>2, <1>9, <1>10 DEF data, GgaData
<1>13. SameMagnitude(d, Opened(d)) BY Ends
<1> QED BY <1>3, <1>11, <1>12, <1>13, Ends, SameTwice, Zenon

(***************************************************************************)
(* Any sentence, and the data over the whole run.                          *)
(***************************************************************************)
\* Whatever the sentence, the parser keeps the types and moves the position
\* only on a fix of the sentence's own.
LEMMA ParserMoves ==
  ASSUME NEW d \in GnsData, NEW s, s.fields \in Seq(FieldType)
  PROVE  LET e == HNMEA_Parse(s, d).data
         IN  e \in GnsData /\ (FixReported(e) \/ SameMagnitude(d, e))
<1>1. s.fields \in Seq(FieldType) OBVIOUS
<1>2. SameMagnitude(d, d) BY DEF SameMagnitude
<1>3. HNMEA_Parse(s, d).data \in
        {d, HNMEA_Parse_RMC(d, s.fields), HNMEA_Parse_GGA(d, s.fields),
         HNMEA_Parse_GSA(d, s.fields), HNMEA_Parse_GST(d, s.fields)}
  BY DEF HNMEA_Parse
<1> QED BY <1>1, <1>2, <1>3, RmcMoves, GgaMoves, GsaMoves, GstMoves, Zenon

\* The data is of its type at the start.
LEMMA DataInit == HNMEA_Init_GNS_DATA \in GnsData
<1> DEFINE e == HNMEA_Init_GNS_DATA
<1>1. ASSUME NEW f \in GNS_DATA_FIELDS
      PROVE  /\ f \in {"lat", "lon", "alt", "geoid"} => e[f] \in Int
             /\ f \in Flagged => e[f] = {}
             /\ e[f] \in Numbers \cup SUBSET GNS_DATA_FIELDS
  BY DEF HNMEA_Init_GNS_DATA, NoDegrees, NoMetres, NoFix, Unset, Numbers, Flagged
<1>2. e = [f \in GNS_DATA_FIELDS |-> e[f]] BY DEF HNMEA_Init_GNS_DATA
<1>3. {"lat", "lon", "valid", "valid_new"} \subseteq GNS_DATA_FIELDS BY FieldNames
<1> HIDE DEF e
<1>4. e \in [GNS_DATA_FIELDS -> Numbers \cup SUBSET GNS_DATA_FIELDS] BY <1>1, <1>2
<1>5. e.lat \in Int /\ e.lon \in Int /\ e.valid = {} /\ e.valid_new = {}
  BY <1>1, <1>3 DEF Flagged
<1>6. {} \in SUBSET GNS_DATA_FIELDS OBVIOUS
<1> QED BY <1>4, <1>5, <1>6, Zenon DEF GnsData, e

\* The lines of the receiver are sentences.
LEMMA LinesAreSentences ==
  ASSUME LinesCounted, lines < Len(Sentences)
  PROVE  lines + 1 \in 1 .. Len(Sentences) /\ Sentences[lines + 1] \subseteq SentenceType
BY VehicleGatewayAssumption DEF LinesCounted

\* What a step does to the sentences that main and the reader share.
LEMMA SentenceSteps ==
  ASSUME IInv, [Next]_vars
  PROVE  \/ /\ UNCHANGED <<gnssBuffer, gnssDataReady, published>>
            /\ gns_data' = gns_data \/ ReadErrs
            /\ frame' = frame \/ frame'.id # "GVGNSP"
            /\ main' = main \/ main' # "crashed"
         \/ TakeSentence /\ gns_data' = gns_data
         \/ lines < Len(Sentences) /\ \E s \in Sentences[lines + 1] : ReadLine(s)
<1> USE DEF dataVars, lineVars, sentVars
<1>1. CASE SettingUp
  <2>1. UNCHANGED <<gnssBuffer, gnssDataReady, published, gns_data, frame>>
    BY <1>1, Zenon DEF SettingUp, obd2_init, gnss_init, Command, Answered, Unanswered
  <2>2. main' \in {"obd2_init", "gnss_init", "command", "answer", "gnss", "exited"}
    BY <1>1, Zenon DEF SettingUp, obd2_init, gnss_init, Command, Answered, Unanswered, MainGoes
  <2> QED BY <2>1, <2>2, Zenon
<1>2. CASE NoSentence \/ EndOfTurn \/ gnss_destroy \/ Joined
  <2>1. UNCHANGED <<gnssBuffer, gnssDataReady, published, gns_data>>
    BY <1>2, Zenon DEF NoSentence, EndOfTurn, gnss_destroy, Joined
  <2>2. frame' = frame \/ frame' = NoFrame
    BY <1>2, Zenon DEF NoSentence, EndOfTurn, gnss_destroy, Joined
  <2>3. NoFrame.id # "GVGNSP" BY DEF NoFrame
  <2>4. main' \in {"read CAN", "ask speed", "gnss", "destroy", "join", "done", "undefined"}
    BY <1>2, Zenon DEF NoSentence, EndOfTurn, gnss_destroy, Joined, MainGoes, AfterPosition
  <2> QED BY <2>1, <2>2, <2>3, <2>4, Zenon
<1>3. CASE SideStep \/ DongleStep \/ ReadingOn \/ UNCHANGED vars
  <2>1. main' = main /\ frame' = frame
    BY <1>3, SideStepLeaves, DongleStepLeaves, Zenon DEF ReadingOn, vars, gatewayVars
  <2>2. \/ /\ UNCHANGED <<gnssBuffer, gnssDataReady, published>>
           /\ gns_data' = gns_data \/ ReadErrs
        \/ lines < Len(Sentences) /\ \E s \in Sentences[lines + 1] : ReadLine(s)
    BY <1>3, DongleStepLeaves, Zenon DEF SideStep, sighandler, ReaderStep, ReadFails, ReadErrs,
       SelectTimesOut, Reopened, ReopenFails, ReadingOn, vars, gatewayVars
  <2> QED BY <2>1, <2>2, Zenon
<1>4. CASE get_obd_engine_speed \/ get_obd_fuel_level \/ can_read
  <2>1. UNCHANGED <<gnssBuffer, gnssDataReady, published, gns_data>>
    BY <1>4, Zenon DEF get_obd_engine_speed, get_obd_fuel_level, Ask, ReadValue, can_read
  <2>2. ASSUME NEW id \in ValueIds, NEW v, NEW to \in {"ask fuel", "sleep"},
               SendVehicle(id, v, AnswerRead, to)
        PROVE  (frame' = frame \/ frame'.id # "GVGNSP") /\ main' # "crashed"
    <3>1. \/ main' = "exited" /\ frame' = frame
          \/ /\ main' = to
             /\ \E values, n : frame' = [id |-> id, values |-> values, n |-> n,
                                        asked |-> asked, whole |-> TRUE]
      BY <2>2, Zenon DEF SendVehicle
    <3>2. id # "GVGNSP" /\ to # "crashed" /\ "exited" # "crashed" BY DEF ValueIds
    <3>3. ASSUME NEW values, NEW n,
                 frame' = [id |-> id, values |-> values, n |-> n, asked |-> asked, whole |-> TRUE]
          PROVE  frame'.id = id
      BY <3>3
    <3> QED BY <3>1, <3>2, <3>3, Zenon
  <2>3. ASSUME SendSensor(AnswerRead)
        PROVE  (frame' = frame \/ frame'.id # "GVGNSP") /\ main' # "crashed"
    <3> DEFINE tick == CanValue("wheel tick", AnswerRead.n)
    <3>1. \/ main' = "exited" /\ frame' = frame
          \/ /\ main' = "sleep"
             /\ frame' = [id |-> "GVSNSWHE", values |-> <<tick>>, n |-> AnswerRead.n,
                          asked |-> asked, whole |-> TRUE]
      BY <2>3, Zenon DEF SendSensor
    <3> HIDE DEF tick
    <3> QED BY <3>1
  <2>4. ForwardCan(AnswerRead) =>
          (frame' = frame \/ frame'.id # "GVGNSP") /\ main' # "crashed"
    <3>1. FrameId(AnswerRead) \in {"wheel tick", "engine speed", "fuel level", "NO_MESSAGE"}
      BY DEF FrameId, CanIds
    <3>2. ForwardCan(AnswerRead) =>
            \/ SendSensor(AnswerRead)
            \/ \E id \in ValueIds : \E v : SendVehicle(id, v, AnswerRead, "sleep")
            \/ main' = "sleep" /\ frame' = frame
      BY <3>1 DEF ForwardCan, ValueIds
    <3> QED BY <2>2, <2>3, <3>2, Zenon
  <2>5. \/ frame' = frame /\ main' \in {"read speed", "ask fuel", "read fuel", "sleep"}
        \/ ForwardCan(AnswerRead)
        \/ \E v : SendVehicle("GVVEHENGSPEED", v, AnswerRead, "ask fuel")
        \/ \E v : SendVehicle("GVVEHFUELLEVEL", v, AnswerRead, "sleep")
    BY <1>4, Zenon DEF get_obd_engine_speed, get_obd_fuel_level, Ask, ReadValue, can_read, MainGoes
  <2>6. "GVVEHENGSPEED" \in ValueIds /\ "GVVEHFUELLEVEL" \in ValueIds BY DEF ValueIds
  <2> QED BY <2>1, <2>2, <2>4, <2>5, <2>6, Zenon
<1>5. CASE TakeSentence
  BY <1>5, Zenon DEF TakeSentence
<1> QED BY <1>1, <1>2, <1>3, <1>4, <1>5, Steps, Zenon

\* The line the reader holds changes with the next one, or is emptied.
LEMMA LineHeld ==
  ASSUME [Next]_vars
  PROVE  \/ buf' \in {buf, NoLine}
         \/ lines < Len(Sentences) /\ \E s \in Sentences[lines + 1] : ReadLine(s)
<1> USE DEF lineVars
<1>1. CASE SettingUp
  BY <1>1, Zenon DEF SettingUp, obd2_init, gnss_init, Command, Answered, Unanswered
<1>2. CASE NoSentence \/ EndOfTurn \/ gnss_destroy \/ Joined \/ TakeSentence
  BY <1>2, Zenon DEF NoSentence, EndOfTurn, gnss_destroy, Joined, TakeSentence
<1>3. CASE SideStep \/ DongleStep \/ ReadingOn \/ UNCHANGED vars
  BY <1>3, DongleStepLeaves, Zenon DEF SideStep, sighandler, ReaderStep, ReadFails, ReadErrs,
     SelectTimesOut, Reopened, ReopenFails, ReadingOn, vars, gatewayVars
<1>4. CASE get_obd_engine_speed \/ get_obd_fuel_level \/ can_read
  BY <1>4, Zenon DEF get_obd_engine_speed, get_obd_fuel_level, Ask, ReadValue, can_read
<1> QED BY <1>1, <1>2, <1>3, <1>4, Steps, Zenon

\* The line the reader holds has fields, or none.
LEMMA FieldsHeld ==
  ASSUME IInv, [Next]_vars, buf.fields \in Seq(FieldType)
  PROVE  buf'.fields \in Seq(FieldType)
<1>1. NoLine.fields \in Seq(FieldType) BY DEF NoLine
<1>2. CASE lines < Len(Sentences) /\ \E s \in Sentences[lines + 1] : ReadLine(s)
  <2>1. PICK s \in Sentences[lines + 1] : ReadLine(s) BY <1>2
  <2>2. s \in SentenceType BY <1>2, <2>1, LinesAreSentences DEF IInv
  <2>3. s.fields \in Seq(FieldType) BY <2>2 DEF SentenceType
  <2>4. buf' = s BY <2>1, Zenon DEF ReadLine
  <2> QED BY <2>3, <2>4, Zenon
<1>3. CASE buf' = buf BY <1>3, Zenon
<1>4. CASE buf' = NoLine BY <1>1, <1>4, Zenon
<1> QED BY <1>2, <1>3, <1>4, LineHeld, Zenon

\* A step that changes the data of the receiver keeps its type, and moves the
\* position only on a fix, whether the line is new or parsed again.
LEMMA DataStep ==
  ASSUME IInv, [Next]_vars, gns_data \in GnsData, buf.fields \in Seq(FieldType)
  PROVE  /\ gns_data' \in GnsData
         /\ gns_data' = gns_data \/ FixReported(gns_data') \/ SameMagnitude(gns_data, gns_data')
<1>1. CASE lines < Len(Sentences) /\ \E s \in Sentences[lines + 1] : ReadLine(s)
  <2>1. PICK s \in Sentences[lines + 1] : ReadLine(s) BY <1>1
  <2>2. s.fields \in Seq(FieldType)
    BY <1>1, <2>1, LinesAreSentences DEF IInv, SentenceType
  <2>3. gns_data' = HNMEA_Parse(s, gns_data).data BY <2>1, Zenon DEF ReadLine
  <2> QED BY <2>2, <2>3, ParserMoves, Zenon
<1>2. CASE ReadErrs
  <2>1. gns_data' = HNMEA_Parse(buf, gns_data).data BY <1>2, Zenon DEF ReadErrs
  <2> QED BY <2>1, ParserMoves, Zenon
<1>3. CASE gns_data' = gns_data BY <1>3, Zenon
<1> QED BY <1>1, <1>2, <1>3, SentenceSteps, Zenon

\* The parser moves the stored position, but for its signs, only on a sentence
\* that itself reports a fix, whatever the receiver sends.
THEOREM ParserMovesOnlyWithFix == Spec => MovesOnlyWithFix
<1> DEFINE D == gns_data \in GnsData /\ buf.fields \in Seq(FieldType)
<1>1. GatewayInit => D
  <2>1. NoLine.fields \in Seq(FieldType) BY DEF NoLine
  <2> QED BY <2>1, DataInit, Zenon DEF GatewayInit
<1>2. IInv /\ D /\ [Next]_vars => D' BY DataStep, FieldsHeld, Zenon
<1>3. IInv /\ D /\ [Next]_vars =>
        [\/ gns_data'.fix2d = 1 /\ "fix2d" \in gns_data'.valid_new
         \/ /\ Magnitude(gns_data'.lat) = Magnitude(gns_data.lat)
            /\ Magnitude(gns_data'.lon) = Magnitude(gns_data.lon)]_gns_data
  BY DataStep, Zenon DEF FixReported, SameMagnitude
<1> HIDE DEF D
<1> QED BY <1>1, <1>2, <1>3, InvariantHolds, PTL DEF Spec, MovesOnlyWithFix

(***************************************************************************)
(* What strtok finds.                                                      *)
(***************************************************************************)
\* A turn of strtok: the fields found so far, and the next one unless it is empty.
Found(tokens, t) == IF Filled(t) THEN Append(tokens, t) ELSE tokens

\* `found` are the fields that strtok finds of `all`, after each of its turns.
TokensFound(all, found) ==
  /\ found \in [0 .. Len(all) -> Seq(FieldType)]
  /\ found[0] = << >>
  /\ \A i \in 1 .. Len(all) : found[i] = Found(found[i - 1], all[i])

TokenLists == Seq(FieldType)

\* strtok over any fields comes to an end.
LEMMA TokenRuns ==
  ASSUME NEW base \in TokenLists, NEW n \in Nat,
         NEW turn \in [TokenLists \X (1 .. n) -> TokenLists]
  PROVE  \E run \in [0 .. n -> TokenLists] :
           run[0] = base /\ \A i \in 1 .. n : run[i] = turn[<<run[i - 1], i>>]
BY LoopRuns

\* The fields of a line, its name first and the line end in the last one.
LEMMA FieldsOfLine ==
  ASSUME NEW s \in SentenceType
  PROVE  /\ Line(s) \in Seq(FieldType)
         /\ Len(Line(s)) = Len(s.fields) + 1
         /\ Len(s.fields) > 0 => Line(s)[1] = Letter(s.name)
         /\ \A i \in 2 .. Len(s.fields) : Line(s)[i] = s.fields[i - 1]
         /\ Line(s)[Len(s.fields) + 1].c = "end"
<1> DEFINE line == <<Letter(s.name)>> \o s.fields
           n    == Len(s.fields) + 1
           last == [line[n] EXCEPT !.c = "end"]
<1>1. s.fields \in Seq(FieldType) /\ s.name \in STRING /\ n \in Nat \ {0} BY DEF SentenceType
<1>2. Letter(s.name) \in FieldType
  <2>1. s.name \in FieldKinds BY <1>1 DEF FieldKinds
  <2> QED BY <2>1 DEF Letter, FieldType
<1>3. /\ line \in Seq(FieldType) /\ Len(line) = n /\ line[1] = Letter(s.name)
      /\ \A i \in 2 .. n : line[i] = s.fields[i - 1]
  <2> HIDE DEF n
  <2>1. <<Letter(s.name)>> \in Seq(FieldType) BY <1>2
  <2> QED BY <1>1, <2>1 DEF n
<1>4. Line(s) = [line EXCEPT ![n] = last] BY Zenon DEF Line
<1> HIDE DEF line, n
<1>5. last \in FieldType /\ last.c = "end"
  <2>1. line[n] \in FieldType BY <1>1, <1>3
  <2>2. ASSUME NEW t \in FieldType
        PROVE  [t EXCEPT !.c = "end"] \in FieldType /\ [t EXCEPT !.c = "end"].c = "end"
    <3>1. "end" \in FieldKinds BY DEF FieldKinds
    <3> QED BY <3>1 DEF FieldType
  <2> QED BY <2>1, <2>2, Zenon
<1> HIDE DEF last
<1>6. /\ Line(s) \in Seq(FieldType) /\ Len(Line(s)) = n /\ Line(s)[n] = last
      /\ \A i \in 1 .. n - 1 : Line(s)[i] = line[i]
  BY <1>1, <1>3, <1>4, <1>5
<1>7. n = Len(s.fields) + 1 /\ Len(s.fields) \in Nat BY <1>1 DEF n
<1> QED BY <1>3, <1>5, <1>6, <1>7, SMTT(30)

\* The tokens of a line are what strtok has found after its last turn.
LEMMA TokensOfLine ==
  ASSUME NEW s \in SentenceType
  PROVE  \E found : TokensFound(Line(s), found) /\ Tokens(s) = found[Len(Line(s))]
<1> DEFINE all   == Line(s)
           n     == Len(all)
           base  == << >>
           found == CHOOSE f : f = [i \in 0 .. n |-> IF i = 0 THEN << >>
                                     ELSE IF Filled(all[i]) THEN Append(f[i - 1], all[i])
                                     ELSE f[i - 1]]
           turn  == [p \in TokenLists \X (1 .. n) |-> Found(p[1], all[p[2]])]
<1>1. n \in Nat /\ \A i \in 1 .. n : all[i] \in FieldType
  <2>1. all \in Seq(FieldType) BY FieldsOfLine
  <2> QED BY <2>1
<1>2. Tokens(s) = found[n] BY Zenon DEF Tokens
<1> HIDE DEF all, n, found
<1>3. \A a \in TokenLists, i \in 1 .. n : Found(a, all[i]) \in TokenLists
  BY <1>1 DEF Found, TokenLists
<1>4. turn \in [TokenLists \X (1 .. n) -> TokenLists] BY <1>3
<1>5. \A a \in TokenLists, i \in 1 .. n : turn[<<a, i>>] = Found(a, all[i]) OBVIOUS
<1> HIDE DEF turn
<1>0. base \in TokenLists BY DEF TokenLists
<1> HIDE DEF base
<1>6. PICK run \in [0 .. n -> TokenLists] :
        run[0] = base /\ \A i \in 1 .. n : run[i] = turn[<<run[i - 1], i>>]
  BY <1>0, <1>1, <1>4, TokenRuns, ZenonT(60)
<1>7. \A i \in 1 .. n : run[i] = Found(run[i - 1], all[i])
  <2>1. \A i \in 1 .. n : i - 1 \in 0 .. n /\ run[i - 1] \in TokenLists BY <1>1
  <2> QED BY <1>5, <1>6, <2>1, Zenon
<1>8. run = [i \in 0 .. n |-> IF i = 0 THEN << >>
               ELSE IF Filled(all[i]) THEN Append(run[i - 1], all[i]) ELSE run[i - 1]]
  <2>1. \A i \in 0 .. n : i = 0 \/ i \in 1 .. n BY <1>1
  <2> QED BY <1>6, <1>7, <2>1 DEF Found, base
<1>9. found = [i \in 0 .. n |-> IF i = 0 THEN << >>
                 ELSE IF Filled(all[i]) THEN Append(found[i - 1], all[i]) ELSE found[i - 1]]
  BY <1>8, Zenon DEF found
<1>9a. found = [i \in 0 .. n |-> IF i = 0 THEN << >> ELSE Found(found[i - 1], all[i])]
  BY <1>9, Zenon DEF Found
<1>10. found[0] = << >> /\ \A i \in 1 .. n : found[i] = Found(found[i - 1], all[i])
  BY <1>1, <1>9a
<1>11. \A i \in 0 .. n : found[i] \in TokenLists
  <2>1. found[0] \in TokenLists BY <1>0, <1>10 DEF base
  <2>2. \A i \in 1 .. n : found[i - 1] \in TokenLists => found[i] \in TokenLists
    BY <1>3, <1>10, Zenon
  <2> QED BY <1>1, <2>1, <2>2, LoopStays, Zenon
<1>12. found \in [0 .. n -> TokenLists] BY <1>9, <1>11
<1> QED BY <1>2, <1>10, <1>12, Zenon DEF TokensFound, TokenLists, n, all

\* A turn adds the field to what was found, or leaves that as it is.
LEMMA StrtokTurn ==
  ASSUME NEW all \in Seq(FieldType), NEW found, TokensFound(all, found), NEW i \in 1 .. Len(all)
  PROVE  /\ Len(found[i - 1]) \in Nat /\ Len(found[i]) \in Nat
         /\ Filled(all[i]) => /\ Len(found[i]) = Len(found[i - 1]) + 1
                             /\ found[i][Len(found[i])] = all[i]
         /\ ~Filled(all[i]) => Len(found[i]) = Len(found[i - 1])
         /\ \A j \in 1 .. Len(found[i - 1]) : found[i][j] = found[i - 1][j]
<1> DEFINE a == found[i - 1]
           b == found[i]
           t == all[i]
<1>1. a \in Seq(FieldType) /\ t \in FieldType BY DEF TokensFound
<1>2. b = (IF Filled(t) THEN Append(a, t) ELSE a) BY DEF TokensFound, Found
<1> HIDE DEF a, b, t
<1>3. /\ Len(a) \in Nat /\ Len(b) \in Nat
      /\ Filled(t) => Len(b) = Len(a) + 1 /\ b[Len(b)] = t
      /\ ~Filled(t) => Len(b) = Len(a)
      /\ \A j \in 1 .. Len(a) : b[j] = a[j]
  BY <1>1, <1>2
<1> QED BY <1>3 DEF a, b, t

\* strtok keeps the order: the field it finds j-th is the j-th or a later one.
LEMMA StrtokKeepsOrder ==
  ASSUME NEW all \in Seq(FieldType), NEW found, TokensFound(all, found)
  PROVE  \A i \in 0 .. Len(all) :
           /\ Len(found[i]) \in 0 .. i
           /\ \A j \in 1 .. Len(found[i]) : \E m \in j .. i : found[i][j] = all[m]
<1> DEFINE n    == Len(all)
           P(i) == /\ Len(found[i]) \in 0 .. i
                   /\ \A j \in 1 .. Len(found[i]) : \E m \in j .. i : found[i][j] = all[m]
           S    == {i \in 0 .. n : P(i)}
<1>1. n \in Nat OBVIOUS
<1>2. 0 \in S
  <2>1. Len(found[0]) = 0 BY DEF TokensFound
  <2> QED BY <1>1, <2>1
<1>3. ASSUME NEW i \in 1 .. n, i - 1 \in S PROVE i \in S
  <2>1. P(i - 1) BY <1>3, Zenon
  <2> DEFINE a == found[i - 1]
             b == found[i]
             k == Len(a)
  <2>2a. k \in 0 .. i - 1 /\ \A j \in 1 .. k : \E m \in j .. i - 1 : a[j] = all[m]
    BY <2>1, Zenon
  <2>2. /\ Len(b) \in Nat
        /\ Filled(all[i]) => Len(b) = k + 1 /\ b[Len(b)] = all[i]
        /\ ~Filled(all[i]) => Len(b) = k
        /\ \A j \in 1 .. k : b[j] = a[j]
    BY StrtokTurn
  <2> HIDE DEF a, b, k, n
  <2>3. Len(b) \in 0 .. i BY <2>2, <2>2a
  <2>4. ASSUME NEW j \in 1 .. Len(b) PROVE \E m \in j .. i : b[j] = all[m]
    <3>1. CASE j \in 1 .. k BY <2>2, <2>2a, <3>1
    <3>2. CASE j = k + 1
      <4>1. b[j] = all[i] /\ i \in j .. i BY <2>2, <2>2a, <3>2
      <4> QED BY <4>1
    <3> QED BY <2>2, <2>2a, <3>1, <3>2
  <2>5. i \in 0 .. n BY <1>1
  <2> QED BY <2>3, <2>4, <2>5 DEF b
<1> HIDE DEF S
<1>4. \A i \in 0 .. n : i \in S BY <1>1, <1>2, <1>3, OverTurns
<1> QED BY <1>4, Zenon DEF S

\* What strtok has found it keeps: its list only grows.
LEMMA StrtokGrows ==
  ASSUME NEW all \in Seq(FieldType), NEW found, TokensFound(all, found),
         NEW k \in 0 .. Len(all)
  PROVE  \A i \in k .. Len(all) : Len(found[i]) >= Len(found[k])
<1> DEFINE n == Len(all)
           S == {i \in 0 .. n : i >= k => Len(found[i]) >= Len(found[k])}
<1>1. n \in Nat OBVIOUS
<1>2. \A i \in 0 .. n : Len(found[i]) \in Nat BY StrtokKeepsOrder
<1>3. \A i \in 1 .. n : Len(found[i]) >= Len(found[i - 1]) BY StrtokTurn
<1> HIDE DEF n
<1>4. 0 \in S
  <2>1. 0 >= k => k = 0 BY <1>1
  <2> QED BY <1>1, <1>2, <2>1
<1>5. ASSUME NEW i \in 1 .. n, i - 1 \in S PROVE i \in S
  <2>1. i - 1 >= k => Len(found[i - 1]) >= Len(found[k]) BY <1>5, Zenon
  <2>2. i \in 0 .. n /\ i - 1 \in 0 .. n /\ k \in 0 .. n BY <1>1 DEF n
  <2>3. i >= k => i - 1 >= k \/ i = k BY <2>2
  <2> QED BY <1>2, <1>3, <2>1, <2>2, <2>3
<1> HIDE DEF S
<1>6. \A i \in 0 .. n : i \in S BY <1>1, <1>4, <1>5, OverTurns
<1> QED BY <1>6 DEF S, n

\* The filled fields at the beginning of a line are found at their places.
LEMMA StrtokPrefix ==
  ASSUME NEW all \in Seq(FieldType), NEW found, TokensFound(all, found),
         NEW p \in 0 .. Len(all), \A j \in 1 .. p : Filled(all[j])
  PROVE  /\ Len(found[p]) = p
         /\ \A i \in p .. Len(all) : \A j \in 1 .. p : found[i][j] = all[j]
<1> DEFINE n    == Len(all)
           P(i) == /\ i <= p => Len(found[i]) = i
                   /\ \A j \in 1 .. p : j <= i => j <= Len(found[i]) /\ found[i][j] = all[j]
           S    == {i \in 0 .. n : P(i)}
<1>1. n \in Nat /\ p \in 0 .. n OBVIOUS
<1>2. 0 \in S
  <2>1. Len(found[0]) = 0 BY DEF TokensFound
  <2> QED BY <1>1, <2>1
<1>3. ASSUME NEW i \in 1 .. n, i - 1 \in S PROVE i \in S
  <2>1. P(i - 1) BY <1>3, Zenon
  <2> DEFINE a == found[i - 1]
             b == found[i]
  <2>2a. /\ i - 1 <= p => Len(a) = i - 1
         /\ \A j \in 1 .. p : j <= i - 1 => j <= Len(a) /\ a[j] = all[j]
    BY <2>1, Zenon
  <2>2. /\ Len(a) \in Nat /\ Len(b) \in Nat
        /\ Filled(all[i]) => Len(b) = Len(a) + 1 /\ b[Len(b)] = all[i]
        /\ ~Filled(all[i]) => Len(b) = Len(a)
        /\ \A j \in 1 .. Len(a) : b[j] = a[j]
    BY StrtokTurn
  <2> HIDE DEF a, b, n
  <2>3. i <= p => Filled(all[i]) OBVIOUS
  <2>4. i <= p => Len(b) = i /\ b[i] = all[i] BY <1>1, <2>2, <2>2a, <2>3
  <2>5. ASSUME NEW j \in 1 .. p, j <= i PROVE j <= Len(b) /\ b[j] = all[j]
    <3>1. CASE j <= i - 1
      <4>1. j <= Len(a) /\ a[j] = all[j] BY <2>2a, <3>1
      <4>2. j \in 1 .. Len(a) /\ Len(a) <= Len(b) BY <2>2, <4>1
      <4>3. b[j] = a[j] BY <2>2, <4>2
      <4> QED BY <2>2, <4>1, <4>2, <4>3
    <3>2. CASE j = i BY <1>1, <2>4, <2>5, <3>2
    <3> QED BY <1>1, <2>5, <3>1, <3>2
  <2>6. i \in 0 .. n BY <1>1
  <2> QED BY <2>4, <2>5, <2>6 DEF b
<1> HIDE DEF S
<1>4. \A i \in 0 .. n : i \in S BY <1>1, <1>2, <1>3, OverTurns
<1> QED BY <1>1, <1>4 DEF S

(***************************************************************************)
(* A sentence that arrived in full.                                        *)
(***************************************************************************)
\* What get_geolocation reads of the buffer, when sentence n arrived in full:
\* that there is no fix, or the position of sentence n.
Readable(tokens, n) ==
  \/ Len(tokens) >= 3 /\ tokens[3].c # "A"
  \/ /\ Len(tokens) >= 7 /\ tokens[3].c = "A"
     /\ tokens[4].v = n /\ tokens[6].v = n

\* strtok finds it in such a sentence, whatever fields are empty.
LEMMA WholeSentenceReadable ==
  ASSUME NEW n \in 1 .. Len(Sentences), NEW s \in Sentences[n],
         s.name = "RMC", Len(s.fields) = RMC_FIELDS
  PROVE  Readable(Tokens(s), n)
<1> DEFINE all == Line(s)
<1>1. s \in SentenceType BY VehicleGatewayAssumption
<1>2. PICK found : TokensFound(all, found) /\ Tokens(s) = found[Len(all)]
  BY <1>1, TokensOfLine
<1>3. /\ all \in Seq(FieldType) /\ Len(all) = 13
      /\ all[1] = Letter("RMC") /\ all[13].c = "end"
      /\ \A i \in 2 .. 12 : all[i] = s.fields[i - 1]
  <2>1. Len(s.fields) = 12 BY DEF RMC_FIELDS
  <2>2. 12 > 0 /\ 12 + 1 = 13 OBVIOUS
  <2> QED BY <1>1, <2>1, <2>2, FieldsOfLine, Zenon
<1>3a. all \in Seq(FieldType) BY <1>3
<1>4. Filled(all[1]) /\ Filled(all[13]) BY <1>3 DEF Filled, Letter
<1>5. /\ all[2] = s.fields[1] /\ all[3] = s.fields[2] /\ all[4] = s.fields[3]
      /\ all[5] = s.fields[4] /\ all[6] = s.fields[5]
  BY <1>3
<1> HIDE DEF all
<1>6. \A k \in 0 .. 12 :
        /\ Len(found[k]) \in Nat /\ Len(found[k + 1]) \in Nat
        /\ Len(found[k + 1]) >= Len(found[k])
        /\ Filled(all[k + 1]) => Len(found[k + 1]) = Len(found[k]) + 1
  <2>1. ASSUME NEW i \in 1 .. Len(all)
        PROVE  /\ Len(found[i - 1]) \in Nat /\ Len(found[i]) \in Nat
               /\ Filled(all[i]) => Len(found[i]) = Len(found[i - 1]) + 1
               /\ ~Filled(all[i]) => Len(found[i]) = Len(found[i - 1])
    BY <1>2, <1>3a, StrtokTurn
  <2> SUFFICES ASSUME NEW k \in 0 .. 12
               PROVE  /\ Len(found[k]) \in Nat /\ Len(found[k + 1]) \in Nat
                      /\ Len(found[k + 1]) >= Len(found[k])
                      /\ Filled(all[k + 1]) => Len(found[k + 1]) = Len(found[k]) + 1
    OBVIOUS
  <2>2. k + 1 \in 1 .. Len(all) /\ (k + 1) - 1 = k BY <1>3
  <2>3. /\ Len(found[k]) \in Nat /\ Len(found[k + 1]) \in Nat
        /\ Filled(all[k + 1]) => Len(found[k + 1]) = Len(found[k]) + 1
        /\ ~Filled(all[k + 1]) => Len(found[k + 1]) = Len(found[k])
    BY <2>1, <2>2, Zenon
  <2> QED BY <2>3
<1>7. Len(found[13]) = Len(found[12]) + 1 /\ Len(found[12]) \in Nat
  <2>1. 12 \in 0 .. 12 /\ 12 + 1 = 13 OBVIOUS
  <2> QED BY <1>4, <1>6, <2>1, Zenon
<1>8. CASE /\ s.fields[2] = Letter("A") /\ Filled(s.fields[1]) /\ Filled(s.fields[4])
           /\ s.fields[3] = Number(n) /\ s.fields[5] = Number(n)
  <2>1. Filled(Letter("A")) /\ Filled(Number(n)) BY DEF Filled, Letter, Number
  <2>2. \A j \in 1 .. 6 : Filled(all[j])
    <3>1. \A j \in 1 .. 6 : j \in {1, 2, 3, 4, 5, 6} OBVIOUS
    <3>2. \A j \in {1, 2, 3, 4, 5, 6} : Filled(all[j]) BY <1>4, <1>5, <1>8, <2>1, Zenon
    <3> QED BY <3>1, <3>2, Zenon
  <2>3. 6 \in 0 .. Len(all) /\ 12 \in 6 .. Len(all) /\ 13 \in 6 .. Len(all) BY <1>3
  <2>4. Len(found[6]) = 6 /\ \A j \in 1 .. 6 : found[13][j] = all[j]
    <3>1. ASSUME NEW p \in 0 .. Len(all), \A j \in 1 .. p : Filled(all[j])
          PROVE  Len(found[p]) = p
      BY <1>2, <1>3a, <3>1, StrtokPrefix
    <3>2. ASSUME NEW i \in 6 .. Len(all), NEW j \in 1 .. 6 PROVE found[i][j] = all[j]
      BY <1>2, <1>3a, <2>2, <2>3, StrtokPrefix
    <3> QED BY <2>2, <2>3, <3>1, <3>2, Zenon
  <2>5. Len(found[12]) >= 6 BY <1>2, <1>3, <2>3, <2>4, StrtokGrows, Zenon
  <2>6. Len(found[13]) >= 7 BY <1>7, <2>5
  <2>7. /\ found[13][3] = Letter("A") /\ found[13][4] = Number(n) /\ found[13][6] = Number(n)
    BY <1>5, <1>8, <2>4
  <2> QED BY <1>2, <1>3, <2>6, <2>7 DEF Readable, Letter, Number
<1>9. CASE Filled(s.fields[2]) /\ \A i \in 1 .. RMC_FIELDS - 1 : s.fields[i].c # "A"
  <2>1. Len(found[3]) >= 2
    <3>1. /\ 0 \in 0 .. 12 /\ 1 \in 0 .. 12 /\ 2 \in 0 .. 12
          /\ 0 + 1 = 1 /\ 1 + 1 = 2 /\ 2 + 1 = 3
      OBVIOUS
    <3>2. Filled(all[3]) BY <1>5, <1>9
    <3>3. Len(found[0]) = 0 BY <1>2 DEF TokensFound
    <3>4. Len(found[1]) = Len(found[0]) + 1 BY <1>4, <1>6, <3>1, Zenon
    <3>5. Len(found[2]) >= Len(found[1]) BY <1>6, <3>1, Zenon
    <3>6. Len(found[3]) = Len(found[2]) + 1 /\ Len(found[2]) \in Nat
      BY <1>6, <3>1, <3>2, Zenon
    <3> QED BY <3>3, <3>4, <3>5, <3>6
  <2>2. Len(found[12]) >= Len(found[3]) /\ Len(found[3]) \in Nat
    <3>1. 3 \in 0 .. Len(all) /\ 12 \in 3 .. Len(all) /\ 3 \in 0 .. 12 BY <1>3
    <3> QED BY <1>2, <1>3, <1>6, <3>1, StrtokGrows, Zenon
  <2>3. Len(found[13]) >= 3 BY <1>7, <2>1, <2>2
  <2>4. PICK m \in 3 .. 13 : found[13][3] = all[m]
    <3>1. 13 \in 0 .. Len(all) /\ 3 \in 1 .. Len(found[13]) BY <1>3, <1>7, <2>3
    <3>2. ASSUME NEW i \in 0 .. Len(all), NEW j \in 1 .. Len(found[i])
          PROVE  \E m \in j .. i : found[i][j] = all[m]
      BY <1>2, <1>3a, StrtokKeepsOrder
    <3> QED BY <3>1, <3>2, Zenon
  <2>5. all[m].c # "A"
    <3>1. CASE m = 13 BY <1>3, <3>1
    <3>2. CASE m \in 3 .. 12
      <4>1. all[m] = s.fields[m - 1] /\ m - 1 \in 1 .. RMC_FIELDS - 1
        BY <1>3, <3>2, SMTT(30) DEF RMC_FIELDS
      <4> QED BY <1>9, <4>1
    <3> QED BY <3>1, <3>2
  <2> QED BY <1>2, <1>3, <2>3, <2>4, <2>5 DEF Readable
<1> QED BY <1>8, <1>9, ReceiverAssumption, Zenon

\* What older sentences left in the buffer comes after the new one.
LEMMA CopiedReadable ==
  ASSUME NEW tokens \in Seq(FieldType), gnssBuffer \in Seq(FieldType), NEW n
  PROVE  /\ Copied(tokens) \in Seq(FieldType)
         /\ Readable(tokens, n) => Readable(Copied(tokens), n)
<1> DEFINE k    == Len(gnssBuffer)
           rest == SubSeq(gnssBuffer, Len(tokens) + 1, k)
<1>1. rest \in Seq(FieldType) /\ Len(rest) \in Nat OBVIOUS
<1> HIDE DEF rest
<1>2. Copied(tokens) = tokens \o rest BY Zenon DEF Copied, rest
<1>3. /\ Copied(tokens) \in Seq(FieldType)
      /\ Len(tokens) \in Nat /\ Len(Copied(tokens)) >= Len(tokens)
      /\ Len(Copied(tokens)) \in Nat
      /\ \A j \in 1 .. Len(tokens) : Copied(tokens)[j] = tokens[j]
  BY <1>1, <1>2
<1>4. Len(tokens) >= 3 => Copied(tokens)[3] = tokens[3] /\ Len(Copied(tokens)) >= 3 BY <1>3
<1>5. Len(tokens) >= 7 => /\ Copied(tokens)[3] = tokens[3] /\ Copied(tokens)[4] = tokens[4]
                          /\ Copied(tokens)[6] = tokens[6] /\ Len(Copied(tokens)) >= 7
  BY <1>3
<1> QED BY <1>3, <1>4, <1>5, Zenon DEF Readable

\* What the library makes of it: no position, or the one of sentence n.
LEMMA ReadableIsRead ==
  ASSUME NEW tokens \in Seq(FieldType), NEW n, Readable(tokens, n)
  PROVE  LET g == get_geolocation(tokens)
         IN  g.outcome \in {"none", "sent"} /\ (g.outcome = "sent" => g.lat = n /\ g.lon = n)
<1>1. Len(tokens) \in Nat OBVIOUS
<1>2. CASE Len(tokens) >= 3 /\ tokens[3].c # "A"
  <2>1. Len(tokens) # 1 /\ Len(tokens) # 2 BY <1>1, <1>2
  <2>2. get_geolocation(tokens) = [outcome |-> "none"]
    BY <1>2, <2>1, Zenon DEF get_geolocation
  <2> QED BY <2>2
<1>3. CASE Len(tokens) >= 7 /\ tokens[3].c = "A" /\ tokens[4].v = n /\ tokens[6].v = n
  <2>1. Len(tokens) # 1 /\ Len(tokens) # 2 /\ Len(tokens) \notin {3, 5} /\ Len(tokens) > 4
    BY <1>1, <1>3
  <2>2. get_geolocation(tokens) = [outcome |-> "sent", lat |-> n, lon |-> n]
    BY <1>3, <2>1 DEF get_geolocation
  <2> QED BY <2>2
<1> QED BY <1>2, <1>3, Zenon DEF Readable

(***************************************************************************)
(* The inductive invariant: what is in the buffer belongs to the sentence  *)
(* published last, when that one arrived in full.                          *)
(***************************************************************************)
InBuffer ==
  /\ gnssBuffer \in Seq(FieldType)
  /\ gnssDataReady => published.n > 0
  /\ published.n > 0 /\ published.whole => Readable(gnssBuffer, published.n)

SentenceInv == InBuffer /\ WholeSentenceSentAsReceived /\ WholeSentenceNeverCrashes

\* A new line: the buffer is left alone, or what it has of a whole line is readable.
LEMMA LineKeepsInv ==
  ASSUME IInv, SentenceInv, lines < Len(Sentences),
         NEW s \in Sentences[lines + 1], ReadLine(s)
  PROVE  SentenceInv'
<1>1. main' = main /\ frame' = frame BY Zenon DEF ReadLine, sentVars
<1>2. main # "crashed" BY DEF ReadLine, At, Alive, Ended
<1>3. WholeSentenceSentAsReceived' /\ WholeSentenceNeverCrashes'
  BY <1>1, <1>2, Zenon DEF SentenceInv, WholeSentenceSentAsReceived, WholeSentenceNeverCrashes
<1>4. CASE UNCHANGED <<gnssBuffer, gnssDataReady, published>>
  BY <1>3, <1>4, Zenon DEF SentenceInv, InBuffer
<1>5. CASE Publish(s) /\ HNMEA_Parse(s, gns_data).result = "RMC"
  <2>1. lines + 1 \in 1 .. Len(Sentences) /\ s \in SentenceType
    BY LinesAreSentences DEF IInv
  <2>2. s.name = "RMC" BY <1>5 DEF HNMEA_Parse
  <2> DEFINE whole == Len(s.fields) = RMC_FIELDS
  <2>3. /\ gnssBuffer' = Copied(Tokens(s))
        /\ published' = [n |-> lines + 1, whole |-> whole]
    BY <1>5, Zenon DEF Publish
  <2>4. Tokens(s) \in Seq(FieldType)
    <3>1. PICK found : TokensFound(Line(s), found) /\ Tokens(s) = found[Len(Line(s))]
      BY <2>1, TokensOfLine
    <3>2. Len(Line(s)) \in 0 .. Len(Line(s)) BY <2>1, FieldsOfLine
    <3> QED BY <3>1, <3>2 DEF TokensFound
  <2>5. whole => Readable(Tokens(s), lines + 1)
    BY <2>1, <2>2, WholeSentenceReadable
  <2>6. /\ Copied(Tokens(s)) \in Seq(FieldType)
        /\ whole => Readable(Copied(Tokens(s)), lines + 1)
    BY <2>4, <2>5, CopiedReadable, Zenon DEF SentenceInv, InBuffer
  <2> HIDE DEF whole
  <2>7. published'.n = lines + 1 /\ published'.whole = whole BY <2>3
  <2>8. published'.n > 0 BY <2>1, <2>7
  <2>9. InBuffer' BY <2>3, <2>6, <2>7, <2>8, Zenon DEF InBuffer
  <2> QED BY <1>3, <2>9, Zenon DEF SentenceInv
<1> QED BY <1>4, <1>5, Zenon DEF ReadLine, dataVars

\* The sentence that is taken from the buffer is sent with its position.
LEMMA TakeKeepsInv ==
  ASSUME IInv, SentenceInv, TakeSentence
  PROVE  SentenceInv'
<1> DEFINE g == get_geolocation(gnssBuffer)
<1>1. /\ gnssDataReady /\ gnssDataReady' = FALSE /\ main = "gnss"
      /\ UNCHANGED <<gnssBuffer, published>>
  BY Zenon DEF TakeSentence, ReadyAfterCopy
<1>2. InBuffer' BY <1>1, Zenon DEF SentenceInv, InBuffer
<1>3. published.whole => /\ g.outcome \in {"none", "sent"}
                         /\ g.outcome = "sent" => g.lat = published.n /\ g.lon = published.n
  BY <1>1, ReadableIsRead, Zenon DEF SentenceInv, InBuffer
<1>4. WholeSentenceNeverCrashes'
  <2>1. main' = "crashed" => g.outcome = "crash"
    BY DEF TakeSentence, SendPosition, AfterPosition
  <2>2. "crash" \notin {"none", "sent"} OBVIOUS
  <2> QED BY <1>1, <1>3, <2>1, <2>2, Zenon DEF WholeSentenceNeverCrashes
<1>5. WholeSentenceSentAsReceived'
  <2>1. \/ frame' = frame
        \/ /\ g.outcome = "sent"
           /\ frame' = [id |-> "GVGNSP", values |-> <<g.lat, g.lon>>, n |-> published.n,
                        asked |-> 0, whole |-> published.whole]
    BY Zenon DEF TakeSentence, SendPosition
  <2>2. CASE frame' = frame
    BY <2>2, Zenon DEF SentenceInv, WholeSentenceSentAsReceived
  <2>3. CASE /\ g.outcome = "sent"
             /\ frame' = [id |-> "GVGNSP", values |-> <<g.lat, g.lon>>, n |-> published.n,
                          asked |-> 0, whole |-> published.whole]
    <3> HIDE DEF g
    <3>1. /\ frame'.whole = published.whole /\ frame'.n = published.n
          /\ frame'.values = <<g.lat, g.lon>>
      BY <2>3
    <3> QED BY <1>3, <2>3, <3>1, Zenon DEF WholeSentenceSentAsReceived
  <2> QED BY <2>1, <2>2, <2>3
<1> QED BY <1>2, <1>4, <1>5, Zenon DEF SentenceInv

\* The invariant of the sentences holds when the gateway starts.
THEOREM SentenceInvInit == GatewayInit => SentenceInv
<1> SUFFICES ASSUME GatewayInit PROVE SentenceInv OBVIOUS
<1>1. /\ main = "obd2_init" /\ gnssBuffer = << >> /\ gnssDataReady = FALSE
      /\ published = [n |-> 0, whole |-> TRUE] /\ frame = NoFrame
  BY Zenon DEF GatewayInit
<1>2. InBuffer BY <1>1 DEF InBuffer
<1>3. WholeSentenceSentAsReceived /\ WholeSentenceNeverCrashes
  BY <1>1 DEF WholeSentenceSentAsReceived, WholeSentenceNeverCrashes, NoFrame
<1> QED BY <1>2, <1>3 DEF SentenceInv

\* Every step keeps it: of the reader, of main, and of all the others.
THEOREM SentenceInvStep == IInv /\ SentenceInv /\ [Next]_vars => SentenceInv'
<1> SUFFICES ASSUME IInv, SentenceInv, [Next]_vars PROVE SentenceInv' OBVIOUS
<1>1. CASE /\ UNCHANGED <<gnssBuffer, gnssDataReady, published>>
           /\ frame' = frame \/ frame'.id # "GVGNSP"
           /\ main' = main \/ main' # "crashed"
  BY <1>1, Zenon
     DEF SentenceInv, InBuffer, WholeSentenceSentAsReceived, WholeSentenceNeverCrashes
<1>2. CASE TakeSentence BY <1>2, TakeKeepsInv
<1>3. CASE lines < Len(Sentences) /\ \E s \in Sentences[lines + 1] : ReadLine(s)
  BY <1>3, LineKeepsInv, Zenon
<1> QED BY <1>1, <1>2, <1>3, SentenceSteps, Zenon

\* The invariant of the sentences holds in every state the gateway reaches.
THEOREM SentenceInvHolds == Spec => []SentenceInv
BY SentenceInvInit, SentenceInvStep, InvariantHolds, PTL DEF Spec

\* A sentence that arrived in full is sent with its own position, whatever
\* shorter or longer ones left in the buffer, and however many came before it.
THEOREM WholeSentenceIsSentAsReceived == Spec => []WholeSentenceSentAsReceived
<1>1. SentenceInv => WholeSentenceSentAsReceived BY DEF SentenceInv
<1> QED BY <1>1, SentenceInvHolds, PTL

\* A sentence that arrived in full never makes main read a null pointer.
THEOREM WholeSentenceIsSafe == Spec => []WholeSentenceNeverCrashes
<1>1. SentenceInv => WholeSentenceNeverCrashes BY DEF SentenceInv
<1> QED BY <1>1, SentenceInvHolds, PTL
=============================================================================
