---------------------------- MODULE VehicleGateway ----------------------------
(***************************************************************************)
(* The vehicle gateway, a process of two threads:                          *)
(*   - main sets the devices up, then every 100 ms forwards the last GNSS  *)
(*     sentence to the GNSS service and what the dongle tells to the AMB   *)
(*     plugin or the sensors service, until a signal comes;                *)
(*   - the reader waits for the lines of the GNSS receiver, parses them    *)
(*     and publishes the RMC sentences under mutex_gnss; when the receiver *)
(*     is gone it closes the device and tries to open it again.            *)
(* A place of a thread is between two accesses to what threads share.      *)
(*                                                                         *)
(* The buffer of the published sentence is copied without its terminator:  *)
(* what a longer sentence left behind it stays and is read with it.        *)
(***************************************************************************)
EXTENDS ObdDongle, NmeaParser

CONSTANTS
  Sentences,       \* for each line of the receiver, the set of what it may be
  OPEN_RETRY_MAX,  \* attempts to open the receiver again
  MaxCycles        \* bound: number of turns of the main loop

\* The fields of a complete RMC sentence; the last one has the checksum.
RMC_FIELDS == 12

\* A field is empty, a number or a letter; "end" marks the last one of a line.
FieldKinds   == STRING \cup {"", "#", "end"}
FieldType    == [c : FieldKinds, v : Int]
SentenceType == [name : STRING, checksum : {"right", "wrong", "none"}, fields : Seq(FieldType)]

ASSUME VehicleGatewayAssumption ==
  /\ Len(Sentences) \in Nat
  /\ OPEN_RETRY_MAX \in Nat \ {0}
  /\ MaxCycles \in Nat \ {0}
  /\ \A n \in 1 .. Len(Sentences) : Sentences[n] \subseteq SentenceType

\* What a receiver writes: a complete RMC sentence has a status, and with a fix
\* it has the time, the latitude, its hemisphere and the longitude too; without
\* one no field has the letter of the status but the last, the mode.  Both
\* coordinates of line n are the number n.
ASSUME ReceiverAssumption ==
  \A n \in 1 .. Len(Sentences) : \A s \in Sentences[n] :
    s.name = "RMC" /\ Len(s.fields) = RMC_FIELDS =>
      \/ /\ s.fields[2] = Letter("A")
         /\ Filled(s.fields[1]) /\ Filled(s.fields[4])
         /\ s.fields[3] = Number(n) /\ s.fields[5] = Number(n)
      \/ /\ Filled(s.fields[2])
         /\ \A i \in 1 .. RMC_FIELDS - 1 : s.fields[i].c # "A"

VARIABLES
  can_reader_mode,  \* the third argument of the command line
  main,             \* where the main thread is
  script,           \* commands of the set-up that are still to be given
  isRunning,        \* cleared by a signal
  cycles,           \* turns of the main loop so far
  reader,           \* where the reader is, "none" unless it was created; its
                    \* "overrun" ends the process
  retries,          \* device_open_retries
  g_gnss_loop,
  gnssBuffer,       \* fields of the published sentence, and of older ones
  gnssDataReady,
  published,        \* history: number and completeness of the sentence
  buf,              \* the line the reader holds
  lines,            \* lines received so far
  rmcs,             \* history: RMC sentences published so far
  gns_data,         \* what the parser keeps
  frame,            \* history: the last frame sent in this turn, and where
                    \* it is from
  positions         \* history: number of positions sent

dataVars   == <<gnssBuffer, gnssDataReady, published>>
lineVars   == <<buf, lines, rmcs, gns_data>>
readerVars == <<reader, retries>>
sentVars   == <<frame, positions>>
mainVars   == <<can_reader_mode, script, cycles>>
gatewayVars == <<dongleVars, mainVars, main, isRunning, readerVars, g_gnss_loop,
                 dataVars, lineVars, sentVars>>

NoFrame == [id |-> "none", values |-> << >>, n |-> 0, asked |-> 0, whole |-> TRUE]

Ended == {"done", "exited", "crashed", "undefined"}
Alive == main \notin Ended /\ reader # "overrun"

(***************************************************************************)
(* Main: setting up.  A step that fails returns from main, and the process *)
(* ends with the reader in it.                                             *)
(***************************************************************************)
MainGoes(from, to) == main = from /\ main' = to

obd2_init ==
  /\ \/ MainGoes("obd2_init", "gnss_init") /\ UNCHANGED events
     \/ MainGoes("obd2_init", "exited") /\ Event
  /\ UNCHANGED <<asked, pending, tty, tmp, late, mainVars, isRunning, readerVars, g_gnss_loop,
                 dataVars, lineVars, sentVars>>

\* The device is opened, two commands are written, the reader is created.
\* What pthread_create returns is not looked at.
gnss_init ==
  /\ \/ MainGoes("gnss_init", "command") /\ reader' = "select" /\ UNCHANGED events
     \/ MainGoes("gnss_init", "command") /\ UNCHANGED reader /\ Event
     \/ MainGoes("gnss_init", "exited") /\ UNCHANGED reader /\ Event
  /\ UNCHANGED <<asked, pending, tty, tmp, late, mainVars, isRunning, retries, g_gnss_loop,
                 dataVars, lineVars, sentVars>>

\* obd2_reset, then obd2_config or obd2_config_can_reader: each command is
\* answered before the next one is written.
ObdScript == <<"AT Z", "AT E0", "0100">>
CanScript == <<"AT Z", "AT I", "AT L1", "AT H1", "AT S0", "AT AL", "AT SP", "AT D1",
               "AT CAF0", "AT CM", "AT CF">>

Command ==
  /\ MainGoes("command", "answer")
  /\ obd2_send_command(Head(script)) \/ CommandIsLost
  /\ UNCHANGED <<mainVars, isRunning, readerVars, g_gnss_loop, dataVars, lineVars, sentVars>>

\* The answer may be anything, as long as it comes.  The monitor command,
\* the last one of the reader mode, is not waited for.
Answered ==
  /\ main = "answer"
  /\ ReadUpToPrompt
  /\ script' = Tail(script)
  /\ main' = IF Len(script) = 1 THEN "gnss" ELSE "command"
  /\ UNCHANGED <<can_reader_mode, cycles, isRunning, readerVars, g_gnss_loop, dataVars,
                 lineVars, sentVars>>

Unanswered ==
  /\ MainGoes("answer", "exited")
  /\ GivesUp
  /\ UNCHANGED <<mainVars, isRunning, readerVars, g_gnss_loop, dataVars, lineVars, sentVars>>

SettingUp == obd2_init \/ gnss_init \/ Command \/ Answered \/ Unanswered

(***************************************************************************)
(* Main: the position.                                                     *)
(***************************************************************************)
\* Mutant: the index of the latitude is one too high.
GeolocationOffByOne(t) ==
  IF Len(t) = 1 THEN [outcome |-> "none"]
  ELSE IF Len(t) = 2 THEN [outcome |-> "crash"]
  ELSE IF t[3].c # "A" THEN [outcome |-> "none"]
  ELSE IF Len(t) \in {3, 5} THEN [outcome |-> "crash"]
  ELSE [outcome |-> "sent", lat |-> IF Len(t) > 4 THEN t[5].v ELSE 0,
        lon |-> IF Len(t) > 4 THEN t[6].v ELSE 0]

\* Mutant: a sentence without a fix is not refused at once.
GeolocationOfAny(t) ==
  IF Len(t) = 1 THEN [outcome |-> "none"]
  ELSE IF Len(t) \in {2, 3, 5} THEN [outcome |-> "crash"]
  ELSE IF t[3].c # "A" THEN [outcome |-> "none"]
  ELSE [outcome |-> "sent", lat |-> t[4].v, lon |-> IF Len(t) > 4 THEN t[6].v ELSE 0]

\* get_geolocation counts the fields that strtok finds: empty ones are not
\* counted.  When the fields end at the status, the latitude or the longitude
\* the library is called with a null pointer.  The hemisphere letters are
\* compared by their addresses: no position is ever south or west.
get_geolocation(t) ==
  IF Len(t) = 1 THEN [outcome |-> "none"]
  ELSE IF Len(t) = 2 THEN [outcome |-> "crash"]
  ELSE IF t[3].c # "A" THEN [outcome |-> "none"]
  ELSE IF Len(t) \in {3, 5} THEN [outcome |-> "crash"]
  ELSE [outcome |-> "sent", lat |-> t[4].v, lon |-> IF Len(t) > 4 THEN t[6].v ELSE 0]

AfterPosition == IF can_reader_mode THEN "read CAN" ELSE "ask speed"

SendPosition(g) ==
  \/ /\ main' = AfterPosition
     /\ frame' = [id |-> "GVGNSP", values |-> <<g.lat, g.lon>>, n |-> published.n,
                  asked |-> 0, whole |-> published.whole]
     /\ positions' = positions + 1
     /\ UNCHANGED events
  \/ /\ main' = "exited"   \* sendto fails
     /\ Event
     /\ UNCHANGED <<frame, positions>>

\* Mutant: the flag stays set.
FlagAfterCopy == TRUE

\* Under mutex_gnss: take the flag and the buffer.
ReadyAfterCopy == FALSE

TakeSentence ==
  /\ main = "gnss"
  /\ gnssDataReady
  /\ gnssDataReady' = ReadyAfterCopy
  /\ LET g == get_geolocation(gnssBuffer)
     IN \/ g.outcome = "sent"  /\ SendPosition(g)
        \/ g.outcome = "none"  /\ main' = AfterPosition /\ UNCHANGED <<events, frame, positions>>
        \/ g.outcome = "crash" /\ main' = "crashed" /\ UNCHANGED <<events, frame, positions>>
  /\ UNCHANGED <<asked, pending, tty, tmp, late, mainVars, isRunning, readerVars, g_gnss_loop,
                 gnssBuffer, published, lineVars>>

NoSentence ==
  /\ MainGoes("gnss", AfterPosition)
  /\ ~gnssDataReady
  /\ UNCHANGED <<dongleVars, mainVars, isRunning, readerVars, g_gnss_loop, dataVars, lineVars,
                 sentVars>>

(***************************************************************************)
(* Main: what the dongle tells.                                            *)
(***************************************************************************)
\* A frame for the AMB plugin: TIMESTAMP,0$ID,TIMESTAMP,VALUE,0x01.
SendVehicle(id, value, answer, to) ==
  \/ /\ main' = to
     /\ frame' = [id |-> id, values |-> <<value>>, n |-> answer.n, asked |-> asked,
                  whole |-> TRUE]
     /\ UNCHANGED positions
  \/ /\ main' = "exited"   \* sendto fails
     /\ events > 0
     /\ UNCHANGED sentVars

Ask(from, pid, to) ==
  /\ MainGoes(from, to)
  /\ obd2_send_command(pid) \/ CommandIsLost
  /\ UNCHANGED <<mainVars, isRunning, readerVars, g_gnss_loop, dataVars, lineVars, sentVars>>

\* Values(n) are what the answer to question n may be converted to.
ReadValue(from, pid, id, Values(_), to) ==
  /\ main = from
  /\ \/ /\ ReadUpToPrompt
        /\ IF Accepted(AnswerRead, pid)
           THEN \E v \in Values(AnswerRead.n) : SendVehicle(id, v, AnswerRead, to)
           ELSE main' = to /\ UNCHANGED sentVars
     \/ GivesUp /\ main' = to /\ UNCHANGED sentVars
  /\ UNCHANGED <<mainVars, isRunning, readerVars, g_gnss_loop, dataVars, lineVars>>

get_obd_engine_speed ==
  \/ Ask("ask speed", "010C", "read speed")
  \/ ReadValue("read speed", "010C", "GVVEHENGSPEED", LAMBDA n : {EngineSpeed(n)}, "ask fuel")

get_obd_fuel_level ==
  \/ Ask("ask fuel", "012F", "read fuel")
  \/ ReadValue("read fuel", "012F", "GVVEHFUELLEVEL", FuelLevels, "sleep")

ReadingOn ==
  /\ main \in {"answer", "read speed", "read fuel", "read CAN"}
  /\ ReadMore
  /\ UNCHANGED <<mainVars, main, isRunning, readerVars, g_gnss_loop, dataVars, lineVars, sentVars>>

\* The wheel ticks go to the sensors service, the others to the AMB plugin.
SendSensor(answer) ==
  \/ /\ main' = "sleep"
     /\ frame' = [id |-> "GVSNSWHE", values |-> <<CanValue("wheel tick", answer.n)>>,
                  n |-> answer.n, asked |-> asked, whole |-> TRUE]
     /\ UNCHANGED positions
  \/ /\ main' = "exited"
     /\ events > 0
     /\ UNCHANGED sentVars

ForwardCan(answer) ==
  CASE FrameId(answer) = "wheel tick"   -> SendSensor(answer)
    [] FrameId(answer) = "engine speed" ->
         SendVehicle("GVVEHENGSPEED", CanValue("engine speed", answer.n), answer, "sleep")
    [] FrameId(answer) = "fuel level"   ->
         SendVehicle("GVVEHFUELLEVEL", CanValue("fuel level", answer.n), answer, "sleep")
    [] FrameId(answer) = "NO_MESSAGE"   -> main' = "sleep" /\ UNCHANGED sentVars

can_read ==
  /\ main = "read CAN"
  /\ \/ ReadUpToPrompt /\ ForwardCan(AnswerRead)
     \/ GivesUp /\ main' = "sleep" /\ UNCHANGED sentVars
  /\ UNCHANGED <<mainVars, isRunning, readerVars, g_gnss_loop, dataVars, lineVars>>

(***************************************************************************)
(* Main: the end of a turn, and of the program.                            *)
(***************************************************************************)
\* usleep, then the condition of the loop.
EndOfTurn ==
  /\ main = "sleep"
  /\ IF isRunning THEN main' = "gnss" /\ cycles < MaxCycles /\ cycles' = cycles + 1
                  ELSE main' = "destroy" /\ UNCHANGED cycles
  /\ frame' = NoFrame
  /\ UNCHANGED <<dongleVars, can_reader_mode, script, isRunning, readerVars, g_gnss_loop,
                 dataVars, lineVars, positions>>

gnss_destroy ==
  /\ MainGoes("destroy", "join")
  /\ g_gnss_loop' = FALSE
  /\ UNCHANGED <<dongleVars, mainVars, isRunning, readerVars, dataVars, lineVars, sentVars>>

\* To join a thread that was never created is undefined.
Joined ==
  /\ \/ MainGoes("join", "done") /\ reader \in {"done", "none"}
     \/ MainGoes("join", "undefined") /\ reader = "none"
  /\ UNCHANGED <<dongleVars, mainVars, isRunning, readerVars, g_gnss_loop, dataVars, lineVars,
                 sentVars>>

Turning == \/ TakeSentence \/ NoSentence \/ get_obd_engine_speed \/ get_obd_fuel_level
           \/ ReadingOn \/ can_read \/ EndOfTurn \/ gnss_destroy \/ Joined

sighandler ==
  /\ Alive
  /\ isRunning
  /\ Event
  /\ isRunning' = FALSE
  /\ UNCHANGED <<asked, pending, tty, tmp, late, mainVars, main, readerVars, g_gnss_loop, dataVars, lineVars, sentVars>>

(***************************************************************************)
(* The reader.                                                             *)
(***************************************************************************)
At(place) == Alive /\ reader = place

\* The loop tests its flag after each turn; select times out after 100 ms.
NextTurn == IF g_gnss_loop' THEN "select" ELSE "done"

SelectTimesOut ==
  /\ At("select")
  /\ UNCHANGED g_gnss_loop
  /\ reader' = NextTurn
  /\ UNCHANGED <<dongleVars, mainVars, main, isRunning, retries, dataVars, lineVars, sentVars>>

\* A line of no sentence: nothing is in the buffer.
NoLine == [name |-> "", checksum |-> "none", fields |-> << >>]

\* The fields of a line: the last one has the line end, so that it equals no
\* letter.
Line(s) == [<<Letter(s.name)>> \o s.fields EXCEPT ![Len(s.fields) + 1].c = "end"]

\* The fields of a line as strtok finds them.
Tokens(s) ==
  LET all == Line(s)
      found[i \in 0 .. Len(all)] == IF i = 0 THEN << >>
                                    ELSE IF Filled(all[i]) THEN Append(found[i - 1], all[i])
                                    ELSE found[i - 1]
  IN  found[Len(all)]

\* strncpy of the line over the buffer: the terminator is not copied.
Copied(t) == t \o SubSeq(gnssBuffer, Len(t) + 1, Len(gnssBuffer))

Publish(s) ==
  /\ gnssBuffer' = Copied(Tokens(s))
  /\ gnssDataReady' = TRUE
  /\ published' = [n |-> lines + 1, whole |-> Len(s.fields) = RMC_FIELDS]
  /\ rmcs' = rmcs + 1

ReadLine(s) ==
  /\ At("select")
  /\ Event
  /\ UNCHANGED g_gnss_loop
  /\ reader' = NextTurn
  /\ buf' = s
  /\ lines' = lines + 1
  /\ gns_data' = HNMEA_Parse(s, gns_data).data
  /\ IF HNMEA_Parse(s, gns_data).result = "RMC" THEN Publish(s) ELSE UNCHANGED <<dataVars, rmcs>>
  /\ UNCHANGED <<asked, pending, tty, tmp, late, mainVars, main, isRunning, retries, sentVars>>

\* select fails, or read finds the end of the file and empties the buffer: the
\* device is closed.
ReadFails ==
  /\ At("select")
  /\ Event
  /\ reader' = "reopen"
  /\ retries' = 0
  /\ buf' \in {buf, NoLine}
  /\ UNCHANGED <<asked, pending, tty, tmp, late, mainVars, main, isRunning, g_gnss_loop, dataVars,
                 lines, rmcs, gns_data, sentVars>>

\* read returns -1, which the code does not look for: the line before is
\* parsed again, and if it was an RMC sentence, strncpy is told to copy -1
\* characters, the largest number there is.
ReadErrs ==
  /\ At("select")
  /\ Event
  /\ UNCHANGED g_gnss_loop
  /\ gns_data' = HNMEA_Parse(buf, gns_data).data
  /\ reader' = IF HNMEA_Parse(buf, gns_data).result = "RMC" THEN "overrun" ELSE NextTurn
  /\ UNCHANGED <<asked, pending, tty, tmp, late, mainVars, main, isRunning, retries, dataVars,
                 buf, lines, rmcs, sentVars>>

Reopened ==
  /\ At("reopen")
  /\ UNCHANGED g_gnss_loop
  /\ reader' = NextTurn
  /\ retries' = 0
  /\ UNCHANGED <<dongleVars, mainVars, main, isRunning, dataVars, lineVars, sentVars>>

\* Mutant: the receiver is waited for as long as it takes.
ReopenForever ==
  /\ At("reopen")
  /\ retries' = (retries + 1) % OPEN_RETRY_MAX
  /\ UNCHANGED <<dongleVars, mainVars, main, isRunning, reader, g_gnss_loop, dataVars, lineVars,
                 sentVars>>

\* Mutant: one attempt more.
ReopenOnceMore ==
  /\ At("reopen")
  /\ retries' = retries + 1
  /\ IF retries' > OPEN_RETRY_MAX THEN g_gnss_loop' = FALSE /\ reader' = NextTurn
                                  ELSE UNCHANGED <<reader, g_gnss_loop>>
  /\ UNCHANGED <<dongleVars, mainVars, main, isRunning, dataVars, lineVars, sentVars>>

\* Between two attempts the reader looks at nothing that is shared.
\* Two seconds and an attempt that fails; the last one ends the loop.
ReopenFails ==
  /\ At("reopen")
  /\ retries' = retries + 1
  /\ IF retries' = OPEN_RETRY_MAX THEN g_gnss_loop' = FALSE /\ reader' = NextTurn
                                  ELSE UNCHANGED <<reader, g_gnss_loop>>
  /\ UNCHANGED <<dongleVars, mainVars, main, isRunning, dataVars, lineVars, sentVars>>

ReaderStep ==
  SelectTimesOut \/ Reopened \/ ReopenFails

(***************************************************************************)
(* The dongle.                                                             *)
(***************************************************************************)
DongleStep ==
  /\ Alive
  /\ \/ Answer \/ AnswerHalf \/ AnswerNoData \/ AnswerLong
     \/ /\ can_reader_mode /\ script = << >>
        /\ \E id \in CanIds : CanFrame(id) \/ CanFrameInParts(id)
  /\ UNCHANGED <<mainVars, main, isRunning, readerVars, g_gnss_loop, dataVars, lineVars, sentVars>>

GatewayInit ==
  /\ DongleInit
  /\ can_reader_mode \in BOOLEAN
  /\ main = "obd2_init"
  /\ script = IF can_reader_mode THEN CanScript ELSE ObdScript
  /\ isRunning = TRUE /\ cycles = 0
  /\ reader = "none" /\ retries = 0 /\ g_gnss_loop = TRUE
  /\ gnssBuffer = << >> /\ gnssDataReady = FALSE /\ published = [n |-> 0, whole |-> TRUE]
  /\ buf = NoLine /\ lines = 0 /\ rmcs = 0 /\ gns_data = HNMEA_Init_GNS_DATA
  /\ frame = NoFrame /\ positions = 0

MainStep == Alive /\ (SettingUp \/ Turning)

GatewayNext ==
  \/ MainStep
  \/ sighandler
  \/ ReaderStep
  \/ lines < Len(Sentences) /\ \E s \in Sentences[lines + 1] : ReadLine(s)
  \/ ReadFails
  \/ ReadErrs
  \/ DongleStep

(***************************************************************************)
(* Properties.                                                             *)
(***************************************************************************)
TypeOK ==
  /\ can_reader_mode \in BOOLEAN /\ isRunning \in BOOLEAN
  /\ main \in {"obd2_init", "gnss_init", "command", "answer", "gnss", "ask speed",
               "read speed", "ask fuel", "read fuel", "read CAN", "sleep", "destroy",
               "join"} \cup Ended
  /\ script \in Seq({ObdScript[i] : i \in 1 .. 3} \cup {CanScript[i] : i \in 1 .. 11})
  /\ cycles \in 0 .. MaxCycles
  /\ reader \in {"none", "select", "reopen", "done", "overrun"}
  /\ retries \in 0 .. OPEN_RETRY_MAX
  /\ g_gnss_loop \in BOOLEAN /\ gnssDataReady \in BOOLEAN
  /\ published \in [n : 0 .. Len(Sentences), whole : BOOLEAN]
  /\ lines \in 0 .. Len(Sentences) /\ rmcs \in 0 .. lines
  /\ events \in 0 .. MaxEvents /\ asked \in Nat /\ positions \in Nat

\* Although late answers shift what the dongle says against what it is asked,
\* a value is only ever sent under the name of what it measures: it answers
\* the question that was asked a whole number of turns before.
ValueAnswersItsQuestion ==
  frame.id \in {"GVVEHENGSPEED", "GVVEHFUELLEVEL"} /\ ~can_reader_mode =>
    (frame.asked - frame.n) % 2 = 0

\* A value is not older, in questions, than there were readings given up with
\* their answer, or the rest of it, still to come: too late for the timeout or
\* too long for the buffer.  No other path in obd2.cpp lets answers pile up on
\* the line.
StaleOnlyByLateAnswers ==
  ~can_reader_mode => frame.asked - frame.n <= late

\* A sentence that arrived in full is sent with its own position, but for
\* the hemispheres, whatever shorter or longer sentences left in the buffer before it.
WholeSentenceSentAsReceived ==
  frame.id = "GVGNSP" /\ frame.whole => frame.values = <<frame.n, frame.n>>

\* Only a line that was cut short leads the library to a null pointer.
WholeSentenceNeverCrashes == main = "crashed" => ~published.whole

\* main and the reader share a flag: no sentence is sent more than once.
SentenceSentOnce == positions <= rmcs

\* The parser moves the stored position, but for its signs, only on a
\* sentence that itself reports a fix.
Magnitude(x) == IF x < 0 THEN -x ELSE x
MovesOnlyWithFix ==
  [][\/ gns_data'.fix2d = 1 /\ "fix2d" \in gns_data'.valid_new
     \/ /\ Magnitude(gns_data'.lat) = Magnitude(gns_data.lat)
        /\ Magnitude(gns_data'.lon) = Magnitude(gns_data.lon)]_gns_data

\* After a signal the process ends, although the reader may be waiting for a
\* receiver that is gone.
ShutdownCompletes == ~isRunning ~> ~Alive
=============================================================================
