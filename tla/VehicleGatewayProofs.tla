------------------------ MODULE VehicleGatewayProofs ------------------------
(***************************************************************************)
(* Proofs about the vehicle gateway: its types, that no sentence is sent   *)
(* twice, and that in the mode that asks the dongle a value answers the    *)
(* question it is sent for and is no older than the readings that were     *)
(* given up explain, for every number of events and of turns.              *)
(***************************************************************************)
EXTENDS MCVehicleGateway, TLAPS

Commands == {ObdScript[i] : i \in 1 .. 3} \cup {CanScript[i] : i \in 1 .. 11}

ThreadTypes ==
  /\ main \in {"obd2_init", "gnss_init", "command", "answer", "gnss", "ask speed",
               "read speed", "ask fuel", "read fuel", "read CAN", "sleep", "destroy",
               "join"} \cup Ended
  /\ script \in Seq(Commands)
  /\ cycles \in 0 .. MaxCycles
  /\ reader \in {"none", "select", "reopen", "done", "overrun"}
  /\ retries \in 0 .. OPEN_RETRY_MAX

Flags ==
  /\ can_reader_mode \in BOOLEAN /\ isRunning \in BOOLEAN
  /\ g_gnss_loop \in BOOLEAN /\ gnssDataReady \in BOOLEAN

Retrying == reader = "reopen" => retries < OPEN_RETRY_MAX

\* main and the reader: each RMC sentence is taken at most once.
LinesCounted ==
  /\ lines \in 0 .. Len(Sentences)
  /\ rmcs \in 0 .. lines
  /\ positions \in 0 .. rmcs
  /\ gnssDataReady => positions < rmcs
  /\ published.n \in 0 .. Len(Sentences)

PublishedType == published \in [n : 0 .. Len(Sentences), whole : BOOLEAN]

\* The serial line.
\* What is asked for, once the set-up is over.
Values == {"010C", "012F"}

CommandNames == Commands \cup Values \cup CanIds \cup {"NO DATA"}

LinePiece == [cmd : CommandNames, n : Nat, part : {"whole", "head", "tail", "long"}]

DongleTypes ==
  /\ asked \in Nat /\ late \in Nat /\ events \in 0 .. MaxEvents
  /\ pending \in Seq(LinePiece) /\ tty \in Seq(LinePiece)

\* Two values are asked for in turns, after three commands of the set-up.
SettingUpPlaces == {"obd2_init", "gnss_init", "command", "answer"}

AskedInTurns ==
  /\ main \in SettingUpPlaces => script # << >>
  /\ ~can_reader_mode =>
       /\ main # "read CAN"
       /\ main \in {"obd2_init", "gnss_init", "command"} => asked = 3 - Len(script)
       /\ main = "answer" => asked = 4 - Len(script)
       /\ main \in {"gnss", "ask speed", "read fuel", "sleep"} => asked % 2 = 1
       /\ main \in {"read speed", "ask fuel"} => asked % 2 = 0

Labelled(p) ==
  /\ p.cmd = "010C" => p.n % 2 = 0
  /\ p.cmd = "012F" => p.n % 2 = 1

PiecesLabelled ==
  ~can_reader_mode =>
    /\ \A i \in 1 .. Len(tty) : Labelled(tty[i])
    /\ \A i \in 1 .. Len(pending) : Labelled(pending[i])

\* What is on the line is in the order of the questions; the head of an answer
\* goes before its tail.
Before(p, q) == p.n + (IF p.part = "head" THEN 0 ELSE 1) <= q.n

Earlier(p, q) == p.n + 1 <= q.n

InOrder ==
  ~can_reader_mode =>
    /\ \A i, j \in 1 .. Len(tty) : i < j => Before(tty[i], tty[j])
    /\ \A i \in 1 .. Len(tty) : \A j \in 1 .. Len(pending) : Before(tty[i], pending[j])
    /\ \A i, j \in 1 .. Len(pending) : i < j => Earlier(pending[i], pending[j])

\* A question main waits for is not late yet.
Waiting == IF main \in {"answer", "read speed", "read fuel"} THEN 1 ELSE 0

Recent(p) == p.n <= asked /\ asked - p.n + 1 <= late + Waiting

\* Each question since the oldest answer on the line was given up.
PiecesRecent ==
  ~can_reader_mode =>
    /\ \A i \in 1 .. Len(tty) : Recent(tty[i])
    /\ \A i \in 1 .. Len(pending) : Recent(pending[i])

FrameSent ==
  /\ frame.asked \in Nat /\ frame.n \in Nat
  /\ ValueAnswersItsQuestion
  /\ StaleOnlyByLateAnswers

IInv ==
  /\ ThreadTypes /\ Flags /\ Retrying /\ LinesCounted /\ PublishedType /\ DongleTypes
  /\ AskedInTurns /\ PiecesLabelled /\ InOrder /\ PiecesRecent /\ FrameSent

(***************************************************************************)
(* The steps, by who takes them.                                           *)
(***************************************************************************)
SideStep ==
  \/ sighandler \/ ReaderStep \/ ReadFails \/ ReadErrs
  \/ lines < Len(Sentences) /\ \E s \in Sentences[lines + 1] : ReadLine(s)

\* The steps of the gateway, one disjunct for each that changes the line.
LEMMA Steps ==
  ASSUME [Next]_vars
  PROVE  \/ SettingUp \/ TakeSentence \/ NoSentence
         \/ get_obd_engine_speed \/ get_obd_fuel_level
         \/ ReadingOn \/ can_read \/ EndOfTurn \/ gnss_destroy \/ Joined
         \/ SideStep \/ DongleStep \/ UNCHANGED vars
BY Zenon DEF Next, GatewayNext, MainStep, Turning, SideStep

\* The reader and the signal leave main and the serial line alone.
LEMMA SideStepLeaves ==
  ASSUME SideStep
  PROVE  UNCHANGED <<asked, pending, tty, tmp, late, can_reader_mode, script, cycles, main,
                     frame, positions>>
<1>1. CASE sighandler \/ ReaderStep \/ ReadFails \/ ReadErrs
  BY <1>1, Zenon DEF sighandler, ReaderStep, ReadFails, ReadErrs, SelectTimesOut, Reopened, ReopenFails,
     mainVars, sentVars, dongleVars
<1>2. CASE \E s \in Sentences[lines + 1] : ReadLine(s)
  <2>1. PICK s \in Sentences[lines + 1] : ReadLine(s) BY <1>2
  <2> QED BY <2>1, Zenon DEF ReadLine, mainVars, sentVars
<1> QED BY <1>1, <1>2, Zenon DEF SideStep

\* The dongle leaves all but the serial line alone.
LEMMA DongleStepLeaves ==
  ASSUME DongleStep
  PROVE  /\ UNCHANGED <<mainVars, main, isRunning, readerVars, g_gnss_loop, dataVars, lineVars,
                        sentVars>>
         /\ late' = late
BY Zenon DEF DongleStep, Answer, AnswerHalf, AnswerNoData, AnswerLong, CanFrame, CanFrameInParts

\* What the reader shares with main is changed by main, or by a new line.
LEMMA MainSteps ==
  ASSUME [Next]_vars
  PROVE  \/ SideStep
         \/ UNCHANGED <<can_reader_mode, isRunning, retries, lines, rmcs, published>>
<1>1. CASE SettingUp
  BY <1>1, Zenon DEF SettingUp, obd2_init, gnss_init, Command, Answered, Unanswered, mainVars,
     readerVars, lineVars, dataVars
<1>2. CASE TakeSentence \/ NoSentence \/ ReadingOn \/ can_read \/ EndOfTurn \/ gnss_destroy \/ Joined
  BY <1>2, Zenon DEF TakeSentence, NoSentence, ReadingOn, can_read, EndOfTurn, gnss_destroy,
     Joined, mainVars, readerVars, lineVars, dataVars
<1>3. CASE get_obd_engine_speed \/ get_obd_fuel_level
  <2>1. UNCHANGED <<mainVars, isRunning, readerVars, lineVars, dataVars>>
    BY <1>3, Zenon DEF get_obd_engine_speed, get_obd_fuel_level, Ask, ReadValue
  <2> QED BY <2>1, Zenon DEF mainVars, readerVars, lineVars, dataVars
<1>4. CASE DongleStep
  BY <1>4, DongleStepLeaves, Zenon DEF mainVars, readerVars, lineVars, dataVars
<1>5. CASE UNCHANGED vars
  BY <1>5, Zenon DEF vars, gatewayVars, mainVars, readerVars, lineVars, dataVars
<1> QED BY <1>1, <1>2, <1>3, <1>4, <1>5, Steps, Zenon

(***************************************************************************)
(* Flags and places.                                                       *)
(***************************************************************************)
LEMMA FlagsKept ==
  ASSUME IInv, [Next]_vars
  PROVE  Flags'
<1>1. Flags BY DEF IInv
<1>2. can_reader_mode' = can_reader_mode
  BY MainSteps, SideStepLeaves, Zenon
<1>3. isRunning' = isRunning \/ isRunning' = FALSE
  <2>1. CASE SideStep
    BY <2>1, Zenon DEF SideStep, sighandler, ReaderStep, ReadFails, ReadErrs, SelectTimesOut, Reopened,
       ReopenFails, ReadLine
  <2> QED BY <2>1, MainSteps, Zenon
<1>4. g_gnss_loop' = g_gnss_loop \/ g_gnss_loop' = FALSE
  <2>1. CASE SettingUp
    BY <2>1, Zenon DEF SettingUp, obd2_init, gnss_init, Command, Answered, Unanswered
  <2>2. CASE TakeSentence \/ NoSentence \/ ReadingOn \/ can_read \/ EndOfTurn \/ gnss_destroy
             \/ Joined
    BY <2>2, Zenon DEF TakeSentence, NoSentence, ReadingOn, can_read, EndOfTurn, gnss_destroy,
       Joined
  <2>3. CASE get_obd_engine_speed \/ get_obd_fuel_level
    BY <2>3, Zenon DEF get_obd_engine_speed, get_obd_fuel_level, Ask, ReadValue
  <2>4. CASE SideStep
    BY <2>4, Zenon DEF SideStep, sighandler, ReaderStep, ReadFails, ReadErrs, SelectTimesOut, Reopened,
       ReopenFails, ReadLine
  <2>5. CASE DongleStep \/ UNCHANGED vars
    BY <2>5, DongleStepLeaves, Zenon DEF vars, gatewayVars
  <2> QED BY <2>1, <2>2, <2>3, <2>4, <2>5, Steps, Zenon
<1>5. gnssDataReady' \in {gnssDataReady, TRUE, FALSE}
  <2>1. CASE SettingUp
    BY <2>1, Zenon DEF SettingUp, obd2_init, gnss_init, Command, Answered, Unanswered, dataVars
  <2>2. CASE TakeSentence \/ NoSentence \/ ReadingOn \/ can_read \/ EndOfTurn \/ gnss_destroy
             \/ Joined
    BY <2>2, Zenon DEF TakeSentence, NoSentence, ReadingOn, can_read, EndOfTurn, gnss_destroy,
       Joined, dataVars, ReadyAfterCopy
  <2>3. CASE get_obd_engine_speed \/ get_obd_fuel_level
    BY <2>3, Zenon DEF get_obd_engine_speed, get_obd_fuel_level, Ask, ReadValue, dataVars
  <2>4. CASE SideStep
    BY <2>4, Zenon DEF SideStep, sighandler, ReaderStep, ReadFails, ReadErrs, SelectTimesOut, Reopened,
       ReopenFails, ReadLine, Publish, dataVars
  <2>5. CASE DongleStep \/ UNCHANGED vars
    BY <2>5, DongleStepLeaves, Zenon DEF vars, gatewayVars, dataVars
  <2> QED BY <2>1, <2>2, <2>3, <2>4, <2>5, Steps, Zenon
<1> QED BY <1>1, <1>2, <1>3, <1>4, <1>5, Zenon DEF Flags

\* Where main goes from each place.
LEMMA PlacesOfMain ==
  ASSUME ThreadTypes, [Next]_vars
  PROVE  main' \in {"obd2_init", "gnss_init", "command", "answer", "gnss", "ask speed",
                    "read speed", "ask fuel", "read fuel", "read CAN", "sleep", "destroy",
                    "join"} \cup Ended
<1> USE DEF Ended
<1>1. CASE SettingUp
  BY <1>1 DEF SettingUp, obd2_init, gnss_init, Command, Answered, Unanswered, MainGoes
<1>2. CASE TakeSentence
  BY <1>2 DEF TakeSentence, SendPosition, AfterPosition
<1>3. CASE NoSentence \/ EndOfTurn \/ gnss_destroy \/ Joined
  BY <1>3 DEF NoSentence, AfterPosition, EndOfTurn, gnss_destroy, Joined, MainGoes
<1>4. CASE get_obd_engine_speed
  <2>1. main' \in {"read speed", "ask fuel", "exited"}
    BY <1>4, Zenon DEF get_obd_engine_speed, Ask, ReadValue, MainGoes, SendVehicle
  <2> QED BY <2>1
<1>5. CASE get_obd_fuel_level
  <2>1. main' \in {"read fuel", "sleep", "exited"}
    BY <1>5, Zenon DEF get_obd_fuel_level, Ask, ReadValue, MainGoes, SendVehicle
  <2> QED BY <2>1
<1>6. CASE can_read
  <2>1. \/ ReadUpToPrompt /\ ForwardCan(AnswerRead)
        \/ main' = "sleep"
    BY <1>6, Zenon DEF can_read
  <2>2. FrameId(AnswerRead) \in {"wheel tick", "engine speed", "fuel level", "NO_MESSAGE"}
    BY DEF FrameId, CanIds
  <2>3. ForwardCan(AnswerRead) => main' \in {"sleep", "exited"}
    BY <2>2 DEF ForwardCan, SendSensor, SendVehicle
  <2> QED BY <2>1, <2>3
<1>7. CASE main' = main
  BY <1>7, Zenon DEF ThreadTypes
<1>8. ReadingOn \/ SideStep \/ DongleStep \/ UNCHANGED vars => main' = main
  BY SideStepLeaves, DongleStepLeaves, Zenon DEF ReadingOn, vars, gatewayVars
<1> QED BY <1>1, <1>2, <1>3, <1>4, <1>5, <1>6, <1>7, <1>8, Steps, Zenon

\* The script and the turns.
LEMMA ScriptStep ==
  ASSUME [Next]_vars
  PROVE  /\ script' = script \/ (Answered /\ script' = Tail(script))
         /\ cycles' = cycles \/ (cycles < MaxCycles /\ cycles' = cycles + 1)
<1>1. CASE SettingUp
  BY <1>1, Zenon DEF SettingUp, obd2_init, gnss_init, Command, Answered, Unanswered, mainVars
<1>2. CASE TakeSentence \/ NoSentence \/ ReadingOn \/ can_read \/ EndOfTurn \/ gnss_destroy
           \/ Joined
  BY <1>2, Zenon DEF TakeSentence, NoSentence, ReadingOn, can_read, EndOfTurn, gnss_destroy,
     Joined, mainVars
<1>3. CASE get_obd_engine_speed \/ get_obd_fuel_level
  BY <1>3, Zenon DEF get_obd_engine_speed, get_obd_fuel_level, Ask, ReadValue, mainVars
<1>4. CASE SideStep \/ DongleStep \/ UNCHANGED vars
  BY <1>4, SideStepLeaves, DongleStepLeaves, Zenon DEF vars, gatewayVars, mainVars
<1> QED BY <1>1, <1>2, <1>3, <1>4, Steps, Zenon

\* What the reader does with its place and its attempts.
LEMMA ReaderMoves ==
  ASSUME [Next]_vars
  PROVE  \/ UNCHANGED <<reader, retries>>
         \/ reader' \in {"select", "done", "overrun"} /\ retries' \in {retries, 0}
         \/ reader' = "reopen" /\ retries' = 0
         \/ ReopenFails
<1>1. CASE SettingUp
  BY <1>1, Zenon DEF SettingUp, obd2_init, gnss_init, Command, Answered, Unanswered, readerVars
<1>2. CASE TakeSentence \/ NoSentence \/ ReadingOn \/ can_read \/ EndOfTurn \/ gnss_destroy
           \/ Joined
  BY <1>2, Zenon DEF TakeSentence, NoSentence, ReadingOn, can_read, EndOfTurn, gnss_destroy,
     Joined, readerVars
<1>3. CASE get_obd_engine_speed \/ get_obd_fuel_level
  BY <1>3, Zenon DEF get_obd_engine_speed, get_obd_fuel_level, Ask, ReadValue, readerVars
<1>4. CASE DongleStep \/ UNCHANGED vars
  BY <1>4, DongleStepLeaves, Zenon DEF vars, gatewayVars, readerVars
<1>5. CASE SideStep
  <2>1. NextTurn \in {"select", "done"} BY DEF NextTurn
  <2> QED
    BY <1>5, <2>1, Zenon DEF SideStep, sighandler, ReaderStep, ReadFails, ReadErrs, SelectTimesOut,
       Reopened, ReadLine, readerVars
<1> QED BY <1>1, <1>2, <1>3, <1>4, <1>5, Steps, Zenon

\* The program counters of main and of the reader keep their types.
LEMMA ThreadTypesKept ==
  ASSUME IInv, [Next]_vars
  PROVE  ThreadTypes' /\ Retrying'
<1>1. ThreadTypes /\ Retrying BY DEF IInv
<1>2. script' \in Seq(Commands)
  <2>1. script \in Seq(Commands) BY <1>1 DEF ThreadTypes
  <2>2. Answered => script # << >>
    BY DEF Answered, IInv, AskedInTurns, SettingUpPlaces
  <2> QED BY <2>1, <2>2, ScriptStep
<1>3. cycles' \in 0 .. MaxCycles
  <2>1. cycles \in 0 .. MaxCycles /\ MaxCycles \in Nat
    BY <1>1, VehicleGatewayAssumption, Zenon DEF ThreadTypes
  <2>2. cycles' = cycles \/ (cycles < MaxCycles /\ cycles' = cycles + 1) BY ScriptStep
  <2> QED BY <2>1, <2>2
<1>4. /\ reader' \in {"none", "select", "reopen", "done", "overrun"}
      /\ retries' \in 0 .. OPEN_RETRY_MAX
      /\ reader' = "reopen" => retries' < OPEN_RETRY_MAX
  <2>0. /\ reader \in {"none", "select", "reopen", "done", "overrun"}
        /\ retries \in 0 .. OPEN_RETRY_MAX
        /\ OPEN_RETRY_MAX \in Nat /\ OPEN_RETRY_MAX # 0
        /\ reader = "reopen" => retries < OPEN_RETRY_MAX
    <3>1. /\ reader \in {"none", "select", "reopen", "done", "overrun"}
          /\ retries \in 0 .. OPEN_RETRY_MAX
      BY <1>1, Zenon DEF ThreadTypes
    <3>2. OPEN_RETRY_MAX \in Nat /\ OPEN_RETRY_MAX # 0 BY VehicleGatewayAssumption
    <3> QED BY <1>1, <3>1, <3>2, Zenon DEF Retrying
  <2>1. CASE ReopenFails
    <3>1. /\ reader = "reopen" /\ retries' = retries + 1
          /\ retries' # OPEN_RETRY_MAX => reader' = reader
          /\ retries' = OPEN_RETRY_MAX => reader' \in {"select", "done"}
      BY <2>1 DEF ReopenFails, At, NextTurn
    <3> QED BY <2>0, <3>1
  <2> QED BY <2>0, <2>1, ReaderMoves
<1> QED BY <1>1, <1>2, <1>3, <1>4, PlacesOfMain, Zenon DEF ThreadTypes, Retrying

(***************************************************************************)
(* No sentence is sent twice.                                              *)
(***************************************************************************)
\* A sentence is taken with its flag; nothing else counts a position.
LEMMA PositionsStep ==
  ASSUME [Next]_vars
  PROVE  \/ UNCHANGED <<positions, gnssDataReady, lines, rmcs, published>>
         \/ /\ gnssDataReady /\ gnssDataReady' = FALSE
            /\ positions' \in {positions, positions + 1}
            /\ UNCHANGED <<lines, rmcs, published>>
         \/ /\ lines < Len(Sentences) /\ lines' = lines + 1 /\ positions' = positions
            /\ \/ UNCHANGED <<gnssDataReady, rmcs, published>>
               \/ rmcs' = rmcs + 1 /\ published'.n = lines + 1
<1>1. CASE SettingUp
  BY <1>1, Zenon DEF SettingUp, obd2_init, gnss_init, Command, Answered, Unanswered, sentVars,
     dataVars, lineVars
<1>2. CASE TakeSentence
  <2>1. gnssDataReady /\ gnssDataReady' = FALSE /\ UNCHANGED <<published, lineVars>>
    BY <1>2, Zenon DEF TakeSentence, ReadyAfterCopy
  <2>2. positions' \in {positions, positions + 1}
    BY <1>2, Zenon DEF TakeSentence, SendPosition
  <2> QED BY <2>1, <2>2, Zenon DEF lineVars
<1>3. CASE NoSentence \/ ReadingOn \/ EndOfTurn \/ gnss_destroy \/ Joined
  BY <1>3, Zenon DEF NoSentence, ReadingOn, EndOfTurn, gnss_destroy, Joined, sentVars, dataVars,
     lineVars
<1>4. CASE get_obd_engine_speed \/ get_obd_fuel_level
  BY <1>4, Zenon DEF get_obd_engine_speed, get_obd_fuel_level, Ask, ReadValue, SendVehicle,
     sentVars, dataVars, lineVars
<1>5. CASE can_read
  <2>1. UNCHANGED <<dataVars, lineVars>> BY <1>5, Zenon DEF can_read
  <2>2. positions' = positions
    <3>1. FrameId(AnswerRead) \in {"wheel tick", "engine speed", "fuel level", "NO_MESSAGE"}
      BY DEF FrameId, CanIds
    <3>2. ForwardCan(AnswerRead) => positions' = positions
      BY <3>1 DEF ForwardCan, SendSensor, SendVehicle, sentVars
    <3> QED BY <1>5, <3>2, Zenon DEF can_read, sentVars
  <2> QED BY <2>1, <2>2, Zenon DEF dataVars, lineVars
<1>6. CASE DongleStep \/ UNCHANGED vars
  BY <1>6, DongleStepLeaves, Zenon DEF vars, gatewayVars, sentVars, dataVars, lineVars
<1>7. CASE sighandler \/ ReaderStep \/ ReadFails \/ ReadErrs
  BY <1>7, Zenon DEF sighandler, ReaderStep, ReadFails, ReadErrs, SelectTimesOut, Reopened, ReopenFails,
     sentVars, dataVars, lineVars
<1>8. CASE lines < Len(Sentences) /\ \E s \in Sentences[lines + 1] : ReadLine(s)
  <2>1. PICK s \in Sentences[lines + 1] : ReadLine(s) BY <1>8
  <2>2. lines' = lines + 1 /\ positions' = positions
    BY <2>1, Zenon DEF ReadLine, sentVars
  <2>3. Publish(s) \/ UNCHANGED <<dataVars, rmcs>>
    BY <2>1, Zenon DEF ReadLine
  <2>4. Publish(s) => rmcs' = rmcs + 1 /\ published'.n = lines + 1
    BY DEF Publish
  <2> QED BY <1>8, <2>2, <2>3, <2>4, Zenon DEF dataVars
<1> QED
  BY <1>1, <1>2, <1>3, <1>4, <1>5, <1>6, <1>7, <1>8, Steps, Zenon DEF SideStep

\* The counts of sentences stay within the sentences there are.
LEMMA LinesCountedKept ==
  ASSUME IInv, [Next]_vars
  PROVE  LinesCounted'
<1>1. LinesCounted /\ Len(Sentences) \in Nat BY VehicleGatewayAssumption DEF IInv
<1>2. CASE UNCHANGED <<positions, gnssDataReady, lines, rmcs, published>>
  BY <1>1, <1>2 DEF LinesCounted
<1>3. CASE /\ gnssDataReady /\ gnssDataReady' = FALSE
           /\ positions' \in {positions, positions + 1}
           /\ UNCHANGED <<lines, rmcs, published>>
  BY <1>1, <1>3 DEF LinesCounted
<1>4. CASE /\ lines < Len(Sentences) /\ lines' = lines + 1 /\ positions' = positions
           /\ UNCHANGED <<gnssDataReady, rmcs, published>>
  BY <1>1, <1>4 DEF LinesCounted
<1>5. CASE /\ lines < Len(Sentences) /\ lines' = lines + 1 /\ positions' = positions
           /\ rmcs' = rmcs + 1 /\ published'.n = lines + 1
  BY <1>1, <1>5 DEF LinesCounted
<1> QED BY <1>2, <1>3, <1>4, <1>5, PositionsStep, Zenon

\* What is published is one of the sentences.
LEMMA PublishedTypeKept ==
  ASSUME IInv, [Next]_vars
  PROVE  PublishedType'
<1>1. PublishedType BY DEF IInv
<1>2. CASE published' = published BY <1>1, <1>2 DEF PublishedType
<1>3. CASE lines < Len(Sentences) /\ \E s \in Sentences[lines + 1] : ReadLine(s)
  <2>1. PICK s \in Sentences[lines + 1] : ReadLine(s) BY <1>3
  <2>2. Publish(s) \/ published' = published
    BY <2>1, Zenon DEF ReadLine, dataVars
  <2>3. lines + 1 \in 0 .. Len(Sentences)
    BY <1>3, VehicleGatewayAssumption DEF IInv, LinesCounted
  <2>4. ASSUME Publish(s) PROVE published' \in [n : 0 .. Len(Sentences), whole : BOOLEAN]
    <3> DEFINE whole == Len(s.fields) = RMC_FIELDS
    <3>1. whole \in BOOLEAN BY Zenon
    <3>2. published' = [n |-> lines + 1, whole |-> whole] BY <2>4, Zenon DEF Publish
    <3> HIDE DEF whole
    <3> QED BY <3>1, <3>2, <2>3
  <2> QED BY <1>2, <2>2, <2>4, Zenon DEF PublishedType
<1>4. CASE sighandler \/ ReaderStep \/ ReadFails \/ ReadErrs
  <2>1. published' = published
    BY <1>4, Zenon DEF sighandler, ReaderStep, ReadFails, ReadErrs, SelectTimesOut, Reopened,
       ReopenFails, dataVars
  <2> QED BY <1>2, <2>1
<1> QED BY <1>2, <1>3, <1>4, MainSteps, Zenon DEF SideStep

(***************************************************************************)
(* The serial line: what a step does to it.                                *)
(***************************************************************************)
\* Main asks; the question may be lost.
Asks ==
  /\ \E cmd \in Commands \cup Values :
       /\ pending' = pending \/ pending' = Append(pending, Piece(cmd, asked + 1, "whole"))
       /\ ~can_reader_mode =>
            (cmd = "010C" => asked % 2 = 1) /\ (cmd = "012F" => asked % 2 = 0)
  /\ asked' = asked + 1
  /\ UNCHANGED <<tty, late>>
  /\ Waiting = 0 /\ Waiting' = 1

\* Main reads an answer.
Reads ==
  /\ tty # << >> /\ Head(tty).part # "head" /\ tty' = Tail(tty)
  /\ UNCHANGED <<asked, pending, late>>
  /\ ~can_reader_mode => Waiting = 1 /\ Waiting' = 0

\* Main reads the head of an answer, and waits for its tail.
ReadsHead ==
  /\ tty # << >> /\ Head(tty).part = "head" /\ tty' = Tail(tty)
  /\ UNCHANGED <<asked, pending, late>>
  /\ Waiting' = Waiting

\* Main gives an answer up that does not come in time.
TimesOut ==
  /\ tty = << >>
  /\ late' = IF pending # << >> THEN late + 1 ELSE late
  /\ UNCHANGED <<asked, pending, tty>>
  /\ ~can_reader_mode => Waiting = 1 /\ Waiting' = 0

\* Main gives an answer up that does not fit; what is left of it stays.
Overflows ==
  /\ tty # << >> /\ Head(tty).part = "long"
  /\ \E rest \in {"whole", "tail", "long"} :
       tty' = <<[Head(tty) EXCEPT !.part = rest]>> \o Tail(tty)
  /\ late' = late + 1
  /\ UNCHANGED <<asked, pending>>
  /\ ~can_reader_mode => Waiting = 1 /\ Waiting' = 0

Answers == (Answer \/ AnswerHalf \/ AnswerNoData \/ AnswerLong) /\ Waiting' = Waiting

Copies == can_reader_mode /\ \E id \in CanIds : CanFrame(id) \/ CanFrameInParts(id)

Rests == UNCHANGED <<asked, pending, tty, late>> /\ Waiting' = Waiting

\* A reading of main, at any of its places.
LEMMA ReadStep ==
  ASSUME ReadUpToPrompt, ~can_reader_mode => Waiting = 1 /\ Waiting' = 0
  PROVE  Reads
BY Zenon DEF ReadUpToPrompt, Reads

\* Main gives a question up when its time is over or its buffer full.
LEMMA GivingUpStep ==
  ASSUME GivesUp, ~can_reader_mode => Waiting = 1 /\ Waiting' = 0
  PROVE  TimesOut \/ Overflows
BY Zenon DEF GivesUp, ReadTimesOut, ReadOverflows, TimesOut, Overflows

\* A command is a question, whether it is lost or not.
LEMMA AskStep ==
  ASSUME NEW cmd \in Commands \cup Values, obd2_send_command(cmd) \/ CommandIsLost,
         ~can_reader_mode =>
           (cmd = "010C" => asked % 2 = 1) /\ (cmd = "012F" => asked % 2 = 0),
         Waiting = 0, Waiting' = 1
  PROVE  Asks
BY Zenon DEF obd2_send_command, CommandIsLost, Asks

\* The commands of the set-up are not those of the two values.
LEMMA CommandsOfSetUp ==
  Commands \cap Values = {}
<1>1. ASSUME NEW i \in 1 .. 3 PROVE ObdScript[i] \notin Values
  <2>1. ObdScript[1] = "AT Z" /\ ObdScript[2] = "AT E0" /\ ObdScript[3] = "0100"
    BY DEF ObdScript
  <2>2. i = 1 \/ i = 2 \/ i = 3 OBVIOUS
  <2> QED BY <2>1, <2>2 DEF Values
<1>2. ASSUME NEW i \in 1 .. 11 PROVE CanScript[i] \notin Values
  <2>1. /\ CanScript[1] = "AT Z" /\ CanScript[2] = "AT I" /\ CanScript[3] = "AT L1"
        /\ CanScript[4] = "AT H1" /\ CanScript[5] = "AT S0" /\ CanScript[6] = "AT AL"
        /\ CanScript[7] = "AT SP" /\ CanScript[8] = "AT D1" /\ CanScript[9] = "AT CAF0"
        /\ CanScript[10] = "AT CM" /\ CanScript[11] = "AT CF"
    BY DEF CanScript
  <2>2. \/ i = 1 \/ i = 2 \/ i = 3 \/ i = 4 \/ i = 5 \/ i = 6
        \/ i = 7 \/ i = 8 \/ i = 9 \/ i = 10 \/ i = 11
    OBVIOUS
  <2> QED BY <2>1, <2>2 DEF Values
<1>3. ASSUME NEW c \in Commands PROVE c \notin Values
  <2>1. \/ \E i \in 1 .. 3 : c = ObdScript[i]
        \/ \E i \in 1 .. 11 : c = CanScript[i]
    BY Zenon DEF Commands
  <2> QED BY <1>1, <1>2, <2>1, Zenon
<1> QED BY <1>3, Zenon

\* Every step does one of eight things to the serial line.
LEMMA LineSteps ==
  ASSUME IInv, [Next]_vars
  PROVE  Asks \/ Reads \/ ReadsHead \/ TimesOut \/ Overflows \/ Answers \/ Copies \/ Rests
<1>1. AskedInTurns /\ script \in Seq(Commands) BY DEF IInv, ThreadTypes
<1>2. CASE obd2_init \/ gnss_init
  <2>1. UNCHANGED <<asked, pending, tty, late>> BY <1>2, Zenon DEF obd2_init, gnss_init
  <2>2. Waiting = 0 /\ Waiting' = 0
    BY <1>2 DEF obd2_init, gnss_init, MainGoes, Waiting
  <2> QED BY <2>1, <2>2 DEF Rests
<1>3. CASE Command
  <2>1. main = "command" /\ main' = "answer" /\ script # << >>
    BY <1>1, <1>3 DEF Command, MainGoes, AskedInTurns, SettingUpPlaces
  <2>2. Waiting = 0 /\ Waiting' = 1 BY <2>1 DEF Waiting
  <2>3. Head(script) \in Commands BY <1>1, <2>1
  <2>4. Head(script) \notin Values BY <2>3, CommandsOfSetUp
  <2>5. obd2_send_command(Head(script)) \/ CommandIsLost BY <1>3, Zenon DEF Command
  <2> HIDE DEF Asks
  <2> QED BY <2>2, <2>3, <2>4, <2>5, AskStep DEF Values
<1>4. CASE Answered \/ Unanswered
  <2>1. Waiting = 1 /\ Waiting' = 0
    BY <1>4 DEF Answered, Unanswered, MainGoes, Waiting
  <2>2. ReadUpToPrompt \/ GivesUp BY <1>4, Zenon DEF Answered, Unanswered
  <2> QED BY <2>1, <2>2, ReadStep, GivingUpStep
<1>5. CASE TakeSentence
  <2>1. UNCHANGED <<asked, pending, tty, late>> BY <1>5, Zenon DEF TakeSentence
  <2>2. Waiting = 0 /\ Waiting' = 0
    BY <1>5 DEF TakeSentence, SendPosition, AfterPosition, Waiting
  <2> QED BY <2>1, <2>2 DEF Rests
<1>6. CASE NoSentence \/ EndOfTurn \/ gnss_destroy \/ Joined
  <2>1. UNCHANGED <<asked, pending, tty, late>>
    BY <1>6, Zenon DEF NoSentence, EndOfTurn, gnss_destroy, Joined, dongleVars
  <2>2. Waiting = 0 /\ Waiting' = 0
    BY <1>6 DEF NoSentence, EndOfTurn, gnss_destroy, Joined, MainGoes, AfterPosition, Waiting
  <2> QED BY <2>1, <2>2 DEF Rests
<1>7. CASE get_obd_engine_speed
  <2>1. CASE Ask("ask speed", "010C", "read speed")
    <3>1. main = "ask speed" /\ main' = "read speed"
          /\ (obd2_send_command("010C") \/ CommandIsLost)
      BY <2>1, Zenon DEF Ask, MainGoes
    <3>2. ~can_reader_mode => asked % 2 = 1 BY <1>1, <3>1 DEF AskedInTurns
    <3>3. Waiting = 0 /\ Waiting' = 1 BY <3>1 DEF Waiting
    <3>4. "010C" \in Commands \cup Values BY DEF Values
    <3> QED BY <3>1, <3>2, <3>3, <3>4, AskStep
  <2>2. CASE ReadValue("read speed", "010C", "GVVEHENGSPEED", LAMBDA n : {EngineSpeed(n)},
                       "ask fuel")
    <3>1. /\ main = "read speed" /\ main' \in {"ask fuel", "exited"}
          /\ ReadUpToPrompt \/ GivesUp
      BY <2>2, Zenon DEF ReadValue, SendVehicle
    <3>2. Waiting = 1 /\ Waiting' = 0 BY <3>1 DEF Waiting
    <3> QED BY <3>1, <3>2, ReadStep, GivingUpStep
  <2> QED BY <1>7, <2>1, <2>2, Zenon DEF get_obd_engine_speed
<1>8. CASE get_obd_fuel_level
  <2>1. CASE Ask("ask fuel", "012F", "read fuel")
    <3>1. main = "ask fuel" /\ main' = "read fuel"
          /\ (obd2_send_command("012F") \/ CommandIsLost)
      BY <2>1, Zenon DEF Ask, MainGoes
    <3>2. ~can_reader_mode => asked % 2 = 0 BY <1>1, <3>1 DEF AskedInTurns
    <3>3. Waiting = 0 /\ Waiting' = 1 BY <3>1 DEF Waiting
    <3>4. "012F" \in Commands \cup Values BY DEF Values
    <3> QED BY <3>1, <3>2, <3>3, <3>4, AskStep
  <2>2. CASE ReadValue("read fuel", "012F", "GVVEHFUELLEVEL", FuelLevels, "sleep")
    <3>1. /\ main = "read fuel" /\ main' \in {"sleep", "exited"}
          /\ ReadUpToPrompt \/ GivesUp
      BY <2>2, Zenon DEF ReadValue, SendVehicle
    <3>2. Waiting = 1 /\ Waiting' = 0 BY <3>1 DEF Waiting
    <3> QED BY <3>1, <3>2, ReadStep, GivingUpStep
  <2> QED BY <1>8, <2>1, <2>2, Zenon DEF get_obd_fuel_level
<1>9. CASE ReadingOn
  BY <1>9 DEF ReadingOn, ReadMore, ReadsHead, Waiting
<1>10. CASE can_read
  <2>1. main = "read CAN" /\ (ReadUpToPrompt \/ GivesUp) BY <1>10, Zenon DEF can_read
  <2>2. can_reader_mode BY <1>1, <2>1 DEF AskedInTurns
  <2> QED BY <2>1, <2>2, ReadStep, GivingUpStep
<1>11. CASE SideStep \/ UNCHANGED vars
  BY <1>11, SideStepLeaves, Zenon DEF vars, gatewayVars, dongleVars, Rests, Waiting
<1>12. CASE DongleStep
  <2>1. Waiting' = Waiting BY <1>12, DongleStepLeaves, Zenon DEF Waiting
  <2> QED BY <1>12, <2>1, Zenon DEF DongleStep, Answers, Copies
<1> QED
  BY <1>2, <1>3, <1>4, <1>5, <1>6, <1>7, <1>8, <1>9, <1>10, <1>11, <1>12, Steps, Zenon
     DEF SettingUp

\* Each event of the environment is counted.
LEMMA EventsStep ==
  ASSUME [Next]_vars
  PROVE  events' = events \/ (events > 0 /\ events' = events - 1)
<1>1. CASE SettingUp
  BY <1>1, Zenon DEF SettingUp, obd2_init, gnss_init, Command, Answered, Unanswered, Event,
     obd2_send_command, CommandIsLost, ReadUpToPrompt, GivesUp, ReadTimesOut, ReadOverflows
<1>2. CASE TakeSentence
  BY <1>2, Zenon DEF TakeSentence, SendPosition, Event
<1>3. CASE NoSentence \/ EndOfTurn \/ gnss_destroy \/ Joined \/ ReadingOn \/ can_read
  BY <1>3, Zenon DEF NoSentence, EndOfTurn, gnss_destroy, Joined, ReadingOn, can_read, dongleVars,
     ReadMore, ReadUpToPrompt, GivesUp, ReadTimesOut, ReadOverflows
<1>4. CASE get_obd_engine_speed \/ get_obd_fuel_level
  BY <1>4, Zenon DEF get_obd_engine_speed, get_obd_fuel_level, Ask, ReadValue, Event,
     obd2_send_command, CommandIsLost, ReadUpToPrompt, GivesUp, ReadTimesOut, ReadOverflows
<1>5. CASE SideStep
  BY <1>5, Zenon DEF SideStep, sighandler, ReaderStep, ReadFails, ReadErrs, SelectTimesOut, Reopened,
     ReopenFails, ReadLine, Event, dongleVars
<1>6. CASE DongleStep \/ UNCHANGED vars
  BY <1>6, Zenon DEF DongleStep, Answer, AnswerHalf, AnswerNoData, AnswerLong, CanFrame, CanFrameInParts,
     Event, vars, gatewayVars, dongleVars
<1> QED BY <1>1, <1>2, <1>3, <1>4, <1>5, <1>6, Steps, Zenon

\* The pieces an answer consists of.
LEMMA PieceTypes ==
  /\ \A cmd \in CommandNames, n \in Nat, part \in {"whole", "head", "tail", "long"} :
       Piece(cmd, n, part) \in LinePiece
  /\ \A p \in LinePiece :
       /\ [p EXCEPT !.part = "head"] \in LinePiece
       /\ [p EXCEPT !.part = "tail"] \in LinePiece
       /\ [p EXCEPT !.part = "long"] \in LinePiece
       /\ [p EXCEPT !.part = "whole"] \in LinePiece
       /\ [p EXCEPT !.cmd = "NO DATA"] \in LinePiece
BY DEF Piece, LinePiece, CommandNames

\* What the dongle does to the line, in the mode that asks it: the oldest
\* question is answered, in full, in part, with an error or at length.
AnswerMoves ==
  /\ pending # << >>
  /\ \/ /\ pending' = Tail(pending)
        /\ \/ tty' = Append(tty, Head(pending))
           \/ tty' = Append(tty, [Head(pending) EXCEPT !.cmd = "NO DATA"])
           \/ tty' = Append(tty, [Head(pending) EXCEPT !.part = "long"])
     \/ /\ pending' = <<[Head(pending) EXCEPT !.part = "tail"]>> \o Tail(pending)
        /\ tty' = Append(tty, [Head(pending) EXCEPT !.part = "head"])
        /\ Head(pending).part = "whole"
  /\ UNCHANGED <<asked, late>>

\* The dongle answers in one of four ways.
LEMMA AnswersMove ==
  ASSUME Answers
  PROVE  AnswerMoves
BY Zenon DEF Answers, AnswerMoves, Answer, AnswerHalf, AnswerNoData, AnswerLong

\* What is on the line keeps its type.
LEMMA DongleTypesKept ==
  ASSUME IInv, [Next]_vars
  PROVE  DongleTypes'
<1>1. /\ asked \in Nat /\ late \in Nat /\ events \in 0 .. MaxEvents
      /\ pending \in Seq(LinePiece) /\ tty \in Seq(LinePiece)
  BY DEF IInv, DongleTypes
<1>2. events' \in 0 .. MaxEvents
  BY <1>1, EventsStep, ObdDongleAssumption
<1> DEFINE Rest == /\ asked' \in Nat /\ late' \in Nat
                   /\ pending' \in Seq(LinePiece) /\ tty' \in Seq(LinePiece)
<1> SUFFICES Rest
  BY <1>2, Zenon DEF DongleTypes
<1>3. ASSUME NEW cmd \in CommandNames, NEW part \in {"whole", "head", "tail", "long"}
      PROVE  Piece(cmd, asked + 1, part) \in LinePiece
  <2>1. asked + 1 \in Nat BY <1>1
  <2> QED BY <2>1, PieceTypes, Zenon
<1>4. CASE Asks
  <2>1. PICK cmd \in Commands \cup Values :
          pending' = pending \/ pending' = Append(pending, Piece(cmd, asked + 1, "whole"))
    BY <1>4 DEF Asks
  <2>2. Piece(cmd, asked + 1, "whole") \in LinePiece BY <1>3 DEF CommandNames
  <2>3. asked' = asked + 1 /\ UNCHANGED <<tty, late>> BY <1>4, Zenon DEF Asks
  <2> QED BY <1>1, <2>1, <2>2, <2>3
<1>5. CASE Reads \/ ReadsHead
  <2>1. tty # << >> /\ tty' = Tail(tty) /\ UNCHANGED <<asked, pending, late>>
    BY <1>5, Zenon DEF Reads, ReadsHead
  <2> QED BY <1>1, <2>1
<1>6. CASE TimesOut
  <2>1. late' \in {late, late + 1} /\ UNCHANGED <<asked, pending, tty>>
    BY <1>6, Zenon DEF TimesOut
  <2> QED BY <1>1, <2>1
<1>7. CASE Overflows
  <2>1. PICK rest \in {"whole", "tail", "long"} :
          tty' = <<[Head(tty) EXCEPT !.part = rest]>> \o Tail(tty)
    BY <1>7, Zenon DEF Overflows
  <2>2. tty # << >> /\ late' = late + 1 /\ UNCHANGED <<asked, pending>>
    BY <1>7, Zenon DEF Overflows
  <2>3. Head(tty) \in LinePiece /\ Tail(tty) \in Seq(LinePiece) BY <1>1, <2>2
  <2>4. [Head(tty) EXCEPT !.part = rest] \in LinePiece BY <2>3, PieceTypes
  <2> QED BY <1>1, <2>1, <2>2, <2>3, <2>4
<1>8. CASE Answers
  <2>1. AnswerMoves BY <1>8, AnswersMove
  <2>2. pending # << >> BY <2>1, Zenon DEF AnswerMoves
  <2>3. Head(pending) \in LinePiece /\ Tail(pending) \in Seq(LinePiece) BY <1>1, <2>2
  <2> DEFINE p == Head(pending)
             h == [p EXCEPT !.part = "head"]
             t == [p EXCEPT !.part = "tail"]
             e == [p EXCEPT !.cmd = "NO DATA"]
             g == [p EXCEPT !.part = "long"]
  <2>4. /\ h \in LinePiece /\ t \in LinePiece /\ e \in LinePiece /\ p \in LinePiece
        /\ g \in LinePiece
    BY <2>3, PieceTypes
  <2>5. /\ pending' = Tail(pending) \/ pending' = <<t>> \o Tail(pending)
        /\ tty' \in {Append(tty, p), Append(tty, h), Append(tty, e), Append(tty, g)}
        /\ UNCHANGED <<asked, late>>
    BY <2>1, Zenon DEF AnswerMoves
  <2> HIDE DEF p, h, t, e, g
  <2>6. <<t>> \o Tail(pending) \in Seq(LinePiece) BY <2>3, <2>4
  <2>7. /\ Append(tty, p) \in Seq(LinePiece) /\ Append(tty, h) \in Seq(LinePiece)
        /\ Append(tty, e) \in Seq(LinePiece) /\ Append(tty, g) \in Seq(LinePiece)
    BY <1>1, <2>4
  <2> QED BY <1>1, <2>3, <2>5, <2>6, <2>7, Zenon
<1>9. CASE Copies
  <2>1. PICK id \in CanIds : CanFrame(id) \/ CanFrameInParts(id) BY <1>9 DEF Copies
  <2>2. id \in CommandNames BY DEF CommandNames
  <2> DEFINE w == Piece(id, asked + 1, "whole")
             h == Piece(id, asked + 1, "head")
             t == Piece(id, asked + 1, "tail")
             g == Piece(id, asked + 1, "long")
  <2>3. w \in LinePiece /\ h \in LinePiece /\ t \in LinePiece /\ g \in LinePiece BY <1>3, <2>2
  <2>4. /\ asked' = asked + 1 /\ late' = late
        /\ pending' = pending \/ pending' = Append(pending, t)
        /\ tty' = Append(tty, w) \/ tty' = Append(tty, h) \/ tty' = Append(tty, g)
    BY <2>1, Zenon DEF CanFrame, CanFrameInParts
  <2> HIDE DEF w, h, t, g
  <2>5. /\ Append(pending, t) \in Seq(LinePiece)
        /\ Append(tty, w) \in Seq(LinePiece) /\ Append(tty, h) \in Seq(LinePiece)
        /\ Append(tty, g) \in Seq(LinePiece)
    BY <1>1, <2>3
  <2>6. asked + 1 \in Nat BY <1>1
  <2> QED BY <1>1, <2>4, <2>5, <2>6, Zenon
<1>10. CASE Rests
  BY <1>1, <1>10 DEF Rests
<1> QED BY <1>4, <1>5, <1>6, <1>8, <1>9, <1>10, <1>7, LineSteps, Zenon

\* The sequences after an answer, piece by piece: the piece that arrives has the
\* number and, but for its error text, the name of the question.
LEMMA AnswerPieces ==
  ASSUME IInv, Answers
  PROVE  /\ Len(tty') = Len(tty) + 1
         /\ \A i \in 1 .. Len(tty) : tty'[i] = tty[i]
         /\ Len(pending) \in Nat \ {0}
         /\ LET p == pending[1]
                q == tty'[Len(tty')]
            IN  /\ q.n = p.n /\ q.cmd \in {p.cmd, "NO DATA"}
                /\ \/ /\ Len(pending') = Len(pending) - 1
                      /\ \A j \in 1 .. Len(pending') : pending'[j] = pending[j + 1]
                      /\ q.part \in {p.part, "long"}
                   \/ /\ Len(pending') = Len(pending)
                      /\ \A j \in 2 .. Len(pending) : pending'[j] = pending[j]
                      /\ pending'[1].n = p.n /\ pending'[1].cmd = p.cmd
                      /\ pending'[1].part = "tail" /\ p.part = "whole" /\ q.part = "head"
<1>1. pending \in Seq(LinePiece) /\ tty \in Seq(LinePiece) BY DEF IInv, DongleTypes
<1>2. AnswerMoves BY AnswersMove
<1>3. pending # << >> BY <1>2, Zenon DEF AnswerMoves
<1> DEFINE p == pending[1]
           h == [p EXCEPT !.part = "head"]
           t == [p EXCEPT !.part = "tail"]
           e == [p EXCEPT !.cmd = "NO DATA"]
           g == [p EXCEPT !.part = "long"]
<1>4. Head(pending) = p /\ p \in LinePiece /\ Len(pending) \in Nat \ {0} /\ Len(tty) \in Nat
  BY <1>1, <1>3
<1>5. /\ h.n = p.n /\ h.cmd = p.cmd /\ h.part = "head"
      /\ t.n = p.n /\ t.cmd = p.cmd /\ t.part = "tail"
      /\ e.n = p.n /\ e.cmd = "NO DATA" /\ e.part = p.part
      /\ g.n = p.n /\ g.cmd = p.cmd /\ g.part = "long"
  BY <1>4 DEF LinePiece
<1>6. \/ pending' = Tail(pending) /\ tty' \in {Append(tty, p), Append(tty, e), Append(tty, g)}
      \/ pending' = <<t>> \o Tail(pending) /\ tty' = Append(tty, h) /\ p.part = "whole"
  BY <1>2, <1>4, Zenon DEF AnswerMoves
<1>7. h \in LinePiece /\ t \in LinePiece /\ e \in LinePiece /\ g \in LinePiece
  BY <1>4, PieceTypes
<1> HIDE DEF p, h, t, e, g
<1>8. \A x \in LinePiece : /\ Len(Append(tty, x)) = Len(tty) + 1
                           /\ \A i \in 1 .. Len(tty) : Append(tty, x)[i] = tty[i]
                           /\ Append(tty, x)[Len(tty) + 1] = x
  BY <1>1
<1>9. /\ Len(Tail(pending)) = Len(pending) - 1
      /\ \A j \in 1 .. Len(Tail(pending)) : Tail(pending)[j] = pending[j + 1]
  BY <1>1, <1>3
<1>10. /\ Len(<<t>> \o Tail(pending)) = Len(pending)
       /\ (<<t>> \o Tail(pending))[1] = t
       /\ \A j \in 2 .. Len(pending) : (<<t>> \o Tail(pending))[j] = pending[j]
  <2>1. Tail(pending) \in Seq(LinePiece) BY <1>1, <1>3
  <2> QED BY <1>1, <1>3, <1>7, <1>9, <2>1
<1>11. CASE pending' = Tail(pending) /\ tty' \in {Append(tty, p), Append(tty, e), Append(tty, g)}
  <2>1. PICK x \in LinePiece : /\ tty' = Append(tty, x) /\ x.n = p.n /\ x.part \in {p.part, "long"}
                               /\ x.cmd \in {p.cmd, "NO DATA"}
    BY <1>4, <1>5, <1>7, <1>11
  <2>2. Len(tty') = Len(tty) + 1 /\ tty'[Len(tty')] = x
        /\ \A i \in 1 .. Len(tty) : tty'[i] = tty[i]
    BY <1>8, <2>1
  <2> QED BY <1>4, <1>9, <1>11, <2>1, <2>2 DEF p
<1>12. CASE pending' = <<t>> \o Tail(pending) /\ tty' = Append(tty, h) /\ p.part = "whole"
  <2>1. Len(tty') = Len(tty) + 1 /\ tty'[Len(tty')] = h
        /\ \A i \in 1 .. Len(tty) : tty'[i] = tty[i]
    BY <1>7, <1>8, <1>12
  <2> QED BY <1>4, <1>5, <1>10, <1>12, <2>1 DEF p
<1> QED BY <1>6, <1>11, <1>12

\* Removing the first piece that arrived.
LEMMA TakenPiece ==
  ASSUME IInv, tty # << >>, tty' = Tail(tty)
  PROVE  /\ Len(tty) \in Nat \ {0} /\ Head(tty) = tty[1] /\ tty[1] \in LinePiece
         /\ Len(tty') = Len(tty) - 1
         /\ \A i \in 1 .. Len(tty') : i + 1 \in 1 .. Len(tty) /\ tty'[i] = tty[i + 1]
<1>1. tty \in Seq(LinePiece) BY DEF IInv, DongleTypes
<1> QED BY <1>1

\* What is left on the line of an answer that did not fit: its first piece is
\* another part of the same answer, and no head.
LEMMA OverflowPieces ==
  ASSUME IInv, Overflows
  PROVE  /\ Len(tty') = Len(tty) /\ Len(tty) \in Nat \ {0}
         /\ tty'[1].n = tty[1].n /\ tty'[1].cmd = tty[1].cmd
         /\ tty[1].part # "head" /\ tty'[1].part # "head"
         /\ \A i \in 2 .. Len(tty) : tty'[i] = tty[i]
<1>1. tty \in Seq(LinePiece) BY DEF IInv, DongleTypes
<1>2. tty # << >> /\ Head(tty).part = "long" BY Zenon DEF Overflows
<1>3. PICK rest \in {"whole", "tail", "long"} :
        tty' = <<[Head(tty) EXCEPT !.part = rest]>> \o Tail(tty)
  BY Zenon DEF Overflows
<1> DEFINE p == Head(tty)
           q == [p EXCEPT !.part = rest]
<1>4. /\ p = tty[1] /\ p \in LinePiece /\ Len(tty) \in Nat \ {0}
      /\ Tail(tty) \in Seq(LinePiece) /\ Len(Tail(tty)) = Len(tty) - 1
      /\ \A j \in 1 .. Len(Tail(tty)) : Tail(tty)[j] = tty[j + 1]
  BY <1>1, <1>2
<1>5. q.n = p.n /\ q.cmd = p.cmd /\ q.part = rest BY <1>4 DEF LinePiece
<1>6. q \in LinePiece BY <1>4, PieceTypes
<1> HIDE DEF p, q
<1>7. /\ Len(<<q>> \o Tail(tty)) = Len(tty)
      /\ (<<q>> \o Tail(tty))[1] = q
      /\ \A j \in 2 .. Len(tty) : (<<q>> \o Tail(tty))[j] = tty[j]
  BY <1>4, <1>6
<1> QED BY <1>2, <1>3, <1>4, <1>5, <1>7 DEF p, q

\* A question that was not lost.
LEMMA AskedPiece ==
  ASSUME IInv, Asks, ~can_reader_mode
  PROVE  \/ pending' = pending
         \/ /\ Len(pending') = Len(pending) + 1 /\ Len(pending) \in Nat
            /\ \A i \in 1 .. Len(pending) : pending'[i] = pending[i]
            /\ pending'[Len(pending')].n = asked + 1
            /\ pending'[Len(pending')].part = "whole"
            /\ Labelled(pending'[Len(pending')])
<1>1. PICK cmd \in Commands \cup Values :
        /\ pending' = pending \/ pending' = Append(pending, Piece(cmd, asked + 1, "whole"))
        /\ (cmd = "010C" => asked % 2 = 1) /\ (cmd = "012F" => asked % 2 = 0)
  BY DEF Asks
<1>2. pending \in Seq(LinePiece) /\ asked \in Nat BY DEF IInv, DongleTypes
<1>3. asked + 1 \in Nat /\ (asked % 2 = 1 => (asked + 1) % 2 = 0)
      /\ (asked % 2 = 0 => (asked + 1) % 2 = 1)
  BY <1>2
<1> DEFINE w == Piece(cmd, asked + 1, "whole")
<1>4. w.n = asked + 1 /\ w.part = "whole" /\ w.cmd = cmd BY DEF Piece
<1>5. Labelled(w) BY <1>1, <1>3, <1>4 DEF Labelled
<1>6. w \in LinePiece BY <1>3, PieceTypes DEF CommandNames
<1> HIDE DEF w
<1> QED BY <1>1, <1>2, <1>4, <1>5, <1>6 DEF w

\* An answer stays labelled with the question it is for.
LEMMA PiecesLabelledKept ==
  ASSUME IInv, [Next]_vars
  PROVE  PiecesLabelled'
<1>1. can_reader_mode' = can_reader_mode BY MainSteps, SideStepLeaves, Zenon
<1> SUFFICES ASSUME ~can_reader_mode
             PROVE  /\ \A i \in 1 .. Len(tty') : Labelled(tty'[i])
                    /\ \A i \in 1 .. Len(pending') : Labelled(pending'[i])
  BY <1>1, Zenon DEF PiecesLabelled, Labelled
<1>2. /\ \A i \in 1 .. Len(tty) : Labelled(tty[i])
      /\ \A i \in 1 .. Len(pending) : Labelled(pending[i])
  BY Zenon DEF IInv, PiecesLabelled
<1>3. CASE Asks
  <2>1. tty' = tty BY <1>3, Zenon DEF Asks
  <2> QED BY <1>2, <1>3, <2>1, AskedPiece
<1>4. CASE Reads \/ ReadsHead
  <2>1. tty # << >> /\ tty' = Tail(tty) /\ pending' = pending
    BY <1>4, Zenon DEF Reads, ReadsHead
  <2> QED BY <1>2, <2>1, TakenPiece
<1>5. CASE TimesOut \/ Rests
  BY <1>2, <1>5, Zenon DEF TimesOut, Rests
<1>6. CASE Overflows
  <2>1. /\ Len(tty') = Len(tty) /\ Len(tty) \in Nat \ {0}
        /\ tty'[1].n = tty[1].n /\ tty'[1].cmd = tty[1].cmd
        /\ \A i \in 2 .. Len(tty) : tty'[i] = tty[i]
    BY <1>6, OverflowPieces, Zenon
  <2>2. pending' = pending BY <1>6, Zenon DEF Overflows
  <2>3. \A i \in 1 .. Len(tty') : i = 1 \/ i \in 2 .. Len(tty) BY <2>1
  <2>4. 1 \in 1 .. Len(tty) BY <2>1
  <2>5. Labelled(tty'[1]) BY <1>2, <2>1, <2>4, Zenon DEF Labelled
  <2>6. \A i \in 1 .. Len(tty') : Labelled(tty'[i]) BY <1>2, <2>1, <2>3, <2>5, Zenon
  <2> QED BY <1>2, <2>2, <2>6, Zenon
<1>7. CASE Answers
  <2> DEFINE p == pending[1]
             q == tty'[Len(tty')]
  <2>1. Len(tty) \in Nat BY DEF IInv, DongleTypes
  <2>2. /\ Len(pending) \in Nat \ {0} /\ Len(tty') = Len(tty) + 1
        /\ \A i \in 1 .. Len(tty) : tty'[i] = tty[i]
        /\ q.n = p.n /\ q.cmd \in {p.cmd, "NO DATA"}
        /\ \/ /\ Len(pending') = Len(pending) - 1
              /\ \A i \in 1 .. Len(pending') : pending'[i] = pending[i + 1]
           \/ /\ Len(pending') = Len(pending)
              /\ \A i \in 2 .. Len(pending) : pending'[i] = pending[i]
              /\ pending'[1].n = p.n /\ pending'[1].cmd = p.cmd
    BY <1>7, AnswerPieces, Zenon
  <2>3. Len(pending) \in Nat \ {0} /\ Len(tty') = Len(tty) + 1 BY <2>2, Zenon
  <2>4. 1 \in 1 .. Len(pending) BY <2>3
  <2>5. Labelled(p) BY <1>2, <2>4, Zenon
  <2>6. \A x : (x.n = p.n /\ x.cmd \in {p.cmd, "NO DATA"}) => Labelled(x)
    <3> HIDE DEF p
    <3> QED BY <2>5 DEF Labelled
  <2>7. Labelled(q) BY <2>2, <2>6, Zenon
  <2>8. ASSUME NEW i \in 1 .. Len(tty') PROVE Labelled(tty'[i])
    <3>1. i \in 1 .. Len(tty) \/ i = Len(tty') BY <2>1, <2>3
    <3> QED BY <1>2, <2>2, <2>7, <3>1, Zenon
  <2>9. ASSUME NEW i \in 1 .. Len(pending') PROVE Labelled(pending'[i])
    <3>1. CASE Len(pending') = Len(pending) - 1 /\ pending'[i] = pending[i + 1]
      <4>1. i + 1 \in 1 .. Len(pending) BY <2>3, <3>1
      <4> QED BY <1>2, <3>1, <4>1, Zenon
    <3>2. CASE i \in 2 .. Len(pending) /\ pending'[i] = pending[i]
      <4>1. i \in 1 .. Len(pending) BY <2>3, <3>2
      <4> QED BY <1>2, <3>2, <4>1, Zenon
    <3>3. CASE i = 1 /\ pending'[1].n = p.n /\ pending'[1].cmd = p.cmd
      BY <2>6, <3>3, Zenon
    <3>4. Len(pending') = Len(pending) => i = 1 \/ i \in 2 .. Len(pending) BY <2>3
    <3> QED BY <2>2, <3>1, <3>2, <3>3, <3>4, Zenon
  <2> QED BY <2>8, <2>9
<1> QED BY <1>3, <1>4, <1>5, <1>7, <1>6, LineSteps, Zenon DEF Copies

\* Pieces of one question are in the same order to the others.
LEMMA SameQuestion ==
  ASSUME NEW p, NEW q, p.n \in Nat, q.n = p.n
  PROVE  /\ \A x : Before(x, p) => Before(x, q)
         /\ \A x : Earlier(x, p) => Earlier(x, q)
         /\ \A y : Earlier(p, y) => Earlier(q, y)
         /\ \A y : y.n \in Nat /\ Earlier(p, y) => Before(q, y)
         /\ p.part # "head" => \A y : Before(p, y) => Earlier(q, y)
         /\ q.part = "head" => Before(q, p)
BY DEF Before, Earlier

\* What stands on the line.
LEMMA PieceAt ==
  ASSUME IInv
  PROVE  /\ Len(tty) \in Nat /\ Len(pending) \in Nat
         /\ \A i \in 1 .. Len(tty) : tty[i] \in LinePiece /\ tty[i].n \in Nat
         /\ \A i \in 1 .. Len(pending) : pending[i] \in LinePiece /\ pending[i].n \in Nat
<1>1. tty \in Seq(LinePiece) /\ pending \in Seq(LinePiece) BY DEF IInv, DongleTypes
<1>2. \A p \in LinePiece : p.n \in Nat BY DEF LinePiece
<1>3. Len(tty) \in Nat /\ \A i \in 1 .. Len(tty) : tty[i] \in LinePiece BY <1>1
<1>4. Len(pending) \in Nat /\ \A i \in 1 .. Len(pending) : pending[i] \in LinePiece BY <1>1
<1> QED BY <1>2, <1>3, <1>4, Zenon

\* The answers stay in the order of their questions.
LEMMA InOrderKept ==
  ASSUME IInv, [Next]_vars
  PROVE  InOrder'
<1>1. can_reader_mode' = can_reader_mode BY MainSteps, SideStepLeaves, Zenon
<1> DEFINE TT == \A i, j \in 1 .. Len(tty) : i < j => Before(tty[i], tty[j])
           TP == \A i \in 1 .. Len(tty) : \A j \in 1 .. Len(pending) : Before(tty[i], pending[j])
           PP == \A i, j \in 1 .. Len(pending) : i < j => Earlier(pending[i], pending[j])
           Goal == /\ \A i, j \in 1 .. Len(tty') : i < j => Before(tty'[i], tty'[j])
                   /\ \A i \in 1 .. Len(tty') : \A j \in 1 .. Len(pending') :
                        Before(tty'[i], pending'[j])
                   /\ \A i, j \in 1 .. Len(pending') : i < j => Earlier(pending'[i], pending'[j])
<1> SUFFICES ASSUME ~can_reader_mode PROVE Goal
  BY <1>1, Zenon DEF InOrder, Before, Earlier
<1>2. TT /\ TP /\ PP
  BY Zenon DEF IInv, InOrder
<1> HIDE DEF Goal
<1>3. CASE Asks
  <2>1. tty' = tty BY <1>3, Zenon DEF Asks
  <2>2. CASE pending' = pending
    BY <1>2, <2>1, <2>2, Zenon DEF Goal
  <2>3. CASE /\ Len(pending') = Len(pending) + 1
             /\ \A i \in 1 .. Len(pending) : pending'[i] = pending[i]
             /\ pending'[Len(pending')].n = asked + 1
    <3> DEFINE w == pending'[Len(pending')]
    <3>1. ASSUME NEW x, x.n \in Nat, x.n <= asked PROVE Before(x, w) /\ Earlier(x, w)
      BY <2>3, <3>1 DEF Before, Earlier, IInv, DongleTypes
    <3>2. \A i \in 1 .. Len(tty) : Before(tty[i], w)
      BY <3>1, PieceAt DEF IInv, PiecesRecent, Recent
    <3>3. \A i \in 1 .. Len(pending) : Earlier(pending[i], w)
      BY <3>1, PieceAt DEF IInv, PiecesRecent, Recent
    <3>4. \A j \in 1 .. Len(pending') : j \in 1 .. Len(pending) \/ j = Len(pending')
      BY <2>3, PieceAt
    <3>5. \A i, j \in 1 .. Len(pending') : i < j => i \in 1 .. Len(pending)
      BY <2>3, PieceAt
    <3>6. \A i, j \in 1 .. Len(tty') : i < j => Before(tty'[i], tty'[j])
      BY <1>2, <2>1, Zenon
    <3>7. \A i \in 1 .. Len(tty') : \A j \in 1 .. Len(pending') : Before(tty'[i], pending'[j])
      BY <1>2, <2>1, <2>3, <3>2, <3>4, Zenon
    <3>8. \A i, j \in 1 .. Len(pending') : i < j => Earlier(pending'[i], pending'[j])
      BY <1>2, <2>3, <3>3, <3>4, <3>5, Zenon
    <3> QED BY <3>6, <3>7, <3>8, Zenon DEF Goal
  <2> QED BY <1>3, <2>2, <2>3, AskedPiece, Zenon
<1>4. CASE Reads \/ ReadsHead
  <2>1. tty # << >> /\ tty' = Tail(tty) /\ pending' = pending
    BY <1>4, Zenon DEF Reads, ReadsHead
  <2>2. \A i \in 1 .. Len(tty') : i + 1 \in 1 .. Len(tty) /\ tty'[i] = tty[i + 1]
    BY <2>1, TakenPiece, Zenon
  <2>3. \A i, j \in 1 .. Len(tty') : i < j => i + 1 < j + 1
    OBVIOUS
  <2>4. \A i, j \in 1 .. Len(tty') : i < j => Before(tty'[i], tty'[j])
    BY <1>2, <2>2, <2>3, Zenon
  <2>5. \A i \in 1 .. Len(tty') : \A j \in 1 .. Len(pending') : Before(tty'[i], pending'[j])
    BY <1>2, <2>1, <2>2, Zenon
  <2> QED BY <1>2, <2>1, <2>4, <2>5, Zenon DEF Goal
<1>5. CASE TimesOut \/ Rests
  <2>1. tty' = tty /\ pending' = pending BY <1>5, Zenon DEF TimesOut, Rests
  <2> QED BY <1>2, <2>1, Zenon DEF Goal
<1>6. CASE Overflows
  <2>1. /\ Len(tty') = Len(tty) /\ Len(tty) \in Nat \ {0}
        /\ tty'[1].n = tty[1].n
        /\ tty[1].part # "head" /\ tty'[1].part # "head"
        /\ \A i \in 2 .. Len(tty) : tty'[i] = tty[i]
    BY <1>6, OverflowPieces, Zenon
  <2>2. pending' = pending BY <1>6, Zenon DEF Overflows
  <2>3. \A x : Before(tty[1], x) => Before(tty'[1], x) BY <2>1, Zenon DEF Before
  <2>4. /\ 1 \in 1 .. Len(tty)
        /\ \A i \in 1 .. Len(tty) : i = 1 \/ i \in 2 .. Len(tty)
        /\ \A i, j \in 1 .. Len(tty) : i < j => j \in 2 .. Len(tty)
    BY <2>1
  <2>5. \A i, j \in 1 .. Len(tty') : i < j => Before(tty'[i], tty'[j])
    BY <1>2, <2>1, <2>3, <2>4, Zenon
  <2>6. \A i \in 1 .. Len(tty') : \A j \in 1 .. Len(pending') : Before(tty'[i], pending'[j])
    BY <1>2, <2>1, <2>2, <2>3, <2>4, Zenon
  <2> QED BY <1>2, <2>2, <2>5, <2>6, Zenon DEF Goal
<1>7. CASE Answers
  <2> DEFINE p == pending[1]
             q == tty'[Len(tty')]
             t == pending'[1]
  <2>1. /\ Len(pending) \in Nat \ {0} /\ Len(tty') = Len(tty) + 1
        /\ \A i \in 1 .. Len(tty) : tty'[i] = tty[i]
        /\ q.n = p.n
        /\ \/ /\ Len(pending') = Len(pending) - 1
              /\ \A i \in 1 .. Len(pending') : pending'[i] = pending[i + 1]
           \/ /\ Len(pending') = Len(pending)
              /\ \A i \in 2 .. Len(pending) : pending'[i] = pending[i]
              /\ t.n = p.n /\ t.part = "tail" /\ p.part = "whole" /\ q.part = "head"
    BY <1>7, AnswerPieces, Zenon
  <2>2. Len(pending) \in Nat \ {0} /\ Len(tty) \in Nat /\ Len(tty') = Len(tty) + 1
    BY <2>1, PieceAt, Zenon
  <2>3. 1 \in 1 .. Len(pending) /\ \A j \in 2 .. Len(pending) : 1 < j /\ j \in 1 .. Len(pending)
    BY <2>2
  <2>4. p.n \in Nat BY <2>3, PieceAt
  <2>5. \A i \in 1 .. Len(tty') : i \in 1 .. Len(tty) \/ i = Len(tty') BY <2>2
  <2>6. \A i, j \in 1 .. Len(tty') : i < j => i \in 1 .. Len(tty) BY <2>2
  <2> HIDE DEF p, q, t
  <2>7. (\A x : Before(x, p) => Before(x, q))
        /\ (\A y : y.n \in Nat /\ Earlier(p, y) => Before(q, y))
    BY <2>1, <2>4, SameQuestion
  <2>8. \A i, j \in 1 .. Len(tty') : i < j => Before(tty'[i], tty'[j])
    <3>1. \A i \in 1 .. Len(tty) : Before(tty[i], p) BY <1>2, <2>3, Zenon DEF p
    <3>2. \A i \in 1 .. Len(tty) : Before(tty[i], q) BY <2>7, <3>1, Zenon
    <3> QED BY <1>2, <2>1, <2>5, <2>6, <3>2, Zenon DEF q
  <2>9. \A j \in 2 .. Len(pending) : Earlier(p, pending[j]) /\ pending[j].n \in Nat
    <3>1. \A j \in 2 .. Len(pending) : Earlier(pending[1], pending[j]) BY <1>2, <2>3, Zenon
    <3> QED BY <2>3, <3>1, PieceAt, Zenon DEF p
  <2>10. \A j \in 2 .. Len(pending) : Before(q, pending[j]) BY <2>7, <2>9, Zenon
  <2>11. CASE /\ Len(pending') = Len(pending) - 1
              /\ \A i \in 1 .. Len(pending') : pending'[i] = pending[i + 1]
    <3>1. \A j \in 1 .. Len(pending') : j + 1 \in 2 .. Len(pending) BY <2>2, <2>11
    <3>2. \A i, j \in 1 .. Len(pending') : i < j => i + 1 < j + 1 OBVIOUS
    <3>3. \A i \in 1 .. Len(tty') : \A j \in 1 .. Len(pending') : Before(tty'[i], pending'[j])
      BY <1>2, <2>1, <2>3, <2>5, <2>10, <2>11, <3>1, Zenon DEF q
    <3>4. \A i, j \in 1 .. Len(pending') : i < j => Earlier(pending'[i], pending'[j])
      BY <1>2, <2>3, <2>11, <3>1, <3>2, Zenon
    <3> QED BY <2>8, <3>3, <3>4, Zenon DEF Goal
  <2>12. CASE /\ Len(pending') = Len(pending)
              /\ \A i \in 2 .. Len(pending) : pending'[i] = pending[i]
              /\ t.n = p.n /\ t.part = "tail" /\ p.part = "whole" /\ q.part = "head"
    <3>1. /\ \A x : Before(x, p) => Before(x, t)
          /\ \A y : Earlier(p, y) => Earlier(t, y)
      BY <2>4, <2>12, SameQuestion
    <3>2. Before(q, p) BY <2>1, <2>4, <2>12, SameQuestion
    <3>3. Before(q, t) BY <3>1, <3>2, Zenon
    <3>4. \A i \in 1 .. Len(tty) : Before(tty[i], t)
      BY <1>2, <2>3, <3>1, Zenon DEF p
    <3>5. \A j \in 2 .. Len(pending) : Earlier(t, pending[j]) BY <2>9, <3>1, Zenon
    <3>6. \A j \in 1 .. Len(pending') : j = 1 \/ j \in 2 .. Len(pending) BY <2>2, <2>12
    <3>7. \A i, j \in 1 .. Len(pending') : i < j => j \in 2 .. Len(pending) BY <2>2, <2>12
    <3>8. \A i \in 1 .. Len(tty') : \A j \in 1 .. Len(pending') : Before(tty'[i], pending'[j])
      BY <1>2, <2>1, <2>3, <2>5, <2>10, <2>12, <3>3, <3>4, <3>6, Zenon DEF q, t
    <3>9. \A i, j \in 1 .. Len(pending') : i < j => Earlier(pending'[i], pending'[j])
      BY <1>2, <2>3, <2>12, <3>5, <3>6, <3>7, Zenon DEF t
    <3> QED BY <2>8, <3>8, <3>9, Zenon DEF Goal
  <2> QED BY <2>1, <2>11, <2>12, Zenon
<1> QED BY <1>3, <1>4, <1>5, <1>6, <1>7, LineSteps, Zenon DEF Copies

\* What main has asked for is late by at most what was given up.
LEMMA PiecesRecentKept ==
  ASSUME IInv, [Next]_vars
  PROVE  PiecesRecent'
<1>1. can_reader_mode' = can_reader_mode BY MainSteps, SideStepLeaves, Zenon
<1> DEFINE Recent2(p) == p.n <= asked' /\ asked' - p.n + 1 <= late' + Waiting'
           Goal == /\ \A i \in 1 .. Len(tty') : Recent2(tty'[i])
                   /\ \A i \in 1 .. Len(pending') : Recent2(pending'[i])
<1> SUFFICES ASSUME ~can_reader_mode PROVE Goal
  BY <1>1, Zenon DEF PiecesRecent, Recent
<1>2. /\ \A i \in 1 .. Len(tty) : Recent(tty[i])
      /\ \A i \in 1 .. Len(pending) : Recent(pending[i])
  BY Zenon DEF IInv, PiecesRecent
<1>3. asked \in Nat /\ late \in Nat BY DEF IInv, DongleTypes
<1>4. ASSUME asked' = asked, late + Waiting <= late' + Waiting', late' \in Nat,
             NEW p, p.n \in Nat, Recent(p)
      PROVE  Recent2(p)
  <2>1. Waiting \in {0, 1} /\ Waiting' \in {0, 1} BY DEF Waiting
  <2>2. p.n <= asked /\ asked - p.n + 1 <= late + Waiting BY <1>4 DEF Recent
  <2>3. p.n \in Nat /\ asked' = asked /\ late' \in Nat
        /\ late + Waiting <= late' + Waiting'
    BY <1>4, Zenon
  <2>4. p.n <= asked' /\ asked' - p.n + 1 <= late' + Waiting'
    <3> HIDE DEF Recent2
    <3>1. \A a, n, l, m, w, v \in Int :
            a - n + 1 <= l + w /\ l + w <= m + v => a - n + 1 <= m + v
      OBVIOUS
    <3>2. {asked, p.n, late, late', Waiting, Waiting'} \subseteq Int
      BY <1>3, <2>1, <2>3
    <3> QED BY <2>2, <2>3, <3>1, <3>2, Zenon
  <2> QED BY <2>4, Zenon
<1>5. CASE Asks
  <2>1. tty' = tty /\ asked' = asked + 1 /\ late' = late /\ Waiting = 0 /\ Waiting' = 1
    BY <1>5, Zenon DEF Asks
  <2>2. ASSUME NEW p, p.n \in Nat, Recent(p) PROVE Recent2(p)
    BY <1>3, <2>1, <2>2 DEF Recent
  <2>3. \A i \in 1 .. Len(tty) : Recent2(tty[i]) BY <1>2, <2>2, PieceAt, Zenon
  <2>4. \A i \in 1 .. Len(pending) : Recent2(pending[i]) BY <1>2, <2>2, PieceAt, Zenon
  <2>5. ASSUME NEW p, p.n = asked + 1 PROVE Recent2(p)
    BY <1>3, <2>1, <2>5
  <2> HIDE DEF Recent2
  <2>6. CASE pending' = pending BY <2>1, <2>3, <2>4, <2>6, Zenon
  <2>7. CASE /\ Len(pending') = Len(pending) + 1 /\ Len(pending) \in Nat
             /\ \A i \in 1 .. Len(pending) : pending'[i] = pending[i]
             /\ pending'[Len(pending')].n = asked + 1
    <3>1. \A i \in 1 .. Len(pending') : i \in 1 .. Len(pending) \/ i = Len(pending') BY <2>7
    <3> QED BY <2>1, <2>3, <2>4, <2>5, <2>7, <3>1, Zenon
  <2> QED BY <1>5, <2>6, <2>7, AskedPiece, Zenon
<1>6. CASE Reads
  <2>1. /\ tty # << >> /\ tty' = Tail(tty) /\ pending' = pending /\ asked' = asked
        /\ late' = late /\ Waiting = 1 /\ Waiting' = 0 /\ Head(tty).part # "head"
    BY <1>6, Zenon DEF Reads
  <2>2. /\ Len(tty) \in Nat \ {0} /\ Head(tty) = tty[1]
        /\ \A i \in 1 .. Len(tty') : i + 1 \in 1 .. Len(tty) /\ tty'[i] = tty[i + 1]
    BY <2>1, TakenPiece, Zenon
  <2>3. 1 \in 1 .. Len(tty) BY <2>2
  <2>4. tty[1].n \in Nat /\ Recent(tty[1]) /\ tty[1].part # "head"
    BY <1>2, <2>1, <2>2, <2>3, PieceAt, Zenon
  <2>5. ASSUME NEW q, q.n \in Nat, Recent(q), Before(tty[1], q) PROVE Recent2(q)
    BY <1>3, <2>1, <2>4, <2>5 DEF Recent, Before
  <2>6. \A i \in 1 .. Len(tty') : 1 < i + 1
    OBVIOUS
  <2>7. /\ \A i, j \in 1 .. Len(tty) : i < j => Before(tty[i], tty[j])
        /\ \A i \in 1 .. Len(tty) : \A j \in 1 .. Len(pending) : Before(tty[i], pending[j])
    BY Zenon DEF IInv, InOrder
  <2>8. \A i \in 1 .. Len(tty') : Before(tty[1], tty'[i])
    BY <2>2, <2>3, <2>6, <2>7, Zenon
  <2>9. \A i \in 1 .. Len(tty') : tty'[i].n \in Nat /\ Recent(tty'[i])
    BY <1>2, <2>2, PieceAt, Zenon
  <2>10. \A i \in 1 .. Len(tty') : Recent2(tty'[i]) BY <2>5, <2>8, <2>9, Zenon
  <2>11. \A i \in 1 .. Len(pending) : Recent2(pending[i])
    BY <1>2, <2>3, <2>5, <2>7, PieceAt, Zenon
  <2> QED BY <2>1, <2>10, <2>11, Zenon
<1>7. CASE ReadsHead
  <2>1. /\ tty # << >> /\ tty' = Tail(tty) /\ pending' = pending /\ asked' = asked
        /\ late' = late /\ Waiting' = Waiting
    BY <1>7, Zenon DEF ReadsHead
  <2>2. \A i \in 1 .. Len(tty') : i + 1 \in 1 .. Len(tty) /\ tty'[i] = tty[i + 1]
    BY <2>1, TakenPiece, Zenon
  <2>3. late + Waiting <= late' + Waiting' /\ late' \in Nat
    <3>1. Waiting \in {0, 1} BY DEF Waiting
    <3> QED BY <1>3, <2>1, <3>1
  <2>4. \A p : p.n \in Nat /\ Recent(p) => Recent2(p) BY <1>4, <2>1, <2>3, Zenon
  <2> HIDE DEF Recent2
  <2> QED BY <1>2, <2>1, <2>2, <2>4, PieceAt, Zenon
<1>8. CASE TimesOut
  <2>1. /\ tty = << >> /\ UNCHANGED <<asked, pending, tty>> /\ Waiting = 1 /\ Waiting' = 0
        /\ pending # << >> => late' = late + 1
    BY <1>8, Zenon DEF TimesOut
  <2>2. CASE pending = << >>
    BY <2>1, <2>2
  <2>3. CASE pending # << >>
    <3>1. late + Waiting <= late' + Waiting' /\ late' \in Nat BY <1>3, <2>1, <2>3
    <3>2. \A p : p.n \in Nat /\ Recent(p) => Recent2(p) BY <1>4, <2>1, <3>1, Zenon
    <3> HIDE DEF Recent2
    <3> QED BY <1>2, <2>1, <3>2, PieceAt, Zenon
  <2> QED BY <2>2, <2>3
<1>9. CASE Overflows
  <2>1. /\ Len(tty') = Len(tty) /\ Len(tty) \in Nat \ {0}
        /\ tty'[1].n = tty[1].n
        /\ \A i \in 2 .. Len(tty) : tty'[i] = tty[i]
    BY <1>9, OverflowPieces, Zenon
  <2>2. /\ UNCHANGED <<asked, pending>> /\ late' = late + 1 /\ Waiting = 1 /\ Waiting' = 0
    BY <1>9, Zenon DEF Overflows
  <2>3. late + Waiting <= late' + Waiting' /\ late' \in Nat BY <1>3, <2>2
  <2>4. \A p : p.n \in Nat /\ Recent(p) => Recent2(p) BY <1>4, <2>2, <2>3, Zenon
  <2>5. \A i \in 1 .. Len(tty) : i = 1 \/ i \in 2 .. Len(tty) BY <2>1
  <2>6. 1 \in 1 .. Len(tty) BY <2>1
  <2>7. Recent2(tty'[1])
    <3>1. Recent2(tty[1]) BY <1>2, <2>4, <2>6, PieceAt, Zenon
    <3> QED BY <2>1, <3>1, Zenon
  <2> HIDE DEF Recent2
  <2> QED BY <1>2, <2>1, <2>2, <2>4, <2>5, <2>7, PieceAt, Zenon
<1>10. CASE Rests
  <2>1. UNCHANGED <<asked, pending, tty, late>> /\ Waiting' = Waiting BY <1>10, Zenon DEF Rests
  <2> QED BY <1>2, <2>1, Zenon DEF Recent
<1>11. CASE Answers
  <2> DEFINE p == pending[1]
             q == tty'[Len(tty')]
  <2>1. /\ Len(pending) \in Nat \ {0} /\ Len(tty') = Len(tty) + 1
        /\ \A i \in 1 .. Len(tty) : tty'[i] = tty[i]
        /\ q.n = p.n
        /\ \/ /\ Len(pending') = Len(pending) - 1
              /\ \A i \in 1 .. Len(pending') : pending'[i] = pending[i + 1]
           \/ /\ Len(pending') = Len(pending)
              /\ \A i \in 2 .. Len(pending) : pending'[i] = pending[i]
              /\ pending'[1].n = p.n
    BY <1>11, AnswerPieces, Zenon
  <2>2. Len(pending) \in Nat \ {0} /\ Len(tty) \in Nat /\ Len(tty') = Len(tty) + 1
    BY <2>1, PieceAt, Zenon
  <2>3. 1 \in 1 .. Len(pending) BY <2>2
  <2>4. asked' = asked /\ late' = late /\ Waiting' = Waiting
    BY <1>11, AnswersMove, Zenon DEF AnswerMoves, Answers
  <2>5. \A x : Recent(x) => Recent2(x) BY <2>4, Zenon DEF Recent
  <2>6. \A x : x.n = p.n => Recent2(x)
    <3>1. Recent2(p) BY <1>2, <2>3, <2>5, Zenon
    <3> HIDE DEF p
    <3> QED BY <3>1
  <2> HIDE DEF p, q, Recent2
  <2>7. \A i \in 1 .. Len(tty') : i \in 1 .. Len(tty) \/ i = Len(tty') BY <2>2
  <2>8. \A i \in 1 .. Len(tty') : Recent2(tty'[i])
    BY <1>2, <2>1, <2>5, <2>6, <2>7, Zenon DEF q
  <2>9. CASE /\ Len(pending') = Len(pending) - 1
             /\ \A i \in 1 .. Len(pending') : pending'[i] = pending[i + 1]
    <3>1. \A j \in 1 .. Len(pending') : j + 1 \in 1 .. Len(pending) BY <2>2, <2>9
    <3> QED BY <1>2, <2>5, <2>8, <2>9, <3>1, Zenon
  <2>10. CASE /\ Len(pending') = Len(pending)
              /\ \A i \in 2 .. Len(pending) : pending'[i] = pending[i]
              /\ pending'[1].n = p.n
    <3>1. \A j \in 1 .. Len(pending') : j \in 1 .. Len(pending) /\ (j = 1 \/ j \in 2 .. Len(pending))
      BY <2>2, <2>10
    <3> QED BY <1>2, <2>5, <2>6, <2>8, <2>10, <3>1, Zenon
  <2> QED BY <2>1, <2>9, <2>10, Zenon
<1> QED BY <1>5, <1>6, <1>7, <1>8, <1>10, <1>11, <1>9, LineSteps, Zenon DEF Copies

(***************************************************************************)
(* Whose turn it is.                                                       *)
(***************************************************************************)
\* The script is there until it is done with, and in the mode that asks the
\* number of the next question tells which of the two values it asks for.
LEMMA AskedInTurnsKept ==
  ASSUME IInv, [Next]_vars
  PROVE  AskedInTurns'
<1> DEFINE Goal ==
      /\ main' \in SettingUpPlaces => script' # << >>
      /\ ~can_reader_mode =>
           /\ main' # "read CAN"
           /\ main' \in {"obd2_init", "gnss_init", "command"} => asked' = 3 - Len(script')
           /\ main' = "answer" => asked' = 4 - Len(script')
           /\ main' \in {"gnss", "ask speed", "read fuel", "sleep"} => asked' % 2 = 1
           /\ main' \in {"read speed", "ask fuel"} => asked' % 2 = 0
<1>1. can_reader_mode' = can_reader_mode BY MainSteps, SideStepLeaves, Zenon
<1> SUFFICES Goal
  BY <1>1, Zenon DEF AskedInTurns, SettingUpPlaces
<1>2. /\ main \in SettingUpPlaces => script # << >>
      /\ ~can_reader_mode =>
           /\ main # "read CAN"
           /\ main \in {"obd2_init", "gnss_init", "command"} => asked = 3 - Len(script)
           /\ main = "answer" => asked = 4 - Len(script)
           /\ main \in {"gnss", "ask speed", "read fuel", "sleep"} => asked % 2 = 1
           /\ main \in {"read speed", "ask fuel"} => asked % 2 = 0
  BY Zenon DEF IInv, AskedInTurns
<1>3. script \in Seq(Commands) /\ asked \in Nat BY DEF IInv, ThreadTypes, DongleTypes
<1>4. CASE obd2_init \/ gnss_init
  <2>1. /\ UNCHANGED <<asked, script>>
        /\ \/ main = "obd2_init" /\ main' = "gnss_init"
           \/ main = "gnss_init" /\ main' = "command"
           \/ main' = "exited"
    BY <1>4, Zenon DEF obd2_init, gnss_init, MainGoes, mainVars
  <2> QED BY <1>2, <2>1 DEF SettingUpPlaces
<1>5. CASE Command
  <2>1. /\ script' = script /\ asked' = asked + 1
        /\ main = "command" /\ main' = "answer"
    BY <1>5, Zenon DEF Command, MainGoes, mainVars, obd2_send_command, CommandIsLost
  <2>2. Len(script) \in Nat BY <1>3
  <2> QED BY <1>2, <1>3, <2>1, <2>2 DEF SettingUpPlaces
<1>6. CASE Answered
  <2>1. /\ script' = Tail(script) /\ asked' = asked /\ main = "answer"
        /\ main' = IF Len(script) = 1 THEN "gnss" ELSE "command"
    BY <1>6, Zenon DEF Answered, ReadUpToPrompt
  <2>2. script # << >> BY <1>2, <2>1 DEF SettingUpPlaces
  <2>3. Len(script) \in Nat \ {0} /\ Len(Tail(script)) = Len(script) - 1 BY <1>3, <2>2
  <2>4. Len(script) # 1 => Tail(script) # << >> BY <1>3, <2>3
  <2>5. CASE Len(script) = 1
    BY <1>2, <2>1, <2>5 DEF SettingUpPlaces
  <2>6. CASE Len(script) # 1
    BY <1>2, <2>1, <2>3, <2>4, <2>6 DEF SettingUpPlaces
  <2> QED BY <2>5, <2>6
<1>7. CASE Unanswered
  <2>1. main' = "exited" BY <1>7, Zenon DEF Unanswered, MainGoes
  <2> QED BY <2>1 DEF SettingUpPlaces
<1>8. CASE TakeSentence \/ NoSentence
  <2>1. /\ asked' = asked /\ main = "gnss"
        /\ main' \in {AfterPosition, "exited", "crashed"}
    BY <1>8, Zenon DEF TakeSentence, NoSentence, SendPosition, MainGoes, dongleVars
  <2> QED BY <1>2, <2>1 DEF SettingUpPlaces, AfterPosition
<1>9. CASE get_obd_engine_speed
  <2>1. \/ main = "ask speed" /\ main' = "read speed" /\ asked' = asked + 1
        \/ main = "read speed" /\ main' \in {"ask fuel", "exited"} /\ asked' = asked
    BY <1>9, Zenon DEF get_obd_engine_speed, Ask, ReadValue, SendVehicle, MainGoes,
       obd2_send_command, CommandIsLost, ReadUpToPrompt, GivesUp, ReadTimesOut, ReadOverflows
  <2>2. (asked % 2 = 1 => (asked + 1) % 2 = 0) /\ (asked % 2 = 0 => (asked + 1) % 2 = 1)
    BY <1>3
  <2> QED BY <1>2, <2>1, <2>2 DEF SettingUpPlaces
<1>10. CASE get_obd_fuel_level
  <2>1. \/ main = "ask fuel" /\ main' = "read fuel" /\ asked' = asked + 1
        \/ main = "read fuel" /\ main' \in {"sleep", "exited"} /\ asked' = asked
    BY <1>10, Zenon DEF get_obd_fuel_level, Ask, ReadValue, SendVehicle, MainGoes,
       obd2_send_command, CommandIsLost, ReadUpToPrompt, GivesUp, ReadTimesOut, ReadOverflows
  <2>2. (asked % 2 = 1 => (asked + 1) % 2 = 0) /\ (asked % 2 = 0 => (asked + 1) % 2 = 1)
    BY <1>3
  <2> QED BY <1>2, <2>1, <2>2 DEF SettingUpPlaces
<1>11. CASE can_read
  <2>1. main = "read CAN" BY <1>11, Zenon DEF can_read
  <2>2. main' \in {"sleep", "exited"}
    <3>1. FrameId(AnswerRead) \in {"wheel tick", "engine speed", "fuel level", "NO_MESSAGE"}
      BY DEF FrameId, CanIds
    <3>2. ForwardCan(AnswerRead) => main' \in {"sleep", "exited"}
      BY <3>1 DEF ForwardCan, SendSensor, SendVehicle
    <3> QED BY <1>11, <3>2, Zenon DEF can_read
  <2> QED BY <1>2, <2>1, <2>2 DEF SettingUpPlaces
<1>12. CASE EndOfTurn \/ gnss_destroy \/ Joined
  <2>1. /\ asked' = asked
        /\ \/ main = "sleep" /\ main' \in {"gnss", "destroy"}
           \/ main' \in {"join", "done", "undefined"}
    BY <1>12, Zenon DEF EndOfTurn, gnss_destroy, Joined, MainGoes, dongleVars
  <2> QED BY <1>2, <2>1 DEF SettingUpPlaces
<1>13. CASE UNCHANGED <<main, script, asked>>
  BY <1>2, <1>13, Zenon
<1>14. CASE ReadingOn \/ SideStep \/ UNCHANGED vars
  <2>1. UNCHANGED <<main, script, asked>>
    BY <1>14, SideStepLeaves, Zenon DEF ReadingOn, ReadMore, mainVars, vars, gatewayVars, dongleVars
  <2> QED BY <1>13, <2>1
<1>15. CASE DongleStep
  <2>1. main' = main /\ script' = script
    BY <1>15, DongleStepLeaves, Zenon DEF mainVars
  <2>2. CASE script # << >>
    <3>1. asked' = asked
      BY <1>15, <2>2, Zenon DEF DongleStep, Answer, AnswerHalf, AnswerNoData, AnswerLong
    <3> QED BY <1>13, <2>1, <3>1
  <2>3. CASE script = << >>
    <3>1. ~can_reader_mode => asked' = asked
      BY <1>15, Zenon DEF DongleStep, Answer, AnswerHalf, AnswerNoData, AnswerLong
    <3> QED BY <1>2, <2>1, <2>3, <3>1, Zenon
  <2> QED BY <2>2, <2>3
<1> QED
  BY <1>4, <1>5, <1>6, <1>7, <1>8, <1>9, <1>10, <1>11, <1>12, <1>14, <1>15, Steps, Zenon
     DEF SettingUp

(***************************************************************************)
(* What is sent.                                                           *)
(***************************************************************************)
ValueIds == {"GVVEHENGSPEED", "GVVEHFUELLEVEL"}

\* A value is sent on an answer with the header of the value asked for.
ValueIsSent ==
  /\ \/ main = "read speed" /\ Accepted(AnswerRead, "010C")
     \/ main = "read fuel" /\ Accepted(AnswerRead, "012F")
  /\ ReadUpToPrompt
  /\ frame'.n = AnswerRead.n /\ frame'.asked = asked

\* The frames a step sends.
LEMMA FrameSteps ==
  ASSUME [Next]_vars
  PROVE  \/ frame' = frame
         \/ frame' = NoFrame
         \/ frame'.id = "GVGNSP" /\ frame'.n = published.n /\ frame'.asked = 0
         \/ ValueIsSent
         \/ /\ main = "read CAN" /\ ReadUpToPrompt
            /\ frame'.n = AnswerRead.n /\ frame'.asked = asked
<1>1. CASE SettingUp
  BY <1>1, Zenon DEF SettingUp, obd2_init, gnss_init, Command, Answered, Unanswered, sentVars
<1>2. CASE TakeSentence
  <2>1. \/ frame' = frame
        \/ \E values : frame' = [id |-> "GVGNSP", values |-> values, n |-> published.n,
                                 asked |-> 0, whole |-> published.whole]
    BY <1>2, Zenon DEF TakeSentence, SendPosition
  <2>2. ASSUME NEW values, frame' = [id |-> "GVGNSP", values |-> values, n |-> published.n,
                                     asked |-> 0, whole |-> published.whole]
        PROVE  frame'.id = "GVGNSP" /\ frame'.n = published.n /\ frame'.asked = 0
    BY <2>2
  <2> QED BY <2>1, <2>2, Zenon
<1>3. CASE NoSentence \/ ReadingOn \/ EndOfTurn \/ gnss_destroy \/ Joined
  BY <1>3, Zenon DEF NoSentence, ReadingOn, EndOfTurn, gnss_destroy, Joined, sentVars
<1>4. ASSUME NEW id, NEW v, NEW to, SendVehicle(id, v, AnswerRead, to)
      PROVE  \/ frame' = frame
             \/ frame'.n = AnswerRead.n /\ frame'.asked = asked
  BY <1>4 DEF SendVehicle, sentVars
<1>5. CASE get_obd_engine_speed
  <2>1. \/ frame' = frame
        \/ /\ main = "read speed" /\ ReadUpToPrompt /\ Accepted(AnswerRead, "010C")
           /\ \E v \in {EngineSpeed(AnswerRead.n)} :
                SendVehicle("GVVEHENGSPEED", v, AnswerRead, "ask fuel")
    BY <1>5, Zenon DEF get_obd_engine_speed, Ask, ReadValue, sentVars
  <2> QED BY <1>4, <2>1, Zenon DEF ValueIsSent
<1>6. CASE get_obd_fuel_level
  <2>1. \/ frame' = frame
        \/ /\ main = "read fuel" /\ ReadUpToPrompt /\ Accepted(AnswerRead, "012F")
           /\ \E v \in FuelLevels(AnswerRead.n) :
                SendVehicle("GVVEHFUELLEVEL", v, AnswerRead, "sleep")
    BY <1>6, Zenon DEF get_obd_fuel_level, Ask, ReadValue, sentVars
  <2> QED BY <1>4, <2>1, Zenon DEF ValueIsSent
<1>7. CASE can_read
  <2>1. \/ frame' = frame
        \/ main = "read CAN" /\ ReadUpToPrompt /\ ForwardCan(AnswerRead)
    BY <1>7, Zenon DEF can_read, sentVars
  <2>2. ForwardCan(AnswerRead) =>
          \/ frame' = frame
          \/ frame'.n = AnswerRead.n /\ frame'.asked = asked
    <3>1. FrameId(AnswerRead) \in {"wheel tick", "engine speed", "fuel level", "NO_MESSAGE"}
      BY DEF FrameId, CanIds
    <3>2. ASSUME SendSensor(AnswerRead)
          PROVE  frame' = frame \/ (frame'.n = AnswerRead.n /\ frame'.asked = asked)
      <4>1. \/ frame' = frame
            \/ \E v : frame' = [id |-> "GVSNSWHE", values |-> v, n |-> AnswerRead.n,
                                asked |-> asked, whole |-> TRUE]
        BY <3>2, Zenon DEF SendSensor, sentVars
      <4>2. ASSUME NEW v, frame' = [id |-> "GVSNSWHE", values |-> v, n |-> AnswerRead.n,
                                    asked |-> asked, whole |-> TRUE]
            PROVE  frame'.n = AnswerRead.n /\ frame'.asked = asked
        BY <4>2
      <4> QED BY <4>1, <4>2, Zenon
    <3>3. ForwardCan(AnswerRead) =>
            \/ SendSensor(AnswerRead)
            \/ \E id, v : SendVehicle(id, v, AnswerRead, "sleep")
            \/ UNCHANGED sentVars
      BY <3>1 DEF ForwardCan
    <3> QED BY <1>4, <3>2, <3>3, Zenon DEF sentVars
  <2> QED BY <2>1, <2>2, Zenon
<1>8. CASE SideStep \/ DongleStep \/ UNCHANGED vars
  BY <1>8, SideStepLeaves, DongleStepLeaves, Zenon DEF vars, gatewayVars, sentVars
<1> QED BY <1>1, <1>2, <1>3, <1>5, <1>6, <1>7, <1>8, Steps, Zenon

\* The answer that is read has the number and the header of its last piece.
LEMMA AnswerIsItsPiece ==
  ASSUME IInv, tty # << >>
  PROVE  /\ 1 \in 1 .. Len(tty) /\ tty[1].n \in Nat
         /\ AnswerRead.n = tty[1].n /\ AnswerRead.cmd = tty[1].cmd
<1>1. Len(tty) \in Nat \ {0} /\ Head(tty) = tty[1]
  <2>1. tty \in Seq(LinePiece) BY DEF IInv, DongleTypes
  <2> QED BY <2>1
<1>2. 1 \in 1 .. Len(tty) BY <1>1
<1>3. tty[1] \in LinePiece /\ tty[1].n \in Nat BY <1>2, PieceAt, Zenon
<1>4. \A p \in LinePiece : Collected(p).n = p.n /\ Collected(p).cmd = p.cmd
  BY DEF Collected, LinePiece
<1> QED BY <1>1, <1>2, <1>3, <1>4, Zenon DEF AnswerRead

\* A value that is sent keeps to its question and is no older than the late answers.
LEMMA FrameSentKept ==
  ASSUME IInv, [Next]_vars
  PROVE  FrameSent'
<1>1. can_reader_mode' = can_reader_mode BY MainSteps, SideStepLeaves, Zenon
<1>2. late \in Nat /\ asked \in Nat /\ late' \in {late, late + 1}
  <2>1. late \in Nat /\ asked \in Nat BY DEF IInv, DongleTypes
  <2>2. late' \in {late, late + 1}
    BY LineSteps, AnswersMove, Zenon DEF Asks, Reads, ReadsHead, TimesOut, Overflows, AnswerMoves, Copies,
       CanFrame, CanFrameInParts, Rests
  <2> QED BY <2>1, <2>2
<1> DEFINE Goal == /\ frame'.asked \in Nat /\ frame'.n \in Nat
                   /\ frame'.id \in ValueIds /\ ~can_reader_mode =>
                        (frame'.asked - frame'.n) % 2 = 0
                   /\ ~can_reader_mode => frame'.asked - frame'.n <= late'
<1> SUFFICES Goal
  BY <1>1, Zenon DEF FrameSent, ValueAnswersItsQuestion, StaleOnlyByLateAnswers, ValueIds
<1>3. CASE frame' = frame
  <2>1. /\ frame.asked \in Nat /\ frame.n \in Nat
        /\ frame.id \in ValueIds /\ ~can_reader_mode => (frame.asked - frame.n) % 2 = 0
        /\ ~can_reader_mode => frame.asked - frame.n <= late
    BY Zenon DEF IInv, FrameSent, ValueAnswersItsQuestion, StaleOnlyByLateAnswers, ValueIds
  <2> QED BY <1>2, <1>3, <2>1
<1>4. CASE frame' = NoFrame
  <2>1. frame'.id = "none" /\ frame'.n = 0 /\ frame'.asked = 0 BY <1>4 DEF NoFrame
  <2> QED BY <1>2, <2>1 DEF ValueIds
<1>5. CASE frame'.id = "GVGNSP" /\ frame'.n = published.n /\ frame'.asked = 0
  <2>1. published.n \in Nat
    BY VehicleGatewayAssumption DEF IInv, LinesCounted
  <2> QED BY <1>2, <1>5, <2>1 DEF ValueIds
<1>6. CASE ValueIsSent
  <2>1. /\ tty # << >> /\ late' = late
        /\ frame'.n = AnswerRead.n /\ frame'.asked = asked
        /\ \/ main = "read speed" /\ AnswerRead.cmd = "010C"
           \/ main = "read fuel" /\ AnswerRead.cmd = "012F"
    BY <1>6, Zenon DEF ValueIsSent, ReadUpToPrompt, Accepted
  <2>2. /\ 1 \in 1 .. Len(tty) /\ tty[1].n \in Nat
        /\ frame'.n = tty[1].n /\ AnswerRead.cmd = tty[1].cmd
    BY <2>1, AnswerIsItsPiece, Zenon
  <2>3. CASE ~can_reader_mode
    <3>1. Labelled(tty[1]) /\ Recent(tty[1])
      BY <2>2, <2>3, Zenon DEF IInv, PiecesLabelled, PiecesRecent
    <3>2. tty[1].n % 2 = asked % 2
      <4>1. /\ main = "read speed" => asked % 2 = 0
            /\ main = "read fuel" => asked % 2 = 1
        BY <2>3 DEF IInv, AskedInTurns
      <4> QED BY <2>1, <2>2, <3>1, <4>1, Zenon DEF Labelled
    <3>3. \A a, b \in Nat : a % 2 = b % 2 => (b - a) % 2 = 0 OBVIOUS
    <3>4. (asked - tty[1].n) % 2 = 0 BY <1>2, <2>2, <3>2, <3>3, Zenon
    <3>5. asked - tty[1].n + 1 <= late + 1 BY <2>1, <3>1 DEF Recent, Waiting
    <3>6. \A a, n, l \in Nat : a - n + 1 <= l + 1 => a - n <= l OBVIOUS
    <3>7. asked - tty[1].n <= late BY <1>2, <2>2, <3>5, <3>6, Zenon
    <3> QED BY <1>2, <2>1, <2>2, <3>4, <3>7, Zenon
  <2>4. CASE can_reader_mode
    BY <1>2, <2>1, <2>2, <2>4, Zenon
  <2> QED BY <2>3, <2>4
<1>7. CASE /\ main = "read CAN" /\ ReadUpToPrompt
           /\ frame'.n = AnswerRead.n /\ frame'.asked = asked
  <2>1. can_reader_mode
    BY <1>7 DEF IInv, AskedInTurns
  <2>2. tty # << >> BY <1>7, Zenon DEF ReadUpToPrompt
  <2> QED BY <1>2, <1>7, <2>1, <2>2, AnswerIsItsPiece, Zenon
<1> QED BY <1>3, <1>4, <1>5, <1>6, <1>7, FrameSteps, Zenon

(***************************************************************************)
(* The theorems.                                                           *)
(***************************************************************************)
\* Both scripts consist of the commands of the set-up.
LEMMA ScriptsAreCommands ==
  ObdScript \in Seq(Commands) /\ CanScript \in Seq(Commands)
<1>1. ASSUME NEW S, NEW a \in S, NEW b \in S, NEW c \in S PROVE <<a, b, c>> \in Seq(S)
  OBVIOUS
<1>2. ASSUME NEW S, NEW a \in S, NEW b \in S, NEW c \in S, NEW d \in S, NEW e \in S,
             NEW f \in S, NEW g \in S, NEW h \in S, NEW i \in S, NEW j \in S, NEW k \in S
      PROVE  <<a, b, c, d, e, f, g, h, i, j, k>> \in Seq(S)
  OBVIOUS
<1>3. /\ \A i \in 1 .. 3 : ObdScript[i] \in Commands
      /\ \A i \in 1 .. 11 : CanScript[i] \in Commands
  BY Zenon DEF Commands
<1>4. ObdScript[1] \in Commands /\ ObdScript[2] \in Commands /\ ObdScript[3] \in Commands
  BY <1>3
<1>5. "AT Z" \in Commands /\ "AT E0" \in Commands /\ "0100" \in Commands
  BY <1>4 DEF ObdScript
<1>6. /\ CanScript[2] \in Commands /\ CanScript[3] \in Commands /\ CanScript[4] \in Commands
      /\ CanScript[5] \in Commands /\ CanScript[6] \in Commands /\ CanScript[7] \in Commands
      /\ CanScript[8] \in Commands /\ CanScript[9] \in Commands /\ CanScript[10] \in Commands
      /\ CanScript[11] \in Commands
  BY <1>3
<1>7. /\ "AT I" \in Commands /\ "AT L1" \in Commands /\ "AT H1" \in Commands
      /\ "AT S0" \in Commands /\ "AT AL" \in Commands /\ "AT SP" \in Commands
      /\ "AT D1" \in Commands /\ "AT CAF0" \in Commands /\ "AT CM" \in Commands
      /\ "AT CF" \in Commands
  BY <1>6 DEF CanScript
<1>8. ObdScript \in Seq(Commands) BY <1>1, <1>5, Zenon DEF ObdScript
<1>9. CanScript \in Seq(Commands) BY <1>2, <1>5, <1>7, Zenon DEF CanScript
<1> QED BY <1>8, <1>9

\* The invariant holds when the gateway starts.
THEOREM InvariantInit == GatewayInit => IInv
<1> SUFFICES ASSUME GatewayInit PROVE IInv OBVIOUS
<1>1. /\ main = "obd2_init" /\ script = (IF can_reader_mode THEN CanScript ELSE ObdScript)
      /\ can_reader_mode \in BOOLEAN /\ isRunning = TRUE /\ cycles = 0 /\ reader = "none"
      /\ retries = 0 /\ g_gnss_loop = TRUE /\ gnssDataReady = FALSE
      /\ published = [n |-> 0, whole |-> TRUE] /\ lines = 0 /\ rmcs = 0
      /\ frame = NoFrame /\ positions = 0
      /\ asked = 0 /\ pending = << >> /\ tty = << >> /\ late = 0 /\ events = MaxEvents
  BY Zenon DEF GatewayInit, DongleInit
<1>2. ObdScript \in Seq(Commands) /\ Len(ObdScript) = 3 /\ ObdScript # << >>
  BY ScriptsAreCommands DEF ObdScript
<1>3. CanScript \in Seq(Commands) /\ CanScript # << >>
  BY ScriptsAreCommands DEF CanScript
<1>4. ThreadTypes
  BY <1>1, <1>2, <1>3, VehicleGatewayAssumption DEF ThreadTypes
<1>5. Flags /\ Retrying BY <1>1 DEF Flags, Retrying
<1>6. LinesCounted /\ PublishedType
  BY <1>1, VehicleGatewayAssumption DEF LinesCounted, PublishedType
<1>7. DongleTypes BY <1>1, ObdDongleAssumption DEF DongleTypes
<1>8. AskedInTurns BY <1>1, <1>2, <1>3 DEF AskedInTurns
<1>9. PiecesLabelled /\ InOrder /\ PiecesRecent
  BY <1>1 DEF PiecesLabelled, InOrder, PiecesRecent
<1>10. FrameSent
  BY <1>1 DEF FrameSent, NoFrame, ValueAnswersItsQuestion, StaleOnlyByLateAnswers
<1> QED BY <1>4, <1>5, <1>6, <1>7, <1>8, <1>9, <1>10 DEF IInv

\* Every step of main, of the reader, of the dongle and of the environment
\* keeps the invariant.
THEOREM InvariantStep == IInv /\ [Next]_vars => IInv'
BY FlagsKept, ThreadTypesKept, LinesCountedKept, PublishedTypeKept, DongleTypesKept,
   AskedInTurnsKept, PiecesLabelledKept, InOrderKept, PiecesRecentKept, FrameSentKept, Zenon
   DEF IInv

\* The invariant holds in every state the gateway reaches.
THEOREM InvariantHolds == Spec => []IInv
BY InvariantInit, InvariantStep, PTL DEF Spec

\* Every variable keeps its type, and the attempts to open the receiver again
\* keep their limit.
THEOREM TypeCorrect == Spec => []TypeOK
<1>1. IInv => TypeOK
  <2>1. LinesCounted /\ DongleTypes => /\ lines \in 0 .. Len(Sentences) /\ rmcs \in 0 .. lines
                                      /\ events \in 0 .. MaxEvents /\ asked \in Nat
                                      /\ positions \in Nat
    BY VehicleGatewayAssumption DEF LinesCounted, DongleTypes
  <2> QED
    BY <2>1, Zenon DEF IInv, ThreadTypes, Flags, PublishedType, TypeOK, Commands
<1> QED BY <1>1, InvariantHolds, PTL

\* No sentence of the receiver is sent twice, however often the reader
\* publishes while main is busy elsewhere.
THEOREM SentenceIsSentOnce == Spec => []SentenceSentOnce
<1>1. IInv => SentenceSentOnce
  BY VehicleGatewayAssumption DEF IInv, LinesCounted, SentenceSentOnce
<1> QED BY <1>1, InvariantHolds, PTL

\* However late the answers come, a speed is never sent as a fuel level, nor a
\* fuel level as a speed.
THEOREM ValueIsOfItsQuestion == Spec => []ValueAnswersItsQuestion
<1>1. IInv => ValueAnswersItsQuestion BY Zenon DEF IInv, FrameSent
<1> QED BY <1>1, InvariantHolds, PTL

\* A value is not older, in questions, than there were answers given up.
THEOREM ValueIsRecent == Spec => []StaleOnlyByLateAnswers
<1>1. IInv => StaleOnlyByLateAnswers BY Zenon DEF IInv, FrameSent
<1> QED BY <1>1, InvariantHolds, PTL
=============================================================================
