------------------------------ MODULE ObdDongle ------------------------------
(***************************************************************************)
(* The serial line between the vehicle gateway and its ELM327 dongle, and  *)
(* the functions of obd2.cpp that use it.                                  *)
(*                                                                         *)
(* obd2_send_command writes a command; obd2_read collects characters until *)
(* the prompt, and gives up when none comes for 100 ms or its buffer is    *)
(* full, forgetting what it collected.  Nothing empties the line before a  *)
(* command is written, so an answer that comes too late, or what is left   *)
(* of one that was too long, is read as the answer to the next command.    *)
(*                                                                         *)
(* What the line carries is cut into pieces, at the places where the       *)
(* dongle may pause: a whole answer, its head and then its tail, or a long *)
(* answer that fills the buffer before its prompt.  Each piece knows the   *)
(* number of the question it answers, as a history.                        *)
(***************************************************************************)
EXTENDS Integers, Sequences, SequencesExt

CONSTANTS
  Readings,     \* what the car reports: a sequence of four hexadecimal digits
                \* for each question, over and over
  MaxEvents     \* bound: number of events the environment causes of itself:
                \* sentences, CAN frames, odd or long answers, failing calls

ASSUME ObdDongleAssumption ==
  /\ Len(Readings) > 0
  /\ \A i \in 1 .. Len(Readings) : Readings[i] \in [1 .. 4 -> 0 .. 15]
  /\ MaxEvents \in Nat

VARIABLES
  asked,    \* number of commands written so far
  pending,  \* commands the dongle has yet to answer
  tty,      \* pieces that arrived and were not read
  tmp,      \* the piece obd2_read has collected, or none
  late,     \* history: readings given up although characters were to come
  events    \* how many events are still to come

dongleVars == <<asked, pending, tty, tmp, late, events>>

NoPiece == [cmd |-> "none", n |-> 0, part |-> "none"]

Piece(cmd, n, part) == [cmd |-> cmd, n |-> n, part |-> part]

DongleInit ==
  /\ asked = 0
  /\ pending = << >> /\ tty = << >>
  /\ tmp = NoPiece
  /\ late = 0
  /\ events = MaxEvents

Event == events > 0 /\ events' = events - 1

(***************************************************************************)
(* The dongle (external).                                                  *)
(***************************************************************************)
\* An answer arrives whole, or its second part does.
Answer ==
  /\ pending # << >>
  /\ pending' = Tail(pending)
  /\ tty' = Append(tty, Head(pending))
  /\ UNCHANGED <<asked, tmp, late, events>>

\* The dongle pauses in the middle of an answer.
AnswerHalf ==
  /\ pending # << >>
  /\ Head(pending).part = "whole"
  /\ Event
  /\ tty' = Append(tty, [Head(pending) EXCEPT !.part = "head"])
  /\ pending' = <<[Head(pending) EXCEPT !.part = "tail"]>> \o Tail(pending)
  /\ UNCHANGED <<asked, tmp, late>>

\* The car does not report the value: an error text comes instead.
AnswerNoData ==
  /\ pending # << >>
  /\ Head(pending).part = "whole"
  /\ Event
  /\ pending' = Tail(pending)
  /\ tty' = Append(tty, [Head(pending) EXCEPT !.cmd = "NO DATA"])
  /\ UNCHANGED <<asked, tmp, late>>

\* More characters than the buffer of obd2_read has room for, 512.
AnswerLong ==
  /\ pending # << >>
  /\ Event
  /\ pending' = Tail(pending)
  /\ tty' = Append(tty, [Head(pending) EXCEPT !.part = "long"])
  /\ UNCHANGED <<asked, tmp, late>>

(***************************************************************************)
(* The functions.                                                          *)
(***************************************************************************)
\* Mutant: a command is written again, although the dongle has it.
CommandSentTwice(cmd) ==
  /\ asked' = asked + 1
  /\ pending' = pending \o [i \in 1 .. 2 |-> Piece(cmd, asked + 1, "whole")]
  /\ UNCHANGED <<tty, tmp, late, events>>

obd2_send_command(cmd) ==
  /\ asked' = asked + 1
  /\ pending' = Append(pending, Piece(cmd, asked + 1, "whole"))
  /\ UNCHANGED <<tty, tmp, late, events>>

\* write fails: it returns -1, which counts as success.
CommandIsLost ==
  /\ Event
  /\ asked' = asked + 1
  /\ UNCHANGED <<pending, tty, tmp, late>>

\* What the reader holds once piece p has arrived.
Collected(p) ==
  IF p.part = "tail" /\ tmp # NoPiece THEN [p EXCEPT !.part = "whole"] ELSE p

\* Reading up to the prompt; the head of an answer has none.
ReadMore ==
  /\ tty # << >>
  /\ Head(tty).part = "head"
  /\ tmp' = Head(tty)
  /\ tty' = Tail(tty)
  /\ UNCHANGED <<asked, pending, late, events>>

ReadUpToPrompt ==
  /\ tty # << >>
  /\ Head(tty).part \notin {"head", "long"}
  /\ tmp' = NoPiece
  /\ tty' = Tail(tty)
  /\ UNCHANGED <<asked, pending, late, events>>

\* The answer obd2_read returns with ReadUpToPrompt.
AnswerRead == Collected(Head(tty))

\* Nothing for 100 ms, although an answer may still be to come.
ReadTimesOut ==
  /\ tty = << >>
  /\ tmp' = NoPiece
  /\ late' = IF pending # << >> THEN late + 1 ELSE late
  /\ UNCHANGED <<asked, pending, tty, events>>

\* The buffer is full: what is left of the answer stays on the line, with its
\* prompt, and may be anything.
ReadOverflows ==
  /\ tty # << >>
  /\ Head(tty).part = "long"
  /\ tmp' = NoPiece
  /\ \E rest \in {"whole", "tail", "long"} :
       tty' = <<[Head(tty) EXCEPT !.part = rest]>> \o Tail(tty)
  /\ late' = late + 1
  /\ UNCHANGED <<asked, pending, events>>

\* obd2_read and can_read return without an answer.
GivesUp == ReadTimesOut \/ ReadOverflows

\* Mutant: the length is checked, but not the header.
AcceptedByLength(answer, cmd) == answer.part = "whole" /\ answer.cmd # "NO DATA"

\* The length and the header of an answer that carries the value asked for.
Accepted(answer, cmd) == answer.part = "whole" /\ answer.cmd = cmd

\* atoi stops at the first character that is no decimal digit.
LeadingDecimals(digits) ==
  LET cut == SelectInSeq(digits, LAMBDA d : d > 9)
  IN IF cut = 0 THEN digits ELSE SubSeq(digits, 1, cut - 1)

InBase(b, digits) == FoldLeft(LAMBDA v, d : b * v + d, 0, digits)
Decimal(digits)   == InBase(10, LeadingDecimals(digits))

Reading(n) == Readings[1 + (n % Len(Readings))]

EngineSpeed(n) == Decimal(Reading(n)) \div 4

\* Two digits and one character that was never set, which may be a digit.
FuelLevels(n) ==
  {Decimal(<<Reading(n)[1], Reading(n)[2], stray>>) % 256 : stray \in {9, 15}}

(***************************************************************************)
(* The reader mode: the dongle copies CAN frames, one line for each.       *)
(***************************************************************************)
CanIds == {"engine speed", "fuel level", "wheel tick", "other"}

CanFrame(id) ==
  /\ pending = << >>
  /\ Event
  /\ asked' = asked + 1
  /\ \E part \in {"whole", "long"} : tty' = Append(tty, Piece(id, asked + 1, part))
  /\ UNCHANGED <<pending, tmp, late>>

\* The frame comes in two parts, with a pause between them.
CanFrameInParts(id) ==
  /\ pending = << >>
  /\ Event
  /\ asked' = asked + 1
  /\ tty' = Append(tty, Piece(id, asked + 1, "head"))
  /\ pending' = Append(pending, Piece(id, asked + 1, "tail"))
  /\ UNCHANGED <<tmp, late>>

\* can_read tells the frame by the characters it begins with.
FrameId(line) ==
  IF line.part = "tail" \/ line.cmd \notin CanIds \ {"other"} THEN "NO_MESSAGE" ELSE line.cmd

\* Conversions of the data: sscanf as hexadecimal, then a shift.
CanValue(id, n) ==
  CASE id = "engine speed" -> InBase(16, Reading(n)) \div 8
    [] id = "fuel level"   -> InBase(16, SubSeq(Reading(n), 1, 2)) \div 2
    [] id = "wheel tick"   -> InBase(16, Reading(n))
=============================================================================
