---------------------------- MODULE LogReplayer ----------------------------
(***************************************************************************)
(* The log replayer: it reads a log line by line, waits as long as the     *)
(* timestamps tell and sends each line to the port of the message it       *)
(* names.  The waiting decides when a line is sent, not which, and is left *)
(* out: any time may pass between two steps.  The log may end, a signal or *)
(* an error may end the replayer: nothing obliges it to send another line. *)
(***************************************************************************)
EXTENDS Integers, Sequences

CONSTANTS
  Lines,     \* lines a log may hold, see below
  MaxLines   \* bound: lines that are sent

\* A line: its message ("none" when no $ is found in it, as in the rest of a
\* line that did not fit into buf), whether it begins with a timestamp and
\* holds a comment sign; its countdown, whether its message parses, and the
\* values its message declares valid.
LineType == [id : STRING, timed : BOOLEAN, comment : BOOLEAN,
             countdown : Nat, parses : BOOLEAN, valid : SUBSET STRING]

ASSUME LogReplayerAssumption == Lines \subseteq LineType /\ MaxLines \in Nat

VARIABLES
  replayedId,  \* msgId of the replayer
  log          \* history: the lines sent, a datagram is its place in it

replayerVars == <<replayedId, log>>

GVGNS == {"GVGNSPOS", "GVGNSTIM", "GVGNSSAT", "GVGNSP", "GVGNSC", "GVGNSAC",
          "GVGNSVER"}
GVVEH == {"GVVEHENGSPEED", "GVVEHFUELLEVEL", "GVVEHFUELCONS", "GVVEHTOTALODO", "GVVEHVER"}

\* The ports by the prefix of the message, which the messages of a log with
\* that prefix stand for; sensors and the unknown apart.
Port(id) ==
  CASE id \in GVGNS -> "gnss"
    [] id \in GVVEH -> "vehicle"
    [] OTHER        -> "other"

ReplayerInit ==
  /\ replayedId = "none"
  /\ log = << >>

\* Comments and lines without a timestamp.
Skipped(line) == line.comment \/ ~line.timed

Skip ==
  /\ \E line \in Lines : Skipped(line)
  /\ UNCHANGED replayerVars

\* A line that names no message goes where the line before it went.
Send(line) ==
  /\ Len(log) < MaxLines
  /\ ~Skipped(line)
  /\ replayedId' = IF line.id = "none" THEN replayedId ELSE line.id
  /\ log' = Append(log, line)
=============================================================================
