----------------------------- MODULE Elm327Chip -----------------------------
(***************************************************************************)
(* The far end of the serial link: an ELM327 as adapter/elm327_emu.rs, the *)
(* emulator of the tests, describes it.  It reads one command at a time,   *)
(* takes any time to answer, and ends every answer with a prompt.  Input   *)
(* is lost while it resets; a character typed while it monitors the bus,   *)
(* or works on an OBD request, ends that and is itself discarded, so that  *)
(* what is left of the line is read as another command.  An empty line     *)
(* repeats the last command.                                               *)
(*                                                                         *)
(* A command is a name; a printed line says what it is and, for the        *)
(* properties only, which command it answers.  Nothing on the link itself  *)
(* tells that.                                                             *)
(***************************************************************************)
EXTENDS Naturals, SequencesExt

CONSTANTS
    Rejected,       \* commands that the chip may answer with "?"
    Losable,        \* commands that the chip may lose (drop_first)
    ReplyLines,     \* the most lines of an ECU's reply
    Aborts,         \* input ends an OBD request (interrupt_aborts)
    StrayPrompts,   \* a prompt is printed when monitoring begins
    SelfStops,      \* monitoring may end with BUFFER FULL (monitor_self_stop_after)
    Queue           \* bound: monitored lines are printed up to this many unread lines

ASSUME ChipAssumption ==
    /\ ReplyLines \in Nat \ {0}
    /\ Queue \in Nat
    /\ {Aborts, StrayPrompts, SelfStops} \subseteq BOOLEAN

VARIABLES
    up,         \* the link carries bytes
    input,      \* commands the host has written and the chip has not read
    output,     \* lines the chip has printed and the host has not read
    mode,       \* "idle", "busy", "reset" or "monitor"
    serving,    \* the command being answered, as it was typed, or "none"
    body,       \* lines of the answer still to be printed, the prompt not included
    last,       \* the command that an empty line repeats
    echo,       \* ATE1
    headers     \* ATH1

chipVars == <<mode, serving, body, last, echo, headers>>
linkVars == <<up, input, output>>

Obd     == {"PRE", "PID"}
Setting == {"ATE0", "ATAL", "ATSH", "ATCRA", "ATFCSH", "ATFCSD", "ATFCSM", "ATH0", "ATH1",
            "ATS1"}
\* "CR" is an empty line, "rest" the rest of a line whose first character was discarded.
Commands == Obd \cup Setting \cup {"ATZ", "ATMA", "CR", "rest"}

Prompts == {">", "stray>"}
Texts   == Prompts \cup {"ok", "?", "banner", "data", "data+h", "nodata", "negative",
                         "frame", "full"}
Lines   == [of : Commands, text : Texts]

IsPrompt(line) == line.text \in Prompts

ChipInit ==
    /\ up = FALSE
    /\ input = <<>>
    /\ output = <<>>
    /\ mode = "idle"
    /\ serving = "none"
    /\ body = <<>>
    /\ last = "none"
    /\ echo = TRUE
    /\ headers = FALSE

\* What is printed while the link is down is lost.
Emit(of, texts) ==
    output' = IF up THEN output \o [i \in 1..Len(texts) |-> [of |-> of, text |-> texts[i]]]
                    ELSE output

DataReplies(h) ==
    {[i \in 1..n |-> IF h THEN "data+h" ELSE "data"] : n \in 1..ReplyLines}

\* The answers to command c, without their prompt.
Bodies(c) ==
    IF c \in Obd THEN DataReplies(headers) \cup {<<"nodata">>, <<"negative">>}
    ELSE IF c \in {"none", "rest"} THEN {<<"?">>}
    ELSE {<<"ok">>} \cup (IF c \in Rejected THEN {<<"?">>} ELSE {})

\* The first character of the input is discarded.
OneCharacterLess ==
    IF Head(input) = "CR" THEN Tail(input) ELSE <<"rest">> \o Tail(input)

-----------------------------------------------------------------------------
\* Settings that the link does not notice need not be told apart.
Remembered(c) == IF c \in Setting \ {"ATE0", "ATH0", "ATH1"} THEN "ATAL" ELSE c

\* The next command is read; an empty line stands for the last one.
TakeCommand ==
    /\ mode = "idle"
    /\ input # <<>>
    /\ input' = Tail(input)
    /\ serving' = Head(input)
    /\ last' = IF Head(input) = "CR" THEN last ELSE Remembered(Head(input))
    /\ UNCHANGED up

StartReset ==
    /\ TakeCommand
    /\ last' = "ATZ"
    /\ mode' = "reset"
    /\ UNCHANGED <<output, body, echo, headers>>

StartMonitor ==
    /\ TakeCommand
    /\ last' = "ATMA"
    /\ mode' = "monitor"
    /\ Emit(serving', IF StrayPrompts THEN <<"stray>">> ELSE <<>>)
    /\ UNCHANGED <<body, echo, headers>>

StartAnswer ==
    /\ TakeCommand
    /\ last' \notin {"ATZ", "ATMA"}
    /\ mode' = "busy"
    /\ body' \in Bodies(IF serving' = "CR" THEN last' ELSE serving')
    /\ echo' = (echo /\ last' # "ATE0")
    /\ headers' = (last' = "ATH1" \/ (headers /\ last' # "ATH0"))
    /\ UNCHANGED output

LoseCommand ==
    /\ input # <<>>
    /\ mode = "reset" \/ (mode = "idle" /\ Head(input) \in Losable)
    /\ input' = Tail(input)
    /\ UNCHANGED <<up, output, chipVars>>

PrintLine ==
    /\ mode = "busy"
    /\ body # <<>>
    /\ Emit(serving, <<Head(body)>>)
    /\ body' = Tail(body)
    /\ UNCHANGED <<up, input, mode, serving, last, echo, headers>>

PrintPrompt ==
    /\ mode = "busy"
    /\ body = <<>>
    /\ Emit(serving, <<">">>)
    /\ mode' = "idle"
    /\ serving' = "none"
    /\ UNCHANGED <<up, input, body, last, echo, headers>>

InterruptRequest ==
    /\ Aborts
    /\ mode = "busy"
    /\ last \in Obd
    /\ input # <<>>
    /\ input' = OneCharacterLess
    /\ Emit(serving, <<">">>)
    /\ mode' = "idle"
    /\ serving' = "none"
    /\ body' = <<>>
    /\ UNCHANGED <<up, last, echo, headers>>

ResetDone ==
    /\ mode = "reset"
    /\ Emit(serving, <<"banner", ">">>)
    /\ mode' = "idle"
    /\ serving' = "none"
    /\ last' = "none"
    /\ echo' = TRUE
    /\ headers' = FALSE
    /\ UNCHANGED <<up, input, body>>

MonitorFrame ==
    /\ mode = "monitor"
    /\ Len(output) < Queue
    /\ Emit(serving, <<"frame">>)
    /\ UNCHANGED <<up, input, chipVars>>

\* A character arrives: perhaps one more line, then the prompt.
MonitorStop ==
    /\ mode = "monitor"
    /\ input # <<>>
    /\ input' = OneCharacterLess
    /\ mode' = "busy"
    /\ body' \in {<<>>, <<"frame">>}
    /\ UNCHANGED <<up, output, serving, last, echo, headers>>

MonitorSelfStop ==
    /\ SelfStops
    /\ mode = "monitor"
    /\ mode' = "busy"
    /\ body' = <<"full">>
    /\ UNCHANGED <<linkVars, serving, last, echo, headers>>

ChipStep ==
    \/ StartReset \/ StartMonitor \/ StartAnswer \/ LoseCommand
    \/ PrintLine \/ PrintPrompt \/ InterruptRequest \/ ResetDone
    \/ MonitorFrame \/ MonitorStop

\* The chip loses its power; or the link breaks, and what it has delivered can be read.
PowerCycle ==
    /\ mode' = "idle"
    /\ serving' = "none"
    /\ body' = <<>>
    /\ last' = "none"
    /\ echo' = TRUE
    /\ headers' = FALSE
    /\ up' = FALSE
    /\ input' = <<>>
    /\ UNCHANGED output

LinkLost ==
    /\ up
    /\ up' = FALSE
    /\ input' = <<>>
    /\ UNCHANGED <<output, chipVars>>

\* Nothing more will come unless the host writes, or the monitored bus talks.
Settled == input = <<>> /\ mode \in {"idle", "monitor"}

ChipTypeOK ==
    /\ up \in BOOLEAN
    /\ input \in Seq(Commands)
    /\ output \in Seq(Lines)
    /\ mode \in {"idle", "busy", "reset", "monitor"}
    /\ serving \in Commands \cup {"none"}
    /\ body \in Seq(Texts)
    /\ last \in Commands \cup {"none"}
    /\ echo \in BOOLEAN
    /\ headers \in BOOLEAN
=============================================================================
