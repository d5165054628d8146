---------------------------- MODULE Elm327Session ----------------------------
(***************************************************************************)
(* adapter/elm327.rs: the daemon's end of the link to an ELM327, as the    *)
(* Bluetooth and USB adapters drive it: connect (probe, init), then cycles *)
(* that poll every source of the profile.                                  *)
(*                                                                         *)
(* The replies of the chip carry no identity: what is read up to the next  *)
(* prompt is taken as the answer to the command written last.  The code    *)
(* keeps the two in step with timeouts, with out_of_sync and resync, and   *)
(* by draining its input.                                                  *)
(*                                                                         *)
(* What is left of the operation under way is the sequence `todo` of its   *)
(* steps; pc says how far the first of them is.  There is no clock: the    *)
(* read windows of the code elapse when the chip has nothing more to send  *)
(* (Settled), or, for the windows named in Late, at any time, as when chip *)
(* or link are slower than the window.                                     *)
(***************************************************************************)
EXTENDS Elm327Chip

CONSTANTS
    Probes,      \* the adapters: whether they probe the link before init (Bluetooth does)
    InitList,    \* the init commands
    Sources,     \* the sources of the profile: "uds", "multiframe" or "broadcast"
    MaxLines,    \* MAX_REPLY_LINES
    Late         \* windows that may be shorter than what the chip takes

Windows == {"reply", "resync", "probe", "prompt", "drain", "line", "deadline", "scan"}

ASSUME SessionAssumption ==
    /\ Probes \subseteq BOOLEAN
    /\ InitList \in Seq({"ATZ"} \cup Setting)
    /\ Sources \in Seq({"uds", "multiframe", "broadcast"})
    /\ MaxLines \in Nat \ {0}
    /\ Late \subseteq Windows

VARIABLES
    pc,          \* where the session's task is
    todo,        \* the steps left of the operation under way
    source,      \* the source being polled, as an index; 0 while connecting
    outOfSync,   \* out_of_sync
    count,       \* lines read so far in the line loop or the scan
    probes       \* which adapter this is

sessionVars == <<pc, todo, source, outOfSync, count, probes>>
vars == <<linkVars, chipVars, sessionVars>>

PcStates == {"closed", "rest", "ready", "resync", "reply", "await", "drain", "lines", "scan"}

-----------------------------------------------------------------------------
(* Steps and scripts *)

\* `how` says what to do with the reply or with an error, see Failed and Replied.
Send(c, how) == [do |-> "reply", cmd |-> c, how |-> how]
Probe        == [do |-> "await", cmd |-> "CR", how |-> "probe"]
StopMonitor  == [do |-> "await", cmd |-> "CR", how |-> "try"]
AwaitPrompt  == [do |-> "await", cmd |-> "none", how |-> "try"]
Drain(how)   == [do |-> "drain", cmd |-> "none", how |-> how]
GiveUp       == [do |-> "fail", cmd |-> "none", how |-> "must"]
ReadLines    == [do |-> "lines", cmd |-> "PID", how |-> "must"]
Scan         == [do |-> "scan", cmd |-> "ATMA", how |-> "must"]

InitStep(c) == Send(c, IF c = "ATE0" THEN "ate0" ELSE IF c = "ATZ" THEN "atz" ELSE "must")

InitScript ==
    <<Drain("try")>>
      \o [i \in 1..Len(InitList) |-> InitStep(InitList[i])]
      \o (IF Contains(InitList, "ATE0") THEN <<>> ELSE <<Send("ATE0", "ate0")>>)

ConnectScript == (IF probes THEN <<Probe>> ELSE <<>>) \o InitScript

\* Variant with a fault: headers are taken to be off already.
UdsSetupKeepsHeaders ==
    <<Send("ATSH", "header"), Send("ATCRA", "header"), Send("ATFCSH", "header"),
      Send("ATFCSD", "must"), Send("ATFCSM", "must"), Send("PRE", "try")>>

UdsSetup ==
    <<Send("ATSH", "header"), Send("ATCRA", "header"), Send("ATFCSH", "header"),
      Send("ATFCSD", "must"), Send("ATFCSM", "must"), Send("ATH0", "must"),
      Send("PRE", "try")>>

SourceScript(kind) ==
    IF kind = "uds" THEN Append(UdsSetup, Send("PID", "must"))
    ELSE IF kind = "multiframe" THEN Append(UdsSetup, ReadLines)
    ELSE <<Send("ATH1", "broadcast"), Scan>>

\* What follows the line loop of a multiframe poll, and the scan of a broadcast.
AfterLines == <<Send("ATH0", "try"), Send("ATS1", "try"), Send("ATCRA", "try")>>
AfterError == <<AwaitPrompt, Send("ATH0", "try"), GiveUp>>
AfterScan  == <<Send("ATCRA", "try"), Send("ATH0", "try")>>

-----------------------------------------------------------------------------
Init ==
    /\ ChipInit
    /\ pc = "closed"
    /\ todo = <<>>
    /\ source = 0
    /\ outOfSync = FALSE
    /\ count = 0
    /\ probes \in Probes

\* Helpers.  The task goes on with steps s.
GoOn(s) ==
    /\ pc' = "ready"
    /\ todo' = s

Step(p) == pc = p /\ UNCHANGED chipVars

\* The first prompt among the unread lines, or 0.
PromptAt  == SelectInSeq(output, IsPrompt)
HasPrompt == PromptAt # 0
Reply     == ToSet(SubSeq(output, 1, PromptAt))

ReadReply  == output' = SubSeq(output, PromptAt + 1, Len(output))
DiscardAll == output' = <<>>

\* The window w is over, and nothing that could be read is there.
Elapsed(w) == w \in Late \/ Settled \/ ~up

Write(c) == input' = IF up THEN Append(input, c) ELSE input

\* The operation ends with an error.  A lost link ends the cycle too, and `run` then
\* drops the session; an error of connect leaves no session either.
Fail(lost) ==
    /\ todo' = <<>>
    /\ pc' = IF lost \/ source = 0 THEN "closed" ELSE "ready"

\* Variant with a fault: ATE0 is not tried again.
RetryAte0DrainsOnly == <<Drain("clear")>> \o Tail(todo)

\* ATE0 without an OK: drain, and try once more.
RetryAte0 == <<Drain("clear"), Send("ATE0", "ate0again")>> \o Tail(todo)

\* The command fails: why is "timeout", "eof" or "nodata".
Failed(why) ==
    LET how == Head(todo).how
    IN  IF how = "try" \/ (how = "broadcast" /\ why # "timeout")
          THEN GoOn(Tail(todo))
          ELSE IF how = "ate0" THEN GoOn(RetryAte0)
          ELSE Fail(why # "nodata")

\* The command is answered by the lines with these texts.
Replied(texts) ==
    LET how == Head(todo).how
    IN  IF "nodata" \in texts THEN Failed("nodata")
        ELSE IF how = "header" /\ "?" \in texts THEN Fail(FALSE)
        ELSE IF how = "ate0" /\ "ok" \notin texts THEN GoOn(RetryAte0)
        ELSE IF how = "ate0again" /\ "ok" \notin texts THEN Fail(FALSE)
        ELSE IF how = "atz"
          THEN GoOn((IF texts \subseteq Prompts \cup {"?"} THEN <<AwaitPrompt>> ELSE <<>>)
                      \o <<Drain("try")>> \o Tail(todo))
        ELSE GoOn(Tail(todo))

-----------------------------------------------------------------------------
(* Operations begin and end *)

\* The adapter opens the link, on which a stale prompt may wait.
Connect ==
    /\ Step("closed")
    /\ up' = TRUE
    /\ input' = <<>>
    /\ output' \in {<<>>, <<[of |-> "rest", text |-> ">"]>>}
    /\ source' = 0
    /\ outOfSync' = FALSE
    /\ GoOn(ConnectScript)
    /\ UNCHANGED count

StartSource(i) ==
    /\ source' = i
    /\ GoOn(SourceScript(Sources[i]))

StartCycle ==
    /\ Step("rest")
    /\ Sources # <<>>
    /\ StartSource(1)
    /\ UNCHANGED <<linkVars, outOfSync, count>>

\* The operation is over; poll_sources goes on with the next source.
Finish ==
    /\ Step("ready")
    /\ todo = <<>>
    /\ \/ /\ source \in 1..(Len(Sources) - 1)
          /\ StartSource(source + 1)
       \/ /\ source \in {0, Len(Sources)}
          /\ pc' = "rest"
          /\ UNCHANGED <<todo, source>>
    /\ UNCHANGED <<linkVars, outOfSync, count>>

\* `run` drops the call or the session, and disconnects.
Disconnect ==
    /\ pc # "closed"
    /\ pc' = "closed"
    /\ todo' = <<>>
    /\ up' = FALSE
    /\ input' = <<>>
    /\ output' = <<>>
    /\ count' = 0
    /\ UNCHANGED <<chipVars, source, outOfSync>>

-----------------------------------------------------------------------------
(* Commands *)

\* Read windows that need nothing to be written begin at once.
StartRead ==
    /\ Step("ready")
    /\ todo # <<>>
    /\ Head(todo).cmd = "none"
    /\ Head(todo).do # "fail"
    /\ pc' = Head(todo).do
    /\ UNCHANGED <<linkVars, todo, source, outOfSync, count>>

StartGiveUp ==
    /\ Step("ready")
    /\ todo # <<>>
    /\ Head(todo).do = "fail"
    /\ Fail(FALSE)
    /\ UNCHANGED <<linkVars, source, outOfSync, count>>

\* A command is written, unless a late reply must be read first.  A bare CR never waits.
StartWrite ==
    /\ Step("ready")
    /\ todo # <<>>
    /\ Head(todo).cmd # "none"
    /\ IF outOfSync /\ Head(todo).cmd # "CR"
         THEN pc' = "resync" /\ UNCHANGED input
         ELSE pc' = Head(todo).do /\ Write(Head(todo).cmd)
    /\ UNCHANGED <<up, output, todo, source, outOfSync, count>>

Resynced ==
    /\ Step("resync")
    /\ HasPrompt
    /\ ReadReply
    /\ outOfSync' = FALSE
    /\ Write(Head(todo).cmd)
    /\ pc' = Head(todo).do
    /\ UNCHANGED <<up, todo, source, count>>

ResyncFailed ==
    /\ Step("resync")
    /\ ~HasPrompt
    /\ Elapsed("resync")
    /\ DiscardAll
    /\ Failed("timeout")
    /\ UNCHANGED <<up, input, source, outOfSync, count>>

ReplyRead ==
    /\ Step("reply")
    /\ HasPrompt
    /\ ReadReply
    /\ Replied({l.text : l \in Reply})
    /\ UNCHANGED <<up, input, source, outOfSync, count>>

\* Variant with a fault: out_of_sync is not set.
ReplyTimedOutForgotten ==
    /\ Step("reply")
    /\ up
    /\ ~HasPrompt
    /\ Elapsed("reply")
    /\ DiscardAll
    /\ Failed("timeout")
    /\ UNCHANGED <<up, input, source, outOfSync, count>>

\* Variant with a fault: a reply is awaited for ever.
ReplyAwaited == FALSE

ReplyTimedOut ==
    /\ Step("reply")
    /\ up
    /\ ~HasPrompt
    /\ Elapsed("reply")
    /\ DiscardAll
    /\ outOfSync' = TRUE
    /\ Failed("timeout")
    /\ UNCHANGED <<up, input, source, count>>

ReplyEof ==
    /\ Step("reply")
    /\ ~up
    /\ ~HasPrompt
    /\ DiscardAll
    /\ Failed("eof")
    /\ UNCHANGED <<up, input, source, outOfSync, count>>

\* read_until_prompt: whether the prompt was found is ignored, but by the probe, which
\* also discards what it read behind the prompt.
PromptRead ==
    /\ Step("await")
    /\ HasPrompt
    /\ \/ ReadReply
       \/ Head(todo).how = "probe" /\ DiscardAll
    /\ GoOn(Tail(todo))
    /\ UNCHANGED <<up, input, source, outOfSync, count>>

PromptMissed ==
    /\ Step("await")
    /\ ~HasPrompt
    /\ Elapsed(IF Head(todo).how = "probe" THEN "probe" ELSE "prompt")
    /\ DiscardAll
    /\ IF Head(todo).how = "probe" /\ ~up THEN Fail(TRUE) ELSE GoOn(Tail(todo))
    /\ UNCHANGED <<up, input, source, outOfSync, count>>

\* drain_input
DrainRead ==
    /\ Step("drain")
    /\ output # <<>>
    /\ DiscardAll
    /\ UNCHANGED <<up, input, pc, todo, source, outOfSync, count>>

\* It is quiet, or has not been for too long: the bus talks, and the chip has seen every
\* character by then.  After an ATE0 that got no OK the drain stands for the resync.
DrainOver ==
    /\ Step("drain")
    /\ \/ output = <<>> /\ Elapsed("drain")
       \/ up /\ mode = "monitor" /\ (input = <<>> \/ "drain" \in Late)
    /\ outOfSync' = (outOfSync /\ Head(todo).how # "clear")
    /\ GoOn(Tail(todo))
    /\ UNCHANGED <<linkVars, source, count>>

-----------------------------------------------------------------------------
(* poll_uds_pid_multiframe: the line loop *)

\* The loop is left; steps s follow.
Leave(s) ==
    /\ GoOn(s \o Tail(todo))
    /\ count' = 0

LineRead ==
    /\ Step("lines")
    /\ output # <<>>
    /\ output' = Tail(output)
    /\ \/ /\ IsPrompt(Head(output))
          /\ Leave(AfterLines)
       \/ /\ Head(output).text \in {"nodata", "negative"}
          /\ Leave(AfterError)
       \/ /\ Head(output).text \notin Prompts \cup {"nodata", "negative"}
          /\ count + 1 < MaxLines
          /\ count' = count + 1
          /\ UNCHANGED <<pc, todo>>
       \/ /\ Head(output).text \notin Prompts \cup {"nodata", "negative"}
          /\ count + 1 = MaxLines
          /\ Leave(<<AwaitPrompt>> \o AfterLines)
    /\ UNCHANGED <<up, input, source, outOfSync>>

\* Variant with a fault: the rest of the reply is not consumed.
LinesTimedOutLeavesRest ==
    /\ Step("lines")
    /\ \/ up /\ output = <<>> /\ Elapsed("line")
       \/ "deadline" \in Late
    /\ Leave(AfterLines)
    /\ UNCHANGED <<linkVars, source, outOfSync>>

\* No line in time, or the reply takes too long as a whole.
LinesTimedOut ==
    /\ Step("lines")
    /\ \/ up /\ output = <<>> /\ Elapsed("line")
       \/ "deadline" \in Late
    /\ Leave(<<AwaitPrompt>> \o AfterLines)
    /\ UNCHANGED <<linkVars, source, outOfSync>>

\* End of file in the line loop, or in the scan.
LinesEof ==
    /\ pc \in {"lines", "scan"}
    /\ ~up
    /\ output = <<>>
    /\ Fail(TRUE)
    /\ count' = 0
    /\ UNCHANGED <<linkVars, chipVars, source, outOfSync>>

-----------------------------------------------------------------------------
(* monitor_broadcast: the scan; count tells whether there was a line *)

\* The scan ends while the chip is monitoring, unless a prompt can be on its way.
MayEndScan == "scan" \in Late \/ (input = <<>> /\ mode = "monitor" /\ ~HasPrompt)

\* Variant with a fault: the stop CR is always sent.
ScanReadAlwaysStops ==
    /\ Step("scan")
    /\ output # <<>>
    /\ output' = Tail(output)
    /\ \/ /\ IsPrompt(Head(output))
          /\ count = 0
          /\ UNCHANGED <<pc, todo, count>>
       \/ /\ IsPrompt(Head(output))
          /\ count > 0
          /\ Leave(<<StopMonitor>> \o AfterScan)
       \/ /\ ~IsPrompt(Head(output))
          /\ count' = 1
          /\ UNCHANGED <<pc, todo>>
    /\ UNCHANGED <<up, input, source, outOfSync>>

\* A prompt before any line does not end the scan, one after a line does.
ScanRead ==
    /\ Step("scan")
    /\ output # <<>>
    /\ output' = Tail(output)
    /\ \/ /\ IsPrompt(Head(output))
          /\ count = 0
          /\ UNCHANGED <<pc, todo, count>>
       \/ /\ IsPrompt(Head(output))
          /\ count > 0
          /\ Leave(AfterScan)
       \/ /\ ~IsPrompt(Head(output))
          /\ count' = 1
          /\ UNCHANGED <<pc, todo>>
       \/ /\ Head(output).text = "frame"      \* the last one that stop_when asks for
          /\ MayEndScan
          /\ Leave(<<StopMonitor>> \o AfterScan)
    /\ UNCHANGED <<up, input, source, outOfSync>>

\* No line for too long, or the deadline.
ScanOver ==
    /\ Step("scan")
    /\ up
    /\ MayEndScan
    /\ Leave(<<StopMonitor>> \o AfterScan)
    /\ UNCHANGED <<linkVars, source, outOfSync>>

-----------------------------------------------------------------------------
SessionStep ==
    \/ Connect \/ StartCycle \/ Finish
    \/ StartRead \/ StartGiveUp \/ StartWrite
    \/ Resynced \/ ResyncFailed \/ ReplyRead \/ ReplyTimedOut \/ ReplyEof
    \/ PromptRead \/ PromptMissed \/ DrainRead \/ DrainOver
    \/ LineRead \/ LinesTimedOut \/ LinesEof \/ ScanRead \/ ScanOver

\* The chip leaves monitoring by itself; while a stop is under way only if the end of
\* the scan may cross with it.
SelfStop ==
    /\ MonitorSelfStop
    /\ ~("scan" \notin Late /\ todo # <<>> /\ Head(todo) = StopMonitor)

Next ==
    \/ (SessionStep \/ Disconnect) /\ UNCHANGED probes
    \/ (ChipStep \/ SelfStop \/ PowerCycle \/ LinkLost) /\ UNCHANGED sessionVars

Fairness ==
    /\ WF_vars(SessionStep /\ UNCHANGED probes)
    /\ WF_vars(DrainOver /\ UNCHANGED probes)
    /\ WF_vars(ScanOver /\ UNCHANGED probes)
    /\ WF_vars(ChipStep /\ UNCHANGED sessionVars)
    /\ WF_vars(MonitorStop /\ UNCHANGED sessionVars)

Spec == Init /\ [][Next]_vars /\ Fairness

-----------------------------------------------------------------------------
TypeOK ==
    /\ ChipTypeOK
    /\ pc \in PcStates
    /\ source \in 0..Len(Sources)
    /\ outOfSync \in BOOLEAN
    /\ count \in 0..MaxLines
    /\ probes \in Probes
    /\ pc \notin {"closed", "rest", "ready"} => todo # <<>>

\* A session exists.
Connected == pc = "rest" \/ (pc # "closed" /\ source > 0)

Polling == source > 0 /\ pc # "closed"

\* The lines that the next read would take as the answer to the command at hand.
Answer ==
    IF pc = "reply" /\ HasPrompt THEN Reply
    ELSE IF pc \in {"lines", "scan"} /\ output # <<>> THEN {Head(output)}
    ELSE {}

\* Between two cycles nothing of an earlier exchange is left anywhere, neither on the
\* link nor in the chip, unless out_of_sync remembers that a reply is outstanding: every
\* way out of an operation, errors and early exits included, consumes what it asked for.
InStep == pc = "rest" /\ up /\ ~outOfSync => input = <<>> /\ output = <<>> /\ mode = "idle"

\* The variables have their types, and the two ends are in step between cycles.
IInv == TypeOK /\ InStep

\* While sources are polled, whatever is read as the answer to a command was printed for
\* that command, though nothing in the text says so: no timeout, rejected command, error
\* reply, line cap or late prompt shifts the replies (send_cmd, the multiframe loop and
\* the scan).
RepliesMatch == Polling => \A l \in Answer : l.of = Head(todo).cmd

\* The parsers of UDS replies, single frame and multiframe, never see a CAN-ID prefix,
\* though the profile's init, a broadcast source and the source before this one may all
\* have left headers on (get_payload expects headers off).
DecodedWithoutHeaders ==
    Polling /\ Answer # {} /\ Head(todo).cmd = "PID" => \A l \in Answer : l.text # "data+h"

\* A session only exists over a chip that does not echo, even when ATE0 was lost or a
\* late banner was taken for its reply: echo left on shifts every reply (send_ate0).
\* A chip that lost its power has lost the link too.
EchoIsOff == Connected /\ up => ~echo

\* A CR that stops a scan never reaches an idle chip, where it would repeat ATMA and
\* have the next command's first character taken as the stop (monitor_broadcast).
OnlyMonitoringIsStopped ==
    Polling /\ up /\ input # <<>> /\ Head(input) = "CR" => mode # "idle"

\* When the chip has left monitoring and printed its prompt, no stop character is sent
\* (the comments of monitor_broadcast and of its test).
NoStopAfterPrompt ==
    Polling /\ pc = "ready" /\ todo # <<>> /\ Head(todo) = StopMonitor => ~HasPrompt

\* Every connect and every cycle comes to an end, whatever chip and link do.
OperationsEnd == pc \notin {"closed", "rest"} ~> pc \in {"closed", "rest"}

-----------------------------------------------------------------------------
(* Why the replies match: an inductive invariant, for an init list that begins with its one *)
(* ATZ and windows that the session does not get over when they are too short             *)

Timely == Late \cap {"prompt", "drain", "scan"} = {}

ResetFirst ==
    /\ InitList # <<>> /\ InitList[1] = "ATZ"
    /\ \A k \in 2..Len(InitList) : InitList[k] # "ATZ"

ResetStep == Send("ATZ", "atz")
InitSteps == {Send(c, "must") : c \in Setting \ {"ATE0"}}
               \cup {Send("ATE0", "ate0"), Send("ATE0", "ate0again"), Drain("clear")}
Tried     == {"PRE", "ATH0", "ATS1", "ATCRA"}
PollSteps == {Send(c, "header") : c \in {"ATSH", "ATCRA", "ATFCSH"}}
               \cup {Send(c, "must") : c \in {"ATFCSD", "ATFCSM", "ATH0", "PID"}}
               \cup {Send(c, "try") : c \in Tried}
               \cup {Send("ATH1", "broadcast"), ReadLines, Scan, AwaitPrompt, StopMonitor, GiveUp}

SilencesEcho(s) == \E k \in 1..Len(s) : s[k].cmd = "ATE0"
HidesHeaders(s) ==
    \A k \in 1..Len(s) : s[k].cmd = "PID" => \E j \in 1..(k - 1) : s[j] = Send("ATH0", "must")

PollTodo(s) ==
    /\ s \in Seq(PollSteps)
    /\ \A k \in 2..Len(s) : s[k].do # "await"
    /\ \A k \in 1..(Len(s) - 1) : s[k].do \notin {"lines", "scan"}
    /\ \A j, k \in 1..Len(s) : j < k /\ s[j].cmd = "ATH1" => s[k].cmd # "PID"

\* The point of the task and the first step agree.
AtStep ==
    /\ pc \in {"reply", "await", "drain", "lines", "scan"} => todo # <<>> /\ Head(todo).do = pc
    /\ pc = "resync" => todo # <<>> /\ Head(todo).do \in {"reply", "lines", "scan"}
    /\ pc \notin {"lines", "scan"} => count = 0

-----------------------------------------------------------------------------
\* Nothing is under way.
Quiet == output = <<>> /\ (up => input = <<>> /\ mode = "idle")

\* What was printed answers c; its prompt, if there is one, is the last line.  A stray one can
\* only be the first line of a scan.
Answers(c) ==
    \A k \in 1..Len(output) :
      /\ output[k].of = c
      /\ output[k].text = ">" => k = Len(output)
      /\ output[k].text = "stray>" => k = 1 /\ pc = "scan" /\ count = 0

Ended == output # <<>> /\ output[Len(output)].text = ">"

Stopping == pc = "await" /\ Head(todo) = StopMonitor

\* Command c is on its way to the chip, is being answered, was answered or was lost.
Exchange(c) ==
    /\ Answers(c)
    /\ up => \/ /\ input = <<c>> /\ mode = "idle" /\ output = <<>>
                /\ c = "ATMA" => pc = "scan" /\ count = 0
             \/ input = <<>> /\ mode = "idle" /\ (output = <<>> \/ Ended)
             \/ input = <<>> /\ mode = "busy" /\ serving = c /\ ~Ended
             \/ /\ mode = "monitor" /\ c = "ATMA" /\ serving = c /\ ~Ended
                /\ input = IF Stopping THEN <<"CR">> ELSE <<>>

\* A prompt is awaited: the rest of a reply, or the end of a scan.
AwaitsRest == pc \in {"ready", "await"} /\ todo # <<>> /\ Head(todo) = AwaitPrompt
AwaitsStop == pc \in {"ready", "await"} /\ todo # <<>> /\ Head(todo) = StopMonitor
Reading    == pc \in {"reply", "lines", "scan"}

\* Both ends agree on what is under way.
Pipeline ==
    /\ outOfSync => /\ ~(AwaitsRest \/ AwaitsStop \/ Reading)
                    /\ \E c \in Tried \cup {"ATE0"} : Exchange(c)
    /\ Reading => Exchange(Head(todo).cmd)
    /\ AwaitsRest => Exchange("PID")
    /\ AwaitsStop => Exchange("ATMA")
    /\ AwaitsStop /\ pc = "ready" =>
         (up => mode = "monitor") /\ \A k \in 1..Len(output) : output[k].text \notin Prompts
    /\ ~(outOfSync \/ AwaitsRest \/ AwaitsStop \/ Reading) => Quiet
    /\ pc = "resync" => outOfSync

\* Settings that were sent are in force once the chip has begun to answer.
Begun == up /\ (output # <<>> \/ mode = "busy")

SettingsInForce ==
    /\ up /\ echo => source = 0 /\ SilencesEcho(todo)
    /\ pc = "reply" /\ Head(todo).cmd = "ATE0" /\ Begun => ~echo
    /\ up /\ headers => HidesHeaders(todo)
    /\ pc = "reply" /\ Head(todo).cmd = "ATH0" /\ Begun => ~headers
    /\ Reading /\ Head(todo).cmd = "PID" =>
         /\ \A k \in 1..Len(output) : output[k].text # "data+h"
         /\ up /\ mode = "busy" => \A k \in 1..Len(body) : body[k] # "data+h"

Synced ==
    /\ IF source = 0 THEN todo \in Seq(InitSteps) ELSE PollTodo(todo)
    /\ pc = "rest" => todo = <<>>
    /\ Pipeline
    /\ SettingsInForce

\* The part of a connect up to the drain that follows the reset.
AfterReset(s) == s \in Seq(InitSteps) /\ SilencesEcho(s)
FromReset(s)  == s # <<>> /\ Head(s) = ResetStep /\ AfterReset(Tail(s))
FromDrain(s)  == s # <<>> /\ Head(s) = Drain("try") /\ FromReset(Tail(s))
LastDrain(s)  == s # <<>> /\ Head(s) = Drain("try") /\ AfterReset(Tail(s))
LastAwait(s)  == s # <<>> /\ Head(s) = AwaitPrompt /\ LastDrain(Tail(s))
FromProbe(s)  == s # <<>> /\ Head(s) = Probe /\ FromDrain(Tail(s))

\* The reset was typed: a chip that was monitoring stops, and never begins again.
ResetSent ==
    up => /\ input \in {<<>>, <<"ATZ">>, <<"rest">>}
          /\ mode = "monitor" => input = <<"ATZ">>

Greeting ==
    /\ source = 0 /\ ~outOfSync /\ pc \notin {"rest", "resync"}
    /\ \/ FromProbe(todo)
       \/ FromDrain(todo)
       \/ FromReset(todo) /\ (pc = "ready" => (up => input = <<>>)) /\ (pc # "ready" => ResetSent)
       \/ (LastAwait(todo) \/ LastDrain(todo)) /\ ResetSent

\* What the chip is at has a command, and no prompt of its own.
Working ==
    /\ mode # "idle" => serving # "none"
    /\ \A k \in 1..Len(body) : body[k] \notin Prompts

SessionInv ==
    /\ TypeOK
    /\ Working
    /\ AtStep
    /\ pc # "closed" => Greeting \/ Synced

=============================================================================
