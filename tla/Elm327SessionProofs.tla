--------------------------- MODULE Elm327SessionProofs ---------------------------
(***************************************************************************)
(* Proof that the two ends of the link to an ELM327 stay in step, for any  *)
(* profile, any commands that the chip loses or rejects, and any windows   *)
(* that are too short but for prompt, drain and scan.                      *)
(*                                                                         *)
(* The invariant says of every point of the session's task which command   *)
(* is under way, at which of its stages the chip may then be, and what it  *)
(* can have printed.  A connect is exempt up to the drain behind its ATZ:  *)
(* what the link and the chip hold until then is anyone's.                 *)
(***************************************************************************)
EXTENDS Elm327Session, Integers, WellFoundedInduction, NaturalsInduction, TLAPS

-----------------------------------------------------------------------------
(* The first prompt *)

LEMMA Least ==
  ASSUME NEW T, T \subseteq Nat, T # {}
  PROVE  Min(T) \in T /\ \A y \in T : Min(T) <= y
<1>1. IsWellFoundedOn(OpToRel(<, Nat), Nat)
  BY NatLessThanWellFounded
<1>2. PICK x \in T : \A y \in T : ~(<<y, x>> \in OpToRel(<, Nat))
  BY <1>1, WFMin
<1>3. \A y \in T : y < x => <<y, x>> \in OpToRel(<, Nat)
  BY DEF OpToRel
<1>4. \A y \in T : ~(y < x)
  BY <1>2, <1>3
<1>5. x \in Nat /\ \A y \in T : y \in Nat
  OBVIOUS
<1>6. \A y \in T : x <= y
  BY ONLY <1>4, <1>5
<1> QED BY <1>6 DEF Min

LEMMA FirstPrompt ==
  ASSUME output \in Seq(Lines)
  PROVE  /\ PromptAt \in 0..Len(output)
         /\ HasPrompt <=> \E k \in 1..Len(output) : IsPrompt(output[k])
         /\ HasPrompt => /\ PromptAt \in 1..Len(output) /\ IsPrompt(output[PromptAt])
                         /\ \A k \in 1..(PromptAt - 1) : ~IsPrompt(output[k])
         /\ Reply = {output[k] : k \in 1..PromptAt}
<1> DEFINE P == {k \in 1..Len(output) : IsPrompt(output[k])}
<1>1. PromptAt = IF P # {} THEN Min(P) ELSE 0
  BY DEF PromptAt, SelectInSeq
<1>2. P \subseteq Nat
  OBVIOUS
<1>3. P # {} => PromptAt \in P /\ \A y \in P : PromptAt <= y
  BY <1>1, <1>2, Least
<1>4. P = {} => PromptAt = 0
  BY <1>1
<1>5. Len(output) \in Nat
  OBVIOUS
<1> HIDE DEF PromptAt
<1>6. PromptAt \in 0..Len(output) /\ (P # {} => PromptAt \in 1..Len(output))
  BY <1>3, <1>4, <1>5
<1>7. HasPrompt <=> P # {}
  BY <1>3, <1>4 DEF HasPrompt
<1>8. Reply = {output[k] : k \in 1..PromptAt}
  <2>1. SubSeq(output, 1, PromptAt) = [k \in 1..PromptAt |-> output[k]]
    BY <1>5, <1>6
  <2>2. Len(SubSeq(output, 1, PromptAt)) = PromptAt
    BY <1>6, <2>1
  <2> QED BY <1>6, <2>1, <2>2 DEF Reply, ToSet
<1>9. HasPrompt => \A k \in 1..(PromptAt - 1) : ~IsPrompt(output[k])
  <2> SUFFICES ASSUME HasPrompt, NEW k \in 1..(PromptAt - 1), IsPrompt(output[k]) PROVE FALSE
    OBVIOUS
  <2>1. k \in 1..Len(output)
    BY <1>5, <1>6
  <2>2. PromptAt <= k
    BY <1>3, <2>1
  <2> QED BY <1>6, <2>2
<1> QED BY <1>3, <1>6, <1>7, <1>8, <1>9

-----------------------------------------------------------------------------
(* The chip by itself *)

LEMMA Emitted ==
  ASSUME output \in Seq(Lines), NEW c \in Commands, NEW ts \in Seq(Texts), Emit(c, ts)
  PROVE  /\ output' \in Seq(Lines)
         /\ ~up => output' = output
         /\ up => /\ Len(output') = Len(output) + Len(ts)
                  /\ \A k \in 1..Len(output) : output'[k] = output[k]
                  /\ \A k \in 1..Len(ts) : output'[Len(output) + k] = [of |-> c, text |-> ts[k]]
<1> DEFINE new == [i \in 1..Len(ts) |-> [of |-> c, text |-> ts[i]]]
<1>1. \A k \in 1..Len(ts) : [of |-> c, text |-> ts[k]] \in Lines
  <2> HIDE DEF Texts, Commands
  <2> QED BY DEF Lines
<1>2. new \in Seq(Lines) /\ Len(new) = Len(ts) /\ \A k \in 1..Len(ts) : new[k] = [of |-> c, text |-> ts[k]]
  <2> HIDE DEF Lines
  <2>1. Len(ts) \in Nat
    OBVIOUS
  <2> QED BY <1>1, <2>1
<1>3. output' = IF up THEN output \o new ELSE output
  BY DEF Emit
<1> HIDE DEF new, Lines
<1>4. CASE up
  <2>1. output' = output \o new
    BY <1>3, <1>4
  <2>2. /\ output \o new \in Seq(Lines) /\ Len(output \o new) = Len(output) + Len(new)
        /\ \A k \in 1..Len(output) : (output \o new)[k] = output[k]
        /\ \A k \in 1..Len(new) : (output \o new)[Len(output) + k] = new[k]
    BY <1>2
  <2> QED BY <1>2, <1>4, <2>1, <2>2
<1>5. CASE ~up
  BY <1>3, <1>5
<1> QED BY <1>4, <1>5

ChipMove == (ChipStep \/ SelfStop \/ PowerCycle \/ LinkLost) /\ UNCHANGED sessionVars

LEMMA Taken ==
  ASSUME ChipTypeOK, TakeCommand
  PROVE  /\ mode = "idle" /\ input # <<>> /\ input' = Tail(input) /\ up' = up
         /\ input' \in Seq(Commands) /\ serving' = Head(input) /\ serving' \in Commands
         /\ last' \in Commands \cup {"none"}
         /\ Head(input) # "CR" => last' = Remembered(Head(input))
<1>1. input \in Seq(Commands) /\ input # <<>>
  BY DEF ChipTypeOK, TakeCommand
<1>2. Tail(input) \in Seq(Commands) /\ Head(input) \in Commands
  <2> HIDE DEF Commands
  <2> QED BY <1>1
<1>3. "ATAL" \in Commands
  BY DEF Commands, Setting
<1> HIDE DEF Commands
<1> QED BY <1>1, <1>2, <1>3 DEF TakeCommand, ChipTypeOK, Remembered

LEMMA OneLess ==
  ASSUME ChipTypeOK, input # <<>>
  PROVE  OneCharacterLess \in Seq(Commands)
<1>1. input \in Seq(Commands) /\ "rest" \in Commands
  BY DEF ChipTypeOK, Commands
<1> HIDE DEF Commands
<1>2. Tail(input) \in Seq(Commands) /\ <<"rest">> \o Tail(input) \in Seq(Commands)
  BY <1>1
<1> QED BY <1>2 DEF OneCharacterLess

LEMMA BodyTypes ==
  ASSUME headers \in BOOLEAN, NEW c, NEW b \in Bodies(c)
  PROVE  /\ b \in Seq(Texts) /\ \A k \in 1..Len(b) : b[k] \notin Prompts
         /\ ~headers => \A k \in 1..Len(b) : b[k] # "data+h"
<1>1. \A t \in {"ok", "?", "nodata", "negative"} : /\ <<t>> \in Seq(Texts) /\ Len(<<t>>) = 1
        /\ <<t>>[1] = t /\ t \notin Prompts /\ t # "data+h"
  <2> TAKE t \in {"ok", "?", "nodata", "negative"}
  <2>1. t \in Texts /\ t \notin Prompts /\ t # "data+h"
    BY DEF Texts, Prompts
  <2> HIDE DEF Texts
  <2> QED BY <2>1
<1>2. CASE \E t \in {"ok", "?", "nodata", "negative"} : b = <<t>>
  <2>1. PICK t \in {"ok", "?", "nodata", "negative"} : b = <<t>>
    BY <1>2
  <2>2. \A k \in 1..Len(b) : b[k] = t
    BY <2>1
  <2> QED BY <1>1, <2>1, <2>2
<1>3. CASE b \in DataReplies(headers)
  <2>1. PICK n \in 1..ReplyLines : b = [k \in 1..n |-> IF headers THEN "data+h" ELSE "data"]
    BY <1>3 DEF DataReplies
  <2>2. n \in Nat /\ {"data", "data+h"} \subseteq Texts \ Prompts
    BY ChipAssumption DEF Texts, Prompts
  <2> HIDE DEF Texts, Prompts
  <2>3. Len(b) = n /\ b \in Seq(Texts) /\ \A k \in 1..n : b[k] = IF headers THEN "data+h" ELSE "data"
    BY <2>1, <2>2
  <2> QED BY <2>2, <2>3
<1> QED BY <1>2, <1>3 DEF Bodies

LEMMA ChipTypes ==
  ASSUME ChipTypeOK, Working, ChipMove
  PROVE  ChipTypeOK' /\ Working'
<1>1. /\ up \in BOOLEAN /\ input \in Seq(Commands) /\ output \in Seq(Lines)
      /\ mode \in {"idle", "busy", "reset", "monitor"} /\ serving \in Commands \cup {"none"}
      /\ body \in Seq(Texts) /\ last \in Commands \cup {"none"} /\ echo \in BOOLEAN
      /\ headers \in BOOLEAN
  BY DEF ChipTypeOK
<1>2. {"ATZ", "ATMA"} \subseteq Commands /\ "none" \notin Commands
  BY DEF Commands, Obd, Setting
<1>3. \A t \in Texts : <<t>> \in Seq(Texts)
  BY DEF Texts
<1>4. <<>> \in Seq(Commands) /\ <<>> \in Seq(Texts)
  OBVIOUS
<1>5. {">", "stray>", "banner", "frame", "full"} \subseteq Texts /\ {"frame", "full"} \cap Prompts = {}
  BY DEF Texts, Prompts
<1>6. body # <<>> => Head(body) \in Texts /\ Tail(body) \in Seq(Texts)
                     /\ \A k \in 1..Len(Tail(body)) : Tail(body)[k] = body[k + 1] /\ k + 1 \in 1..Len(body)
  <2> HIDE DEF Texts
  <2> QED BY <1>1
<1>7. input # <<>> => Tail(input) \in Seq(Commands)
  <2> HIDE DEF Commands
  <2> QED BY <1>1
<1>8. mode # "idle" => serving \in Commands
  BY <1>1 DEF Working
<1> HIDE DEF Commands, Texts, Lines, Prompts
<1>9. CASE StartReset
  <2>1. serving' \in Commands /\ input' \in Seq(Commands) /\ up' = up
    BY <1>9, Taken DEF StartReset
  <2> QED BY <1>1, <1>2, <1>9, <2>1 DEF StartReset, ChipTypeOK, Working
<1>10. CASE StartMonitor
  <2>1. serving' \in Commands /\ input' \in Seq(Commands) /\ up' = up
    BY <1>10, Taken DEF StartMonitor
  <2>2. (IF StrayPrompts THEN <<"stray>">> ELSE <<>>) \in Seq(Texts)
    BY <1>3, <1>4, <1>5
  <2>3. output' \in Seq(Lines)
    BY <1>1, <1>10, <2>1, <2>2, Emitted DEF StartMonitor
  <2> QED BY <1>1, <1>2, <1>10, <2>1, <2>3 DEF StartMonitor, ChipTypeOK, Working
<1>11. CASE StartAnswer
  <2>1. serving' \in Commands /\ input' \in Seq(Commands) /\ up' = up /\ last' \in Commands \cup {"none"}
    BY <1>11, Taken DEF StartAnswer
  <2>2. echo' \in BOOLEAN /\ headers' \in BOOLEAN
    BY <1>1, <1>11 DEF StartAnswer
  <2>3. body' \in Seq(Texts) /\ \A k \in 1..Len(body') : body'[k] \notin Prompts
    <3>1. PICK c : body' \in Bodies(c)
      BY <1>11 DEF StartAnswer
    <3> QED BY <1>1, <3>1, BodyTypes
  <2> QED BY <1>1, <1>2, <1>11, <2>1, <2>2, <2>3 DEF StartAnswer, ChipTypeOK, Working
<1>12. CASE LoseCommand
  BY <1>1, <1>7, <1>12 DEF LoseCommand, chipVars, ChipTypeOK, Working
<1>13. CASE PrintLine
  <2>1. serving \in Commands /\ <<Head(body)>> \in Seq(Texts)
    BY <1>3, <1>6, <1>8, <1>13 DEF PrintLine
  <2>2. output' \in Seq(Lines)
    BY <1>1, <1>13, <2>1, Emitted DEF PrintLine
  <2>3. body' \in Seq(Texts) /\ \A k \in 1..Len(body') : body'[k] \notin Prompts
    BY <1>6, <1>13 DEF PrintLine, Working
  <2> QED BY <1>1, <1>13, <2>2, <2>3 DEF PrintLine, ChipTypeOK, Working
<1>14. CASE PrintPrompt
  <2>1. output' \in Seq(Lines)
    BY <1>1, <1>3, <1>5, <1>8, <1>14, Emitted DEF PrintPrompt
  <2> QED BY <1>1, <1>14, <2>1 DEF PrintPrompt, ChipTypeOK, Working
<1>15. CASE InterruptRequest
  <2>1. output' \in Seq(Lines)
    BY <1>1, <1>3, <1>5, <1>8, <1>15, Emitted DEF InterruptRequest
  <2>2. input' \in Seq(Commands)
    BY <1>15, OneLess DEF InterruptRequest
  <2> QED BY <1>1, <1>4, <1>15, <2>1, <2>2 DEF InterruptRequest, ChipTypeOK, Working
<1>16. CASE ResetDone
  <2>1. <<"banner", ">">> \in Seq(Texts)
    BY <1>5
  <2>2. output' \in Seq(Lines)
    BY <1>1, <1>8, <1>16, <2>1, Emitted DEF ResetDone
  <2> QED BY <1>1, <1>16, <2>2 DEF ResetDone, ChipTypeOK, Working
<1>17. CASE MonitorFrame
  <2>1. output' \in Seq(Lines)
    BY <1>1, <1>3, <1>5, <1>8, <1>17, Emitted DEF MonitorFrame
  <2> QED BY <1>1, <1>17, <2>1 DEF MonitorFrame, chipVars, ChipTypeOK, Working
<1>18. CASE MonitorStop
  <2>1. input' \in Seq(Commands)
    BY <1>18, OneLess DEF MonitorStop
  <2>2. body' \in Seq(Texts) /\ \A k \in 1..Len(body') : body'[k] \notin Prompts
    <3>1. CASE body' = <<>>
      BY <1>4, <3>1
    <3>2. CASE body' = <<"frame">>
      <4>1. \A k \in 1..Len(body') : body'[k] = "frame"
        BY <3>2
      <4> QED BY <1>3, <1>5, <3>2, <4>1
    <3> QED BY <1>18, <3>1, <3>2 DEF MonitorStop
  <2> QED BY <1>1, <1>8, <1>18, <2>1, <2>2 DEF MonitorStop, ChipTypeOK, Working
<1>19. CASE SelfStop
  <2>1. /\ mode = "monitor" /\ mode' = "busy" /\ body' = <<"full">>
        /\ UNCHANGED <<linkVars, serving, last, echo, headers>>
    BY <1>19 DEF SelfStop, MonitorSelfStop
  <2>2. body' \in Seq(Texts) /\ \A k \in 1..Len(body') : body'[k] \notin Prompts
    <3>1. \A k \in 1..Len(body') : body'[k] = "full"
      BY <2>1
    <3> QED BY <1>3, <1>5, <2>1, <3>1
  <2> QED BY <1>1, <1>8, <2>1, <2>2 DEF linkVars, ChipTypeOK, Working
<1>20. CASE PowerCycle
  <2>1. ChipTypeOK'
    BY <1>1, <1>4, <1>20 DEF PowerCycle, ChipTypeOK
  <2>2. mode' = "idle" /\ body' = <<>>
    BY <1>20 DEF PowerCycle
  <2> QED BY <2>1, <2>2 DEF Working
<1>21. CASE LinkLost
  BY <1>1, <1>4, <1>21 DEF LinkLost, chipVars, ChipTypeOK, Working
<1> QED BY <1>9, <1>10, <1>11, <1>12, <1>13, <1>14, <1>15, <1>16, <1>17, <1>18, <1>19, <1>20,
           <1>21 DEF ChipMove, ChipStep

-----------------------------------------------------------------------------
(* What the chip does to an exchange *)

LEMMA ChipDown ==
  ASSUME ChipMove, ~up \/ ~up', up \in BOOLEAN
  PROVE  output' = output /\ ~up'
<1>1. CASE ~up
  BY <1>1 DEF ChipMove, ChipStep, StartReset, StartMonitor, StartAnswer, TakeCommand, LoseCommand,
     PrintLine, PrintPrompt, InterruptRequest, ResetDone, MonitorFrame, MonitorStop, SelfStop,
     MonitorSelfStop, PowerCycle, LinkLost, Emit, linkVars
<1>2. CASE up
  BY <1>2 DEF ChipMove, ChipStep, StartReset, StartMonitor, StartAnswer, TakeCommand, LoseCommand,
     PrintLine, PrintPrompt, InterruptRequest, ResetDone, MonitorFrame, MonitorStop, SelfStop,
     MonitorSelfStop, PowerCycle, LinkLost, linkVars
<1> QED BY <1>1, <1>2

\* An idle chip without input rests.
LEMMA ChipRests ==
  ASSUME ChipMove, up, up', input = <<>>, mode = "idle"
  PROVE  UNCHANGED <<linkVars, chipVars>>
  BY DEF ChipMove, ChipStep, StartReset, StartMonitor, StartAnswer, TakeCommand, LoseCommand,
     PrintLine, PrintPrompt, InterruptRequest, ResetDone, MonitorFrame, MonitorStop, SelfStop,
     MonitorSelfStop, PowerCycle, LinkLost, linkVars, chipVars

LEMMA ChipQuiet ==
  ASSUME up \in BOOLEAN, Quiet, ChipMove
  PROVE  Quiet'
<1>1. up' \in BOOLEAN
  BY DEF ChipMove, ChipStep, StartReset, StartMonitor, StartAnswer, TakeCommand, LoseCommand,
     PrintLine, PrintPrompt, InterruptRequest, ResetDone, MonitorFrame, MonitorStop, SelfStop,
     MonitorSelfStop, PowerCycle, LinkLost, linkVars
<1>2. CASE ~up \/ ~up'
  BY <1>2, ChipDown DEF Quiet
<1>3. CASE up /\ up'
  BY <1>3, ChipRests DEF Quiet, linkVars, chipVars
<1> QED BY <1>1, <1>2, <1>3

\* Commands that the session writes once the chip was reset.
Written == Obd \cup Setting \cup {"ATMA"}

LEMMA Remembrance ==
  ASSUME NEW c \in Written
  PROVE  /\ c \in Commands /\ c \notin {"CR", "ATZ", "rest", "none"}
         /\ Remembered(c) # "ATZ"
         /\ Remembered(c) = "ATMA" <=> c = "ATMA"
         /\ Remembered(c) = "ATE0" <=> c = "ATE0"
         /\ Remembered(c) = "ATH0" <=> c = "ATH0"
         /\ Remembered(c) = "ATH1" <=> c = "ATH1"
  BY DEF Written, Commands, Obd, Setting, Remembered

\* A typed command is taken, or lost.
LEMMA ChipTakes ==
  ASSUME ChipTypeOK, ChipMove, NEW c \in Written, up, up', input = <<c>>, mode = "idle"
  PROVE  /\ input' = <<>>
         /\ \/ StartMonitor /\ c = "ATMA" /\ serving' = c /\ UNCHANGED <<echo, headers>>
            \/ /\ StartAnswer /\ c # "ATMA" /\ mode' = "busy" /\ serving' = c /\ output' = output
               /\ body' \in Bodies(c) /\ last' = Remembered(c)
            \/ UNCHANGED <<output, chipVars>>
<1>1. Head(input) = c /\ Tail(input) = <<>>
  OBVIOUS
<1>2. CASE StartReset
  <2>1. last' = Remembered(c) /\ last' = "ATZ"
    BY <1>1, <1>2, Taken, Remembrance DEF StartReset
  <2> QED BY <2>1, Remembrance
<1>3. CASE StartMonitor
  <2>1. last' = Remembered(c) /\ last' = "ATMA" /\ serving' = c /\ input' = <<>>
    BY <1>1, <1>3, Taken, Remembrance DEF StartMonitor
  <2> QED BY <1>3, <2>1, Remembrance DEF StartMonitor
<1>4. CASE StartAnswer
  <2>1. last' = Remembered(c) /\ last' # "ATMA" /\ serving' = c /\ input' = <<>>
    BY <1>1, <1>4, Taken, Remembrance DEF StartAnswer
  <2>2. body' \in Bodies(c)
    BY <1>4, <2>1, Remembrance DEF StartAnswer
  <2> QED BY <1>4, <2>1, <2>2, Remembrance DEF StartAnswer
<1>5. CASE LoseCommand
  BY <1>1, <1>5 DEF LoseCommand
<1>6. StartReset \/ StartMonitor \/ StartAnswer \/ LoseCommand
  BY DEF ChipMove, ChipStep, PrintLine, PrintPrompt, InterruptRequest, ResetDone, MonitorFrame,
     MonitorStop, SelfStop, MonitorSelfStop, PowerCycle, LinkLost
<1> QED BY <1>2, <1>3, <1>4, <1>5, <1>6

\* A busy chip without input prints the next line.
LEMMA ChipPrints ==
  ASSUME ChipTypeOK, Working, ChipMove, up, up', input = <<>>, mode = "busy"
  PROVE  PrintLine \/ PrintPrompt
  BY DEF ChipMove, ChipStep, StartReset, StartMonitor, StartAnswer, TakeCommand, LoseCommand,
     InterruptRequest, ResetDone, MonitorFrame, MonitorStop, SelfStop,
     MonitorSelfStop, PowerCycle, LinkLost

LEMMA ChipMonitors ==
  ASSUME ChipMove, up, up', mode = "monitor"
  PROVE  MonitorFrame \/ MonitorStop \/ SelfStop
  BY DEF ChipMove, ChipStep, StartReset, StartMonitor, StartAnswer, TakeCommand, LoseCommand,
     PrintLine, PrintPrompt, InterruptRequest, ResetDone, PowerCycle, LinkLost

\* One more line.
LEMMA OneLine ==
  ASSUME output \in Seq(Lines), up, NEW c \in Commands, NEW t \in Texts, Emit(c, <<t>>)
  PROVE  /\ output' \in Seq(Lines) /\ Len(output') = Len(output) + 1 /\ Len(output) \in Nat
         /\ output'[Len(output) + 1] = [of |-> c, text |-> t]
         /\ \A k \in 1..Len(output) : output'[k] = output[k]
<1> DEFINE ts == <<t>>
<1>1. ts \in Seq(Texts) /\ Len(ts) = 1 /\ ts[1] = t /\ Emit(c, ts)
  <2> HIDE DEF Texts
  <2> QED OBVIOUS
<1> HIDE DEF ts, Texts, Lines, Commands
<1>2. 1 \in 1..Len(ts) /\ Len(output) \in Nat
  BY <1>1
<1> QED BY <1>1, <1>2, Emitted

LEMMA OneMore ==
  ASSUME output \in Seq(Lines), up, NEW c \in Commands, NEW t \in Texts, Emit(c, <<t>>),
         Answers(c), ~Ended, UNCHANGED <<pc, count>>, t # "stray>"
  PROVE  Answers(c)' /\ output' # <<>> /\ (Ended' <=> t = ">")
<1>2. /\ output' \in Seq(Lines) /\ Len(output') = Len(output) + 1 /\ Len(output) \in Nat
      /\ output'[Len(output) + 1] = [of |-> c, text |-> t]
      /\ \A k \in 1..Len(output) : output'[k] = output[k]
  BY OneLine
<1> DEFINE n == Len(output)
<1>3. \A k \in 1..n : output[k].text # ">"
  <2>1. \A k \in 1..n : output[k].text = ">" => k = n
    BY DEF Answers
  <2>2. n >= 1 => output # <<>>
    OBVIOUS
  <2> QED BY <1>2, <2>1, <2>2 DEF Ended
<1>4. output' # <<>> /\ (Ended' <=> t = ">")
  BY <1>2 DEF Ended
<1>5. ASSUME NEW k \in 1..Len(output')
      PROVE  /\ output'[k].of = c
             /\ output'[k].text = ">" => k = Len(output')
             /\ output'[k].text = "stray>" => k = 1 /\ pc' = "scan" /\ count' = 0
  <2>1. CASE k \in 1..n
    BY <1>2, <1>3, <2>1 DEF Answers
  <2>2. CASE k = n + 1
    BY <1>2, <2>2
  <2> QED BY <1>2, <2>1, <2>2
<1> QED BY <1>4, <1>5 DEF Answers

LEMMA ChipExchange ==
  ASSUME Timely, ChipTypeOK, Working, AtStep, ChipMove, NEW c \in Written, Exchange(c)
  PROVE  Exchange(c)'
<1>1. UNCHANGED <<pc, todo, count>> /\ (Stopping' <=> Stopping)
  BY DEF ChipMove, sessionVars, Stopping
<1>2. /\ up \in BOOLEAN /\ output \in Seq(Lines) /\ body \in Seq(Texts) /\ c \in Commands
      /\ input \in Seq(Commands)
  BY Remembrance DEF ChipTypeOK
<1>3. {">", "frame"} \subseteq Texts /\ Prompts = {">", "stray>"}
  BY DEF Texts, Prompts
<1>4. Answers(c)
  BY DEF Exchange
<1> HIDE DEF Texts, Lines, Commands, Prompts
<1>5. CASE ~up \/ ~up'
  BY <1>1, <1>2, <1>4, <1>5, ChipDown DEF Exchange, Answers
<1>6. CASE up /\ up'
  <2>1. CASE input = <<c>> /\ mode = "idle" /\ output = <<>> /\ (c = "ATMA" => pc = "scan" /\ count = 0)
    <3>1. CASE StartMonitor /\ c = "ATMA" /\ serving' = c /\ input' = <<>>
      <4>1. mode' = "monitor" /\ Emit(c, IF StrayPrompts THEN <<"stray>">> ELSE <<>>)
        BY <3>1 DEF StartMonitor
      <4>2. output' = IF StrayPrompts THEN <<[of |-> c, text |-> "stray>"]>> ELSE <<>>
        <5>1. \A x : <<>> \o <<x>> = <<x>> /\ <<>> \o <<>> = <<>>
          OBVIOUS
        <5>2. [k \in 1..Len(<<"stray>">>) |-> [of |-> c, text |-> <<"stray>">>[k]]]
                = <<[of |-> c, text |-> "stray>"]>>
          OBVIOUS
        <5>3. [k \in 1..Len(<<>>) |-> [of |-> c, text |-> <<>>[k]]] = <<>>
          OBVIOUS
        <5> QED BY <1>6, <2>1, <4>1, <5>1, <5>2, <5>3 DEF Emit
      <4>3. /\ \A k \in 1..Len(output') : k = 1 /\ output'[k] = [of |-> c, text |-> "stray>"]
        BY <4>2
      <4>4. ~Ended'
        BY <4>2 DEF Ended
      <4>5. Answers(c)'
        BY <1>1, <2>1, <3>1, <4>3 DEF Answers
      <4>6. ~Stopping'
        BY <1>1, <2>1, <3>1 DEF Stopping
      <4> QED BY <3>1, <4>1, <4>4, <4>5, <4>6 DEF Exchange
    <3>2. CASE StartAnswer /\ mode' = "busy" /\ serving' = c /\ output' = output /\ input' = <<>>
      BY <1>1, <1>4, <2>1, <3>2 DEF Exchange, Answers, Ended
    <3>3. CASE UNCHANGED <<output, chipVars>> /\ input' = <<>>
      BY <1>1, <1>4, <2>1, <3>3 DEF Exchange, Answers, chipVars
    <3> QED BY <1>6, <2>1, <3>1, <3>2, <3>3, ChipTakes
  <2>2. CASE input = <<>> /\ mode = "idle" /\ (output = <<>> \/ Ended)
    <3>1. UNCHANGED <<linkVars, chipVars>>
      BY <1>6, <2>2, ChipRests
    <3> QED BY <1>1, <1>4, <2>2, <3>1 DEF Exchange, Answers, Ended, linkVars, chipVars
  <2>3. CASE input = <<>> /\ mode = "busy" /\ serving = c /\ ~Ended
    <3>1. CASE PrintLine
      <4>1. Head(body) \in Texts /\ Head(body) \notin Prompts
        BY <1>2, <3>1 DEF PrintLine, Working
      <4>2. Answers(c)' /\ ~Ended'
        BY <1>1, <1>2, <1>3, <1>4, <1>6, <2>3, <3>1, <4>1, OneMore DEF PrintLine
      <4> QED BY <2>3, <3>1, <4>2 DEF PrintLine, Exchange
    <3>2. CASE PrintPrompt
      <4>1. Answers(c)' /\ Ended'
        BY <1>1, <1>2, <1>3, <1>4, <1>6, <2>3, <3>2, OneMore DEF PrintPrompt
      <4> QED BY <2>3, <3>2, <4>1 DEF PrintPrompt, Exchange
    <3> QED BY <1>6, <2>3, <3>1, <3>2, ChipPrints
  <2>4. CASE /\ mode = "monitor" /\ c = "ATMA" /\ serving = c /\ ~Ended
             /\ input = IF Stopping THEN <<"CR">> ELSE <<>>
    <3>1. CASE MonitorFrame
      <4>1. Answers(c)' /\ ~Ended'
        BY <1>1, <1>2, <1>3, <1>4, <1>6, <2>4, <3>1, OneMore DEF MonitorFrame
      <4> QED BY <1>1, <2>4, <3>1, <4>1 DEF MonitorFrame, chipVars, Exchange
    <3>2. CASE MonitorStop
      <4>1. input = <<"CR">>
        BY <2>4, <3>2 DEF MonitorStop
      <4>2. input' = <<>>
        BY <3>2, <4>1 DEF MonitorStop, OneCharacterLess
      <4> QED BY <1>1, <1>4, <2>4, <3>2, <4>2 DEF MonitorStop, Exchange, Answers, Ended
    <3>3. CASE SelfStop
      <4>1. ~(todo # <<>> /\ Head(todo) = StopMonitor)
        BY <3>3 DEF SelfStop, Timely
      <4>2. ~Stopping
        BY <4>1 DEF Stopping, AtStep
      <4>3. /\ mode' = "busy" /\ UNCHANGED <<input, output, serving>>
        BY <3>3 DEF SelfStop, MonitorSelfStop, linkVars
      <4> QED BY <1>1, <1>4, <2>4, <4>2, <4>3 DEF Exchange, Answers, Ended
    <3> QED BY <1>6, <2>4, <3>1, <3>2, <3>3, ChipMonitors
  <2> QED BY <1>6, <2>1, <2>2, <2>3, <2>4 DEF Exchange
<1> QED BY <1>2, <1>5, <1>6

LEMMA ChipSettings ==
  ASSUME Timely, ChipTypeOK, Working, AtStep, ChipMove, NEW c \in Written, Exchange(c),
         SettingsInForce, Reading => c = Head(todo).cmd, c = "ATH1" => HidesHeaders(todo)
  PROVE  SettingsInForce'
<1>1. UNCHANGED <<pc, todo, source>> /\ (Reading' <=> Reading)
  BY DEF ChipMove, sessionVars, Reading
<1>2. /\ SilencesEcho(todo)' <=> SilencesEcho(todo)
      /\ HidesHeaders(todo)' <=> HidesHeaders(todo)
  BY <1>1 DEF SilencesEcho, HidesHeaders
<1>3. output \in Seq(Lines) /\ body \in Seq(Texts) /\ c \in Commands /\ up \in BOOLEAN
      /\ echo \in BOOLEAN /\ headers \in BOOLEAN
  BY Remembrance DEF ChipTypeOK
<1>4. /\ up /\ echo => source = 0 /\ SilencesEcho(todo)
      /\ pc = "reply" /\ Head(todo).cmd = "ATE0" /\ Begun => ~echo
      /\ up /\ headers => HidesHeaders(todo)
      /\ pc = "reply" /\ Head(todo).cmd = "ATH0" /\ Begun => ~headers
      /\ Reading /\ Head(todo).cmd = "PID" =>
           /\ \A k \in 1..Len(output) : output[k].text # "data+h"
           /\ up /\ mode = "busy" => \A k \in 1..Len(body) : body[k] # "data+h"
  BY DEF SettingsInForce
<1> HIDE DEF SilencesEcho, HidesHeaders, Reading, Texts, Lines, Commands, Begun
<1>5. CASE ~up \/ ~up'
  <2>1. output' = output /\ ~up'
    BY <1>3, <1>5, ChipDown
  <2> QED BY <1>1, <1>4, <2>1 DEF SettingsInForce, Begun
<1>6. CASE up /\ up' /\ UNCHANGED <<output, mode, body, echo, headers>>
  BY <1>1, <1>2, <1>4, <1>6 DEF SettingsInForce, Begun
<1>7. CASE up /\ up' /\ c = "ATMA" /\ UNCHANGED <<echo, headers>>
  <2>1. pc = "reply" \/ Reading => Head(todo).cmd = "ATMA"
    BY <1>7 DEF Reading
  <2> QED BY <1>1, <1>2, <1>4, <1>7, <2>1 DEF SettingsInForce
<1>8. CASE up /\ up' /\ ~UNCHANGED <<output, mode, body, echo, headers>> /\ c # "ATMA"
  <2>1. CASE input = <<c>> /\ mode = "idle" /\ output = <<>>
    <3>1. /\ StartAnswer /\ mode' = "busy" /\ body' \in Bodies(c) /\ last' = Remembered(c)
          /\ output' = output
      BY <1>8, <2>1, ChipTakes DEF chipVars
    <3>2. /\ echo' = (echo /\ c # "ATE0")
          /\ headers' = (c = "ATH1" \/ (headers /\ c # "ATH0"))
      BY <3>1, Remembrance DEF StartAnswer
    <3>3. up' /\ echo' => source' = 0 /\ SilencesEcho(todo)'
      BY <1>1, <1>2, <1>4, <1>8, <3>2
    <3>4. up' /\ headers' => HidesHeaders(todo)'
      BY <1>2, <1>4, <1>8, <3>2
    <3>5. /\ pc' = "reply" /\ Head(todo').cmd = "ATE0" => ~echo'
          /\ pc' = "reply" /\ Head(todo').cmd = "ATH0" => ~headers'
      BY <1>1, <3>2 DEF Reading
    <3>6. ASSUME Reading', Head(todo').cmd = "PID"
          PROVE  /\ \A k \in 1..Len(output') : output'[k].text # "data+h"
                 /\ \A k \in 1..Len(body') : body'[k] # "data+h"
      <4>1. c = "PID" /\ todo # <<>>
        BY <1>1, <3>6 DEF Reading, AtStep
      <4>2. ~headers
        <5>1. SUFFICES ASSUME headers PROVE FALSE
          OBVIOUS
        <5>2. HidesHeaders(todo)
          BY <1>4, <1>8, <5>1
        <5>3. 1 \in 1..Len(todo) /\ todo[1].cmd = "PID"
          BY <4>1, <1>1, <3>6 DEF TypeOK
        <5> QED BY <5>2, <5>3 DEF HidesHeaders
      <4> QED BY <1>3, <2>1, <3>1, <4>2, BodyTypes
    <3> QED BY <3>3, <3>4, <3>5, <3>6 DEF SettingsInForce
  <2>2. CASE input = <<>> /\ mode = "idle"
    BY <1>8, <2>2, ChipRests DEF chipVars, linkVars
  <2>3. CASE input = <<>> /\ mode = "busy" /\ serving = c
    <3>1. CASE PrintLine
      <4>1. /\ body # <<>> /\ Emit(c, <<Head(body)>>) /\ body' = Tail(body)
            /\ UNCHANGED <<mode, echo, headers>>
        BY <2>3, <3>1 DEF PrintLine
      <4>2. Head(body) \in Texts /\ 1 \in 1..Len(body) /\ Head(body) = body[1]
            /\ \A k \in 1..Len(body') : body'[k] = body[k + 1] /\ k + 1 \in 1..Len(body)
        BY <1>3, <4>1
      <4>3. /\ Len(output') = Len(output) + 1 /\ Len(output) \in Nat
            /\ \A k \in 1..Len(output) : output'[k] = output[k]
            /\ output'[Len(output) + 1] = [of |-> c, text |-> Head(body)]
        BY <1>3, <1>8, <4>1, <4>2, OneLine
      <4>4. ASSUME Reading', Head(todo').cmd = "PID"
            PROVE  /\ \A k \in 1..Len(output') : output'[k].text # "data+h"
                   /\ \A k \in 1..Len(body') : body'[k] # "data+h"
        <5>1. /\ \A k \in 1..Len(output) : output[k].text # "data+h"
              /\ \A k \in 1..Len(body) : body[k] # "data+h"
          BY <1>1, <1>4, <1>8, <2>3, <4>4
        <5>2. ASSUME NEW k \in 1..Len(output') PROVE output'[k].text # "data+h"
          <6>1. CASE k \in 1..Len(output)
            BY <4>3, <5>1, <6>1
          <6>2. CASE k = Len(output) + 1
            BY <4>2, <4>3, <5>1, <6>2
          <6> QED BY <4>3, <6>1, <6>2
        <5> QED BY <4>2, <5>1, <5>2
      <4>5. Begun
        BY <1>8, <2>3 DEF Begun
      <4> QED BY <1>1, <1>2, <1>4, <1>8, <4>1, <4>4, <4>5 DEF SettingsInForce
    <3>2. CASE PrintPrompt
      <4>1. Emit(c, <<">">>) /\ mode' = "idle" /\ UNCHANGED <<echo, headers, body>>
        BY <2>3, <3>2 DEF PrintPrompt
      <4>2. ">" \in Texts
        BY DEF Texts, Prompts
      <4>3. /\ Len(output') = Len(output) + 1 /\ Len(output) \in Nat
            /\ \A k \in 1..Len(output) : output'[k] = output[k]
            /\ output'[Len(output) + 1] = [of |-> c, text |-> ">"]
        BY <1>3, <1>8, <4>1, <4>2, OneLine
      <4>4. ASSUME Reading', Head(todo').cmd = "PID", NEW k \in 1..Len(output')
            PROVE  output'[k].text # "data+h"
        <5>1. CASE k \in 1..Len(output)
          BY <1>1, <1>4, <4>3, <4>4, <5>1
        <5>2. CASE k = Len(output) + 1
          BY <4>3, <5>2
        <5> QED BY <4>3, <5>1, <5>2
      <4>5. Begun
        BY <1>8, <2>3 DEF Begun
      <4> QED BY <1>1, <1>2, <1>4, <1>8, <4>1, <4>4, <4>5 DEF SettingsInForce
    <3> QED BY <1>8, <2>3, <3>1, <3>2, ChipPrints
  <2> QED BY <1>8, <2>1, <2>2, <2>3 DEF Exchange
<1>9. c = "ATMA" /\ up /\ up' => UNCHANGED <<echo, headers>>
  <2> SUFFICES ASSUME c = "ATMA", up, up' PROVE UNCHANGED <<echo, headers>>
    OBVIOUS
  <2>1. CASE input = <<c>> /\ mode = "idle"
    BY <2>1, ChipTakes DEF chipVars
  <2>2. CASE input = <<>> /\ mode = "idle"
    BY <2>2, ChipRests DEF chipVars
  <2>3. CASE input = <<>> /\ mode = "busy"
    BY <2>3, ChipPrints DEF PrintLine, PrintPrompt
  <2>4. CASE mode = "monitor"
    BY <2>4, ChipMonitors DEF MonitorFrame, MonitorStop, SelfStop, MonitorSelfStop, chipVars
  <2> QED BY <2>1, <2>2, <2>3, <2>4 DEF Exchange
<1> QED BY <1>3, <1>5, <1>6, <1>7, <1>8, <1>9

\* Before a scan is stopped.
LEMMA ChipBeforeStop ==
  ASSUME Timely, ChipTypeOK, Working, AtStep, ChipMove, Exchange("ATMA"), AwaitsStop, pc = "ready",
         up => mode = "monitor", \A k \in 1..Len(output) : output[k].text \notin Prompts
  PROVE  (up' => mode' = "monitor") /\ \A k \in 1..Len(output') : output'[k].text \notin Prompts
<1>1. output \in Seq(Lines) /\ up \in BOOLEAN /\ serving \in Commands \cup {"none"}
  BY DEF ChipTypeOK
<1>2. CASE ~up \/ ~up'
  BY <1>1, <1>2, ChipDown
<1>3. CASE up /\ up'
  <2>1. mode = "monitor" /\ serving = "ATMA" /\ input = <<>>
    BY <1>3 DEF Exchange, Stopping
  <2>2. MonitorFrame \/ MonitorStop \/ SelfStop
    BY <1>3, <2>1, ChipMonitors
  <2>3. ~MonitorStop
    BY <2>1 DEF MonitorStop
  <2>4. ~SelfStop
    BY DEF SelfStop, AwaitsStop, Timely
  <2>5. mode' = "monitor" /\ Emit("ATMA", <<"frame">>)
    BY <2>1, <2>2, <2>3, <2>4 DEF MonitorFrame, chipVars
  <2>6. "frame" \in Texts /\ "ATMA" \in Commands /\ "frame" \notin Prompts
    BY DEF Texts, Commands, Prompts
  <2>7. /\ Len(output') = Len(output) + 1 /\ Len(output) \in Nat
        /\ \A k \in 1..Len(output) : output'[k] = output[k]
        /\ output'[Len(output) + 1] = [of |-> "ATMA", text |-> "frame"]
    BY <1>1, <1>3, <2>5, <2>6, OneLine
  <2>8. ASSUME NEW k \in 1..Len(output') PROVE output'[k].text \notin Prompts
    <3>1. CASE k \in 1..Len(output)
      BY <2>7, <3>1
    <3>2. CASE k = Len(output) + 1
      BY <2>6, <2>7, <3>2
    <3> QED BY <2>7, <3>1, <3>2
  <2> QED BY <2>5, <2>8
<1> QED BY <1>2, <1>3

\* A chip that was told to reset does not monitor once it has read that.
LEMMA ChipResets ==
  ASSUME ChipTypeOK, Working, ChipMove, ResetSent
  PROVE  ResetSent'
<1>1. up \in BOOLEAN /\ mode \in {"idle", "busy", "reset", "monitor"}
  BY DEF ChipTypeOK
<1>2. CASE ~up \/ ~up'
  BY <1>1, <1>2, ChipDown DEF ResetSent
<1>3. CASE up /\ up'
  <2>1. input = <<>> \/ input = <<"ATZ">> \/ input = <<"rest">>
    BY <1>3 DEF ResetSent
  <2>2. input # <<>> => /\ Tail(input) = <<>> /\ Head(input) \in {"ATZ", "rest"}
                        /\ OneCharacterLess = <<"rest">>
    <3>1. \A c : Tail(<<c>>) = <<>> /\ Head(<<c>>) = c
      OBVIOUS
    <3>2. <<"rest">> \o <<>> = <<"rest">>
      OBVIOUS
    <3>3. CASE input = <<"ATZ">>
      BY <3>1, <3>2, <3>3 DEF OneCharacterLess
    <3>4. CASE input = <<"rest">>
      BY <3>1, <3>2, <3>4 DEF OneCharacterLess
    <3> QED BY <2>1, <3>3, <3>4
  <2>3. CASE mode = "monitor"
    BY <1>3, <2>2, <2>3, ChipMonitors DEF ResetSent, MonitorFrame, MonitorStop, SelfStop,
       MonitorSelfStop, chipVars, linkVars
  <2>4. CASE mode # "monitor"
    <3>1. CASE TakeCommand
      <4>1. last' # "ATMA" /\ input' = <<>>
        BY <2>2, <3>1, Taken DEF Remembered, Setting
      <4>2. mode' # "monitor"
        BY <4>1, <3>1, <2>4 DEF ChipMove, ChipStep, StartReset, StartMonitor, StartAnswer, LoseCommand,
           PrintLine, PrintPrompt, InterruptRequest, ResetDone, MonitorFrame, MonitorStop, SelfStop,
           MonitorSelfStop, PowerCycle, LinkLost, chipVars
      <4> QED BY <4>1, <4>2 DEF ResetSent
    <3>2. CASE ~TakeCommand
      <4>1. mode' # "monitor"
        BY <3>2, <2>4 DEF ChipMove, ChipStep, StartReset, StartMonitor, StartAnswer, LoseCommand,
           PrintLine, PrintPrompt, InterruptRequest, ResetDone, MonitorFrame, MonitorStop, SelfStop,
           MonitorSelfStop, PowerCycle, LinkLost, chipVars
      <4>2. input' \in {input, <<>>, <<"rest">>}
        BY <1>3, <2>2, <2>4, <3>2 DEF ChipMove, ChipStep, StartReset, StartMonitor, StartAnswer,
           LoseCommand, PrintLine, PrintPrompt, InterruptRequest, ResetDone, MonitorFrame, MonitorStop,
           SelfStop, MonitorSelfStop, PowerCycle, LinkLost
      <4> QED BY <2>1, <4>1, <4>2 DEF ResetSent
    <3> QED BY <3>1, <3>2
  <2> QED BY <2>3, <2>4
<1> QED BY <1>1, <1>2, <1>3

LEMMA NoInputStays ==
  ASSUME ChipMove, up => input = <<>>, up \in BOOLEAN
  PROVE  up' => input' = <<>>
  BY DEF ChipMove, ChipStep, StartReset, StartMonitor, StartAnswer, TakeCommand, LoseCommand,
     PrintLine, PrintPrompt, InterruptRequest, ResetDone, MonitorFrame, MonitorStop, SelfStop,
     MonitorSelfStop, PowerCycle, LinkLost, linkVars, chipVars

-----------------------------------------------------------------------------
(* Steps and scripts *)

LEMMA PollFacts ==
  ASSUME NEW s \in PollSteps
  PROVE  /\ s.do \in {"reply", "await", "lines", "scan", "fail"}
         /\ s.do = "reply" => /\ s.cmd \in Written \ {"ATE0", "ATMA"}
                              /\ s.how \in {"header", "must", "try", "broadcast"}
                              /\ s.how = "try" => s.cmd \in Tried
         /\ s.do = "await" <=> s \in {AwaitPrompt, StopMonitor}
         /\ s.do = "lines" => s.cmd = "PID"
         /\ s.do = "scan" => s.cmd = "ATMA"
         /\ s.do \in {"await", "fail"} => s.cmd \in {"none", "CR"}
         /\ s = AwaitPrompt => s.cmd = "none" /\ s.how = "try"
         /\ s = StopMonitor => s.cmd = "CR" /\ s.how = "try"
         /\ s.cmd = "CR" => s = StopMonitor
         /\ s.cmd # "ATE0"
  BY DEF PollSteps, Send, AwaitPrompt, StopMonitor, GiveUp, ReadLines, Scan, Tried, Written, Obd, Setting

LEMMA InitFacts ==
  ASSUME NEW s \in InitSteps
  PROVE  /\ s.do \in {"reply", "drain"}
         /\ s.do = "reply" => /\ s.cmd \in Setting /\ s.cmd \in Written
                              /\ s.how \in {"must", "ate0", "ate0again"}
                              /\ s.how = "must" <=> s.cmd # "ATE0"
         /\ s.do = "drain" => s.cmd = "none" /\ s.how = "clear"
         /\ s.cmd \notin {"PID", "CR", "ATMA"}
         /\ s \notin {AwaitPrompt, StopMonitor}
  BY DEF InitSteps, Send, Drain, AwaitPrompt, StopMonitor, Written, Setting

LEMMA GreetingFacts ==
  /\ ResetStep.do = "reply" /\ ResetStep.cmd = "ATZ" /\ ResetStep.how = "atz"
  /\ Drain("try").do = "drain" /\ Drain("try").cmd = "none" /\ Drain("try").how = "try"
  /\ AwaitPrompt.do = "await" /\ AwaitPrompt.cmd = "none" /\ AwaitPrompt.how = "try"
  /\ Probe.do = "await" /\ Probe.cmd = "CR" /\ Probe.how = "probe"
  BY DEF ResetStep, Send, Drain, AwaitPrompt, Probe

LEMMA Tails ==
  ASSUME NEW S, NEW s \in Seq(S), s # <<>>
  PROVE  /\ Head(s) \in S /\ Head(s) = s[1] /\ Tail(s) \in Seq(S) /\ Len(s) \in Nat /\ Len(s) >= 1
         /\ Len(Tail(s)) = Len(s) - 1
         /\ \A k \in 1..Len(Tail(s)) : Tail(s)[k] = s[k + 1]
         /\ Tail(s) # <<>> => Head(Tail(s)) = s[2] /\ Len(s) >= 2
  OBVIOUS

LEMMA Appended ==
  ASSUME NEW S, NEW s \in Seq(S), NEW x \in S
  PROVE  /\ Append(s, x) \in Seq(S) /\ Len(Append(s, x)) = Len(s) + 1 /\ Append(s, x)[Len(s) + 1] = x
         /\ \A k \in 1..Len(s) : Append(s, x)[k] = s[k]
  OBVIOUS

LEMMA PollTail ==
  ASSUME NEW s, PollTodo(s), s # <<>>
  PROVE  /\ PollTodo(Tail(s)) /\ Head(s) \in PollSteps
         /\ Tail(s) # <<>> => Head(Tail(s)) \notin {AwaitPrompt, StopMonitor}
         /\ Head(s).do \in {"lines", "scan"} => Tail(s) = <<>>
         /\ HidesHeaders(s) /\ Head(s) # Send("ATH0", "must") => HidesHeaders(Tail(s))
         /\ Head(s).cmd = "ATH1" => HidesHeaders(s)
         /\ HidesHeaders(s) => Head(s).cmd # "PID"
<1>1. s \in Seq(PollSteps)
  BY DEF PollTodo
<1> HIDE DEF PollSteps
<1>2. /\ Head(s) \in PollSteps /\ Head(s) = s[1] /\ Tail(s) \in Seq(PollSteps) /\ Len(s) \in Nat
      /\ Len(s) >= 1 /\ Len(Tail(s)) = Len(s) - 1
      /\ \A k \in 1..Len(Tail(s)) : Tail(s)[k] = s[k + 1]
      /\ Tail(s) # <<>> => Head(Tail(s)) = s[2] /\ Len(s) >= 2
  BY <1>1, Tails
<1> DEFINE t == Tail(s)
           n == Len(s)
<1>3. Len(t) = n - 1 /\ n \in Nat /\ n >= 1 /\ \A k \in 1..(n - 1) : t[k] = s[k + 1] /\ k + 1 \in 2..n
  BY <1>2
<1>4. PollTodo(t)
  <2>1. \A k \in 2..Len(t) : t[k].do # "await"
    BY <1>3 DEF PollTodo
  <2>2. \A k \in 1..(Len(t) - 1) : t[k].do \notin {"lines", "scan"}
    <3> TAKE k \in 1..(Len(t) - 1)
    <3>1. t[k] = s[k + 1] /\ k + 1 \in 1..(n - 1)
      BY <1>3
    <3> QED BY <3>1 DEF PollTodo
  <2>3. \A j, k \in 1..Len(t) : j < k /\ t[j].cmd = "ATH1" => t[k].cmd # "PID"
    <3> TAKE j, k \in 1..Len(t)
    <3>1. t[k] = s[k + 1] /\ k + 1 \in 1..n /\ t[j] = s[j + 1] /\ j + 1 \in 1..n /\ (j < k => j + 1 < k + 1)
      BY <1>3
    <3> QED BY <3>1 DEF PollTodo
  <2> QED BY <1>2, <2>1, <2>2, <2>3 DEF PollTodo
<1>5. t # <<>> => Head(t) \notin {AwaitPrompt, StopMonitor}
  <2>1. t # <<>> => Head(t) = s[2] /\ 2 \in 2..n
    BY <1>2
  <2>2. AwaitPrompt.do = "await" /\ StopMonitor.do = "await"
    BY DEF AwaitPrompt, StopMonitor
  <2> QED BY <2>1, <2>2 DEF PollTodo
<1>6. Head(s).do \in {"lines", "scan"} => t = <<>>
  <2>1. n > 1 => Head(s).do \notin {"lines", "scan"}
    BY <1>2 DEF PollTodo
  <2>2. n = 1 => t = <<>>
    BY <1>2
  <2> QED BY <1>2, <2>1, <2>2
<1>7. HidesHeaders(s) /\ Head(s) # Send("ATH0", "must") => HidesHeaders(t)
  <2> SUFFICES ASSUME HidesHeaders(s), s[1] # Send("ATH0", "must"), NEW k \in 1..Len(t), t[k].cmd = "PID"
               PROVE  \E j \in 1..(k - 1) : t[j] = Send("ATH0", "must")
    BY <1>2 DEF HidesHeaders
  <2>1. s[k + 1].cmd = "PID" /\ k + 1 \in 1..n
    BY <1>3
  <2>2. PICK j \in 1..((k + 1) - 1) : s[j] = Send("ATH0", "must")
    BY <2>1 DEF HidesHeaders
  <2>3. j # 1 /\ j - 1 \in 1..(k - 1) /\ j - 1 \in 1..(n - 1)
    BY <1>3, <2>2
  <2>4. t[j - 1] = s[j]
    BY <1>3, <2>3
  <2> QED BY <2>2, <2>3, <2>4
<1>8. Head(s).cmd = "ATH1" => HidesHeaders(s)
  <2> SUFFICES ASSUME s[1].cmd = "ATH1", NEW k \in 1..n PROVE s[k].cmd # "PID"
    BY <1>2 DEF HidesHeaders
  <2>1. CASE k = 1
    BY <2>1
  <2>2. CASE k # 1
    <3>1. 1 \in 1..n /\ 1 < k
      BY <1>3, <2>2
    <3> QED BY <3>1 DEF PollTodo
  <2> QED BY <2>1, <2>2
<1>9. HidesHeaders(s) => Head(s).cmd # "PID"
  <2>1. 1 \in 1..n /\ 1..(1 - 1) = {}
    BY <1>3
  <2> QED BY <1>2, <2>1 DEF HidesHeaders
<1> QED BY <1>2, <1>4, <1>5, <1>6, <1>7, <1>8, <1>9

LEMMA InitTail ==
  ASSUME NEW s \in Seq(InitSteps)
  PROVE  /\ HidesHeaders(s)
         /\ s # <<>> => /\ Tail(s) \in Seq(InitSteps) /\ Head(s) \in InitSteps
                        /\ SilencesEcho(s) /\ Head(s).cmd # "ATE0" => SilencesEcho(Tail(s))
         /\ s # <<>> /\ s = todo => RetryAte0 \in Seq(InitSteps) /\ SilencesEcho(RetryAte0)
<1>1. HidesHeaders(s)
  <2>1. \A k \in 1..Len(s) : s[k] \in InitSteps
    <3> HIDE DEF InitSteps
    <3> QED OBVIOUS
  <2> QED BY <2>1, InitFacts DEF HidesHeaders
<1>2. ASSUME s # <<>>
      PROVE  /\ Tail(s) \in Seq(InitSteps) /\ Head(s) \in InitSteps
             /\ SilencesEcho(s) /\ Head(s).cmd # "ATE0" => SilencesEcho(Tail(s))
             /\ s = todo => RetryAte0 \in Seq(InitSteps) /\ SilencesEcho(RetryAte0)
  <2> HIDE DEF InitSteps
  <2>1. /\ Head(s) \in InitSteps /\ Head(s) = s[1] /\ Tail(s) \in Seq(InitSteps) /\ Len(s) \in Nat
        /\ Len(s) >= 1 /\ Len(Tail(s)) = Len(s) - 1
        /\ \A k \in 1..Len(Tail(s)) : Tail(s)[k] = s[k + 1]
    BY <1>2, Tails
  <2>2. ASSUME SilencesEcho(s), Head(s).cmd # "ATE0" PROVE SilencesEcho(Tail(s))
    <3>1. PICK k \in 1..Len(s) : s[k].cmd = "ATE0"
      BY <2>2 DEF SilencesEcho
    <3>2. k # 1 /\ k - 1 \in 1..Len(Tail(s)) /\ Tail(s)[k - 1] = s[k]
      BY <2>1, <2>2, <3>1
    <3> QED BY <3>1, <3>2 DEF SilencesEcho
  <2>3. ASSUME s = todo PROVE RetryAte0 \in Seq(InitSteps) /\ SilencesEcho(RetryAte0)
    <3> DEFINE d == Drain("clear")
               e == Send("ATE0", "ate0again")
    <3>1. d \in InitSteps /\ e \in InitSteps /\ e.cmd = "ATE0"
      BY DEF InitSteps, Send
    <3>2. RetryAte0 = <<d, e>> \o Tail(s)
      BY <2>3 DEF RetryAte0
    <3> HIDE DEF d, e
    <3>3. /\ <<d, e>> \o Tail(s) \in Seq(InitSteps)
          /\ 2 \in 1..Len(<<d, e>> \o Tail(s)) /\ (<<d, e>> \o Tail(s))[2] = e
      BY <2>1, <3>1
    <3> QED BY <3>1, <3>2, <3>3 DEF SilencesEcho
  <2> QED BY <2>1, <2>2, <2>3
<1> QED BY <1>1, <1>2

\* What follows one kind of source, or one way out of it.
PollScript(s) ==
  /\ PollTodo(s)
  /\ HidesHeaders(s)

LEMMA UdsScript ==
  ASSUME NEW s \in Seq(PollSteps), Len(s) = 8, s[6] = Send("ATH0", "must"),
         \A k \in 1..7 : s[k].do = "reply" /\ s[k].cmd \notin {"ATH1", "PID"},
         s[8].do # "await", s[8].cmd # "ATH1"
  PROVE  PollScript(s) /\ Head(s) \notin {AwaitPrompt, StopMonitor}
<1>1. \A k \in 1..8 : k = 8 \/ k \in 1..7
  OBVIOUS
<1>2. HidesHeaders(s)
  <2>1. \A k \in 1..8 : s[k].cmd = "PID" => k = 8
    BY <1>1
  <2>2. 6 \in 1..(8 - 1)
    OBVIOUS
  <2> QED BY <2>1, <2>2 DEF HidesHeaders
<1>3. PollTodo(s)
  <2>1. \A k \in 1..8 : s[k].do # "await" /\ s[k].cmd # "ATH1"
    BY <1>1
  <2>2. \A k \in 1..7 : s[k].do \notin {"lines", "scan"}
    OBVIOUS
  <2> QED BY <2>1, <2>2 DEF PollTodo
<1>4. Head(s) = s[1] /\ s[1].do = "reply" /\ AwaitPrompt.do = "await" /\ StopMonitor.do = "await"
  BY DEF AwaitPrompt, StopMonitor
<1> QED BY <1>2, <1>3, <1>4 DEF PollScript

LEMMA SourceScripts ==
  ASSUME NEW i \in 1..Len(Sources)
  PROVE  /\ PollScript(SourceScript(Sources[i]))
         /\ Head(SourceScript(Sources[i])) \notin {AwaitPrompt, StopMonitor}
<1>1. Sources[i] \in {"uds", "multiframe", "broadcast"}
  BY SessionAssumption
<1> DEFINE w == UdsSetup
           b == <<Send("ATH1", "broadcast"), Scan>>
<1>2. SourceScript(Sources[i]) \in {Append(w, Send("PID", "must")), Append(w, ReadLines), b}
  BY <1>1 DEF SourceScript
<1>3. /\ w \in Seq(PollSteps) /\ Len(w) = 7
      /\ \A k \in 1..7 : w[k].do = "reply" /\ w[k].cmd \notin {"ATH1", "PID"}
      /\ w[6] = Send("ATH0", "must")
  <2>1. w \in Seq(PollSteps)
    BY DEF UdsSetup, PollSteps, Tried
  <2>2. /\ Len(w) = 7 /\ w[6] = Send("ATH0", "must")
        /\ \A k \in 1..7 : w[k].do = "reply" /\ w[k].cmd \notin {"ATH1", "PID"}
    BY DEF UdsSetup, Send
  <2> QED BY <2>1, <2>2
<1>4. ASSUME NEW x \in {Send("PID", "must"), ReadLines}
      PROVE  PollScript(Append(w, x)) /\ Head(Append(w, x)) \notin {AwaitPrompt, StopMonitor}
  <2>1. x \in PollSteps
    BY DEF PollSteps
  <2>2. x.do # "await" /\ x.cmd # "ATH1"
    BY DEF Send, ReadLines
  <2>3. w \in Seq(PollSteps)
    BY <1>3
  <2> HIDE DEF w
  <2>4. /\ Append(w, x) \in Seq(PollSteps) /\ Len(Append(w, x)) = Len(w) + 1
        /\ Append(w, x)[Len(w) + 1] = x /\ \A k \in 1..Len(w) : Append(w, x)[k] = w[k]
    BY <2>1, <2>3, Appended
  <2> DEFINE s == Append(w, x)
  <2> HIDE DEF s
  <2>5. s \in Seq(PollSteps) /\ Len(s) = 8 /\ s[8] = x /\ \A k \in 1..7 : s[k] = w[k]
    BY <1>3, <2>4 DEF s
  <2>6. /\ \A k \in 1..7 : s[k].do = "reply" /\ s[k].cmd \notin {"ATH1", "PID"}
        /\ s[6] = Send("ATH0", "must")
    BY <1>3, <2>5
  <2> QED BY <2>2, <2>5, <2>6, UdsScript DEF s
<1>5. PollScript(b) /\ Head(b) \notin {AwaitPrompt, StopMonitor}
  <2>1. b \in Seq(PollSteps)
    BY DEF PollSteps
  <2>2. Len(b) = 2 /\ b[1].do = "reply" /\ b[1].cmd = "ATH1" /\ b[2].do = "scan" /\ b[2].cmd = "ATMA"
    BY DEF Send, Scan
  <2>3. \A k \in 1..2 : b[k].cmd # "PID" /\ b[k].do # "await"
    BY <2>2
  <2>4. PollTodo(b) /\ HidesHeaders(b)
    <3> HIDE DEF b
    <3> QED BY <2>1, <2>2, <2>3 DEF PollTodo, HidesHeaders
  <2>5. Head(b) = b[1] /\ AwaitPrompt.do = "await" /\ StopMonitor.do = "await"
    BY DEF AwaitPrompt, StopMonitor
  <2> QED BY <2>2, <2>4, <2>5 DEF PollScript
<1> HIDE DEF w, b
<1> QED BY <1>2, <1>4, <1>5

LEMMA ExitScripts ==
  /\ PollScript(AfterLines) /\ AfterLines # <<>> /\ Head(AfterLines) \notin {AwaitPrompt, StopMonitor}
  /\ PollScript(<<AwaitPrompt>> \o AfterLines) /\ <<AwaitPrompt>> \o AfterLines # <<>>
  /\ Head(<<AwaitPrompt>> \o AfterLines) = AwaitPrompt
  /\ PollScript(AfterError) /\ AfterError # <<>> /\ Head(AfterError) = AwaitPrompt
  /\ PollScript(AfterScan) /\ AfterScan # <<>> /\ Head(AfterScan) \notin {AwaitPrompt, StopMonitor}
  /\ PollScript(<<StopMonitor>> \o AfterScan) /\ <<StopMonitor>> \o AfterScan # <<>>
  /\ Head(<<StopMonitor>> \o AfterScan) = StopMonitor
  /\ PollScript(<<>>)
<1> DEFINE a1 == Send("ATH0", "try")
           a2 == Send("ATS1", "try")
           a3 == Send("ATCRA", "try")
           p  == AwaitPrompt
           q  == StopMonitor
           g  == GiveUp
<1>1. {a1, a2, a3, p, q, g} \subseteq PollSteps
  BY DEF PollSteps, Tried
<1>2. /\ \A s \in {a1, a2, a3, p, q, g} : s.cmd \notin {"PID", "ATH1"} /\ s.do \notin {"lines", "scan"}
      /\ \A s \in {a1, a2, a3, g} : s.do # "await"
      /\ p.do = "await" /\ q.do = "await"
  BY DEF Send, AwaitPrompt, StopMonitor, GiveUp
<1>3. ASSUME NEW s \in Seq(PollSteps), \A k \in 1..Len(s) : s[k] \in {a1, a2, a3, p, q, g},
             \A k \in 2..Len(s) : s[k] \in {a1, a2, a3, g}
      PROVE  PollScript(s)
  <2> HIDE DEF a1, a2, a3, p, q, g, PollSteps
  <2>1. Len(s) \in Nat
    OBVIOUS
  <2>2. \A k \in 1..(Len(s) - 1) : k \in 1..Len(s)
    BY <2>1
  <2> QED BY <1>2, <1>3, <2>1, <2>2 DEF PollScript, PollTodo, HidesHeaders
<1>4. /\ AfterLines = <<a1, a2, a3>> /\ AfterError = <<p, a1, g>> /\ AfterScan = <<a3, a1>>
      /\ <<AwaitPrompt>> \o AfterLines = <<p>> \o <<a1, a2, a3>>
      /\ <<StopMonitor>> \o AfterScan = <<q>> \o <<a3, a1>>
  BY DEF AfterLines, AfterError, AfterScan
<1> HIDE DEF a1, a2, a3, p, q, g, PollSteps
<1>6. PollScript(<<a1, a2, a3>>) /\ <<a1, a2, a3>> # <<>> /\ Head(<<a1, a2, a3>>) = a1
  <2> DEFINE s == <<a1, a2, a3>>
  <2>1. /\ s \in Seq(PollSteps) /\ Len(s) = 3
        /\ s[1] = a1 /\ s[2] = a2 /\ s[3] = a3
        /\ s # <<>> /\ Head(s) = a1
    BY <1>1
  <2> HIDE DEF s
  <2>2. PollScript(s)
    BY <1>3, <2>1
  <2> QED BY <2>1, <2>2 DEF s
<1>7. PollScript(<<p>> \o <<a1, a2, a3>>) /\ <<p>> \o <<a1, a2, a3>> # <<>> /\ Head(<<p>> \o <<a1, a2, a3>>) = p
  <2> DEFINE s == <<p>> \o <<a1, a2, a3>>
  <2>1. /\ s \in Seq(PollSteps) /\ Len(s) = 4
        /\ s[1] = p /\ s[2] = a1 /\ s[3] = a2 /\ s[4] = a3
        /\ s # <<>> /\ Head(s) = p
    BY <1>1
  <2> HIDE DEF s
  <2>2. PollScript(s)
    BY <1>3, <2>1
  <2> QED BY <2>1, <2>2 DEF s
<1>8. PollScript(<<p, a1, g>>) /\ <<p, a1, g>> # <<>> /\ Head(<<p, a1, g>>) = p
  <2> DEFINE s == <<p, a1, g>>
  <2>1. /\ s \in Seq(PollSteps) /\ Len(s) = 3
        /\ s[1] = p /\ s[2] = a1 /\ s[3] = g
        /\ s # <<>> /\ Head(s) = p
    BY <1>1
  <2> HIDE DEF s
  <2>2. PollScript(s)
    BY <1>3, <2>1
  <2> QED BY <2>1, <2>2 DEF s
<1>9. PollScript(<<a3, a1>>) /\ <<a3, a1>> # <<>> /\ Head(<<a3, a1>>) = a3
  <2> DEFINE s == <<a3, a1>>
  <2>1. /\ s \in Seq(PollSteps) /\ Len(s) = 2
        /\ s[1] = a3 /\ s[2] = a1
        /\ s # <<>> /\ Head(s) = a3
    BY <1>1
  <2> HIDE DEF s
  <2>2. PollScript(s)
    BY <1>3, <2>1
  <2> QED BY <2>1, <2>2 DEF s
<1>10. PollScript(<<q>> \o <<a3, a1>>) /\ <<q>> \o <<a3, a1>> # <<>> /\ Head(<<q>> \o <<a3, a1>>) = q
  <2> DEFINE s == <<q>> \o <<a3, a1>>
  <2>1. /\ s \in Seq(PollSteps) /\ Len(s) = 3
        /\ s[1] = q /\ s[2] = a3 /\ s[3] = a1
        /\ s # <<>> /\ Head(s) = q
    BY <1>1
  <2> HIDE DEF s
  <2>2. PollScript(s)
    BY <1>3, <2>1
  <2> QED BY <2>1, <2>2 DEF s
<1>11. PollScript(<<>>)
  <2>1. <<>> \in Seq(PollSteps) /\ Len(<<>>) = 0
    OBVIOUS
  <2> QED BY <2>1 DEF PollScript, PollTodo, HidesHeaders
<1>12. {a1, a3} \cap {p, q} = {}
  BY <1>2
<1>13. p = AwaitPrompt /\ q = StopMonitor
  BY DEF p, q
<1> QED BY <1>4, <1>6, <1>7, <1>8, <1>9, <1>10, <1>11, <1>12, <1>13

LEMMA ConnectScripts ==
  ASSUME ResetFirst, probes \in BOOLEAN
  PROVE  FromProbe(ConnectScript) \/ FromDrain(ConnectScript)
<1> DEFINE S == ResetStep
           T == {InitStep(c) : c \in Setting}
           n == Len(InitList)
           ms == [i \in 1..n |-> InitStep(InitList[i])]
           rs == IF Contains(InitList, "ATE0") THEN <<>> ELSE <<Send("ATE0", "ate0")>>
           is == ms \o rs
<1>1. T \subseteq InitSteps
  BY DEF InitSteps, InitStep, Setting
<1>2. n \in Nat /\ n >= 1 /\ InitList[1] = "ATZ" /\ \A k \in 2..n : InitList[k] \in Setting
  BY SessionAssumption DEF ResetFirst
<1>3. InitStep("ATZ") = ResetStep
  BY DEF InitStep, ResetStep
<1>4. ms[1] = ResetStep /\ \A k \in 2..n : ms[k] \in InitSteps
  BY <1>1, <1>2, <1>3
<1>5. Send("ATE0", "ate0") \in InitSteps /\ Send("ATE0", "ate0").cmd = "ATE0"
  BY DEF InitSteps, Send
<1>6. ASSUME NEW k \in 1..n, InitList[k] = "ATE0" PROVE k \in 2..n /\ ms[k].cmd = "ATE0"
  <2>1. k # 1
    BY <1>2, <1>6
  <2>2. InitStep("ATE0").cmd = "ATE0"
    BY DEF InitStep, Send
  <2> QED BY <1>2, <1>6, <2>1, <2>2
<1>7. Len(ms) = n /\ ms \in Seq(InitSteps \cup {ResetStep}) /\ rs \in Seq(InitSteps) /\ rs \in Seq(InitSteps \cup {ResetStep})
  <2> HIDE DEF InitSteps
  <2>1. \A k \in 1..n : ms[k] \in InitSteps \cup {ResetStep}
    <3>1. \A k \in 1..n : k = 1 \/ k \in 2..n
      BY <1>2
    <3> HIDE DEF ms
    <3> QED BY <1>4, <3>1
  <2> HIDE DEF ms
  <2>2. ms = [i \in 1..n |-> ms[i]]
    BY DEF ms
  <2>3. Len(ms) = n /\ ms \in Seq(InitSteps \cup {ResetStep})
    BY <1>2, <2>1, <2>2
  <2>4. rs \in Seq(InitSteps) /\ rs \in Seq(InitSteps \cup {ResetStep})
    <3> DEFINE e == Send("ATE0", "ate0")
    <3>1. rs \in {<<>>, <<e>>} /\ e \in InitSteps
      BY <1>5
    <3>2. <<>> \in Seq(InitSteps) /\ <<>> \in Seq(InitSteps \cup {ResetStep})
      OBVIOUS
    <3> HIDE DEF e, rs
    <3>3. <<e>> \in Seq(InitSteps) /\ <<e>> \in Seq(InitSteps \cup {ResetStep})
      BY <3>1
    <3> QED BY <3>1, <3>2, <3>3
  <2> QED BY <2>3, <2>4
<1>8. Contains(InitList, "ATE0") => \E k \in 1..n : InitList[k] = "ATE0"
  BY DEF Contains
<1> HIDE DEF ms, rs, InitSteps
<1>9. /\ is # <<>> /\ Head(is) = ResetStep /\ Tail(is) \in Seq(InitSteps \cup {ResetStep})
      /\ Len(Tail(is)) = (n - 1) + Len(rs) /\ Len(rs) \in Nat
      /\ \A k \in 2..n : Tail(is)[k - 1] = ms[k]
      /\ \A k \in 1..Len(rs) : Tail(is)[(n - 1) + k] = rs[k]
  BY <1>2, <1>4, <1>7
<1>10. Tail(is) \in Seq(InitSteps)
  <2>1. ASSUME NEW k \in 1..Len(Tail(is)) PROVE Tail(is)[k] \in InitSteps
    <3>1. CASE k \in 1..(n - 1)
      <4>1. k + 1 \in 2..n /\ (k + 1) - 1 = k
        BY <1>2, <3>1
      <4>2. Tail(is)[(k + 1) - 1] = ms[k + 1]
        BY <1>9, <4>1
      <4> QED BY <1>4, <4>1, <4>2
    <3>2. CASE k > n - 1
      <4>1. k - (n - 1) \in 1..Len(rs) /\ (n - 1) + (k - (n - 1)) = k
        BY <1>2, <1>9, <3>2
      <4>2. Tail(is)[(n - 1) + (k - (n - 1))] = rs[k - (n - 1)]
        BY <1>9, <4>1
      <4>3. rs[k - (n - 1)] \in InitSteps
        BY <1>7, <4>1
      <4> QED BY <4>1, <4>2, <4>3
    <3> QED BY <1>2, <3>1, <3>2
  <2> DEFINE t == Tail(is)
  <2>2. t \in Seq(InitSteps \cup {ResetStep})
    BY <1>9
  <2> HIDE DEF t
  <2>3. t = [k \in 1..Len(t) |-> t[k]] /\ Len(t) \in Nat
    BY <2>2
  <2>4. \A k \in 1..Len(t) : t[k] \in InitSteps
    BY <2>1 DEF t
  <2>5. t \in Seq(InitSteps)
    BY <2>3, <2>4
  <2> QED BY <2>5 DEF t
<1>11. SilencesEcho(Tail(is))
  <2>1. CASE Contains(InitList, "ATE0")
    <3>1. PICK k \in 1..n : InitList[k] = "ATE0"
      BY <1>8, <2>1
    <3>2. k \in 2..n /\ ms[k].cmd = "ATE0"
      BY <1>6, <3>1
    <3>3. k - 1 \in 1..Len(Tail(is)) /\ Tail(is)[k - 1] = ms[k]
      BY <1>2, <1>9, <3>2
    <3> QED BY <3>2, <3>3 DEF SilencesEcho
  <2>2. CASE ~Contains(InitList, "ATE0")
    <3>1. rs = <<Send("ATE0", "ate0")>>
      BY <2>2 DEF rs
    <3>2. Len(rs) = 1 /\ rs[1].cmd = "ATE0"
      BY <1>5, <3>1
    <3>3. (n - 1) + 1 \in 1..Len(Tail(is)) /\ Tail(is)[(n - 1) + 1] = rs[1]
      BY <1>2, <1>9, <3>2
    <3> QED BY <3>2, <3>3 DEF SilencesEcho
  <2> QED BY <2>1, <2>2
<1>12. FromReset(is)
  BY <1>9, <1>10, <1>11 DEF FromReset, AfterReset
<1>13. InitScript = <<Drain("try")>> \o ms \o rs /\ (<<Drain("try")>> \o ms) \o rs = <<Drain("try")>> \o is
  <2>1. InitScript = <<Drain("try")>> \o ms \o rs
    BY DEF InitScript, ms, rs
  <2>2. \A d : (<<d>> \o ms) \o rs = <<d>> \o is
    BY <1>2, <1>7
  <2> QED BY <2>1, <2>2
<1>14. is \in Seq(InitSteps \cup {ResetStep})
  BY <1>7
<1> HIDE DEF is
<1>15. \A d, s : s \in Seq(InitSteps \cup {ResetStep}) =>
         <<d>> \o s # <<>> /\ Head(<<d>> \o s) = d /\ Tail(<<d>> \o s) = s
  OBVIOUS
<1>16. FromDrain(InitScript)
  BY <1>12, <1>13, <1>14, <1>15 DEF FromDrain
<1>17. CASE probes
  <2>1. ConnectScript = <<Probe>> \o InitScript
    BY <1>17 DEF ConnectScript
  <2>2. \E S2 : InitScript \in Seq(S2)
    <3> DEFINE d == Drain("try")
    <3>1. InitScript = <<d>> \o is
      BY <1>13
    <3> HIDE DEF d
    <3>2. <<d>> \o is \in Seq(InitSteps \cup {ResetStep, d})
      BY <1>14
    <3> QED BY <3>1, <3>2
  <2>3. \A d, s, S2 : s \in Seq(S2) => <<d>> \o s # <<>> /\ Head(<<d>> \o s) = d /\ Tail(<<d>> \o s) = s
    OBVIOUS
  <2> QED BY <1>16, <2>1, <2>2, <2>3 DEF FromProbe
<1>18. CASE ~probes
  <2>1. ConnectScript = InitScript
    <3>1. ConnectScript = <<>> \o InitScript
      BY <1>18 DEF ConnectScript
    <3>2. \E S2 : InitScript \in Seq(S2)
      <4> DEFINE d == Drain("try")
      <4>1. InitScript = <<d>> \o is
        BY <1>13
      <4> HIDE DEF d
      <4>2. <<d>> \o is \in Seq(InitSteps \cup {ResetStep, d})
        BY <1>14
      <4> QED BY <4>1, <4>2
    <3>3. \A s, S2 : s \in Seq(S2) => <<>> \o s = s
      OBVIOUS
    <3> QED BY <3>1, <3>2, <3>3
  <2> QED BY <1>16, <2>1
<1> QED BY <1>17, <1>18

-----------------------------------------------------------------------------
(* The chip moves *)

LEMMA ReadingCommand ==
  ASSUME Synced, AtStep, Reading
  PROVE  /\ todo # <<>> /\ Head(todo).do = pc /\ Head(todo).cmd \in Written
         /\ Head(todo).cmd = "ATH1" => HidesHeaders(todo)
         /\ Head(todo).cmd = "ATMA" <=> pc = "scan"
<1>1. todo # <<>> /\ Head(todo).do = pc /\ pc \in {"reply", "lines", "scan"}
  BY DEF AtStep, Reading
<1>2. CASE source = 0
  <2>1. todo \in Seq(InitSteps)
    BY <1>2 DEF Synced
  <2>2. HidesHeaders(todo) /\ Head(todo) \in InitSteps
    BY <1>1, <2>1, InitTail
  <2> QED BY <1>1, <2>2, InitFacts
<1>3. CASE source # 0
  <2>1. PollTodo(todo)
    BY <1>3 DEF Synced
  <2>2. Head(todo) \in PollSteps /\ (Head(todo).cmd = "ATH1" => HidesHeaders(todo))
    BY <1>1, <2>1, PollTail
  <2>3. {"PID", "ATMA"} \subseteq Written
    BY DEF Written, Obd
  <2> QED BY <1>1, <2>2, <2>3, PollFacts
<1> QED BY <1>2, <1>3

LEMMA ChipQuietSettings ==
  ASSUME up \in BOOLEAN, Quiet, ChipMove, ~Reading, SettingsInForce
  PROVE  SettingsInForce'
<1>1. UNCHANGED <<pc, todo, source>> /\ ~Reading' /\ pc # "reply"
  BY DEF ChipMove, sessionVars, Reading
<1>2. /\ SilencesEcho(todo)' <=> SilencesEcho(todo)
      /\ HidesHeaders(todo)' <=> HidesHeaders(todo)
  BY <1>1 DEF SilencesEcho, HidesHeaders
<1>3. CASE ~up \/ ~up'
  <2>1. ~up'
    BY <1>3, ChipDown
  <2> QED BY <1>1, <2>1 DEF SettingsInForce
<1>4. CASE up /\ up'
  <2>1. UNCHANGED <<echo, headers>>
    BY <1>4, ChipRests DEF Quiet, chipVars
  <2> QED BY <1>1, <1>2, <1>4, <2>1 DEF SettingsInForce
<1> QED BY <1>3, <1>4

LEMMA ChipKeepsSync ==
  ASSUME Timely, TypeOK, Working, AtStep, Synced, ChipMove
  PROVE  Synced'
<1>1. /\ UNCHANGED <<pc, todo, source, outOfSync>> /\ (Reading' <=> Reading)
      /\ (AwaitsRest' <=> AwaitsRest) /\ (AwaitsStop' <=> AwaitsStop)
  BY DEF ChipMove, sessionVars, Reading, AwaitsRest, AwaitsStop
<1>2. ChipTypeOK /\ up \in BOOLEAN /\ outOfSync \in BOOLEAN
  BY DEF TypeOK, ChipTypeOK
<1>3. /\ IF source' = 0 THEN todo' \in Seq(InitSteps) ELSE PollTodo(todo)'
      /\ pc' = "rest" => todo' = <<>>
  BY <1>1 DEF Synced, PollTodo
<1>4. /\ Pipeline /\ SettingsInForce
      /\ outOfSync => ~(AwaitsRest \/ AwaitsStop \/ Reading)
      /\ pc = "resync" => outOfSync
  BY DEF Synced, Pipeline
<1>5. {"PID", "ATMA", "ATE0"} \cup Tried \subseteq Written
  BY DEF Written, Obd, Setting, Tried
<1>6. CASE outOfSync
  <2>1. PICK c \in Tried \cup {"ATE0"} : Exchange(c)
    BY <1>4, <1>6 DEF Pipeline
  <2>2. c \in Written /\ c # "ATH1"
    BY <1>5 DEF Tried
  <2>3. Exchange(c)'
    BY <1>2, <2>1, <2>2, ChipExchange
  <2>4. SettingsInForce'
    BY <1>2, <1>4, <1>6, <2>1, <2>2, ChipSettings
  <2>5. Pipeline'
    BY <1>1, <1>4, <1>6, <2>3 DEF Pipeline
  <2> QED BY <1>3, <2>4, <2>5 DEF Synced
<1>7. CASE Reading
  <2> DEFINE c == Head(todo).cmd
  <2>1. c \in Written /\ (c = "ATH1" => HidesHeaders(todo)) /\ Exchange(c) /\ c' = c
    BY <1>1, <1>4, <1>7, ReadingCommand DEF Pipeline
  <2>2. PICK d : d = c
    OBVIOUS
  <2> HIDE DEF c
  <2>3. d \in Written /\ (d = "ATH1" => HidesHeaders(todo)) /\ Exchange(d)
    BY <2>1, <2>2
  <2>4. Exchange(d)' /\ SettingsInForce'
    <3>1. d = Head(todo).cmd
      BY <2>2 DEF c
    <3> QED BY <1>2, <1>4, <2>3, <3>1, ChipExchange, ChipSettings
  <2>5. Head(todo').cmd = d
    BY <1>1, <2>2 DEF c
  <2>6. Exchange(Head(todo).cmd)'
    BY <2>4, <2>5 DEF Exchange, Answers
  <2>7. ~outOfSync' /\ Reading' /\ ~AwaitsRest' /\ ~AwaitsStop' /\ pc' # "resync"
    BY <1>1, <1>4, <1>7 DEF Reading, AwaitsRest, AwaitsStop
  <2>8. Pipeline'
    BY <2>6, <2>7 DEF Pipeline
  <2> QED BY <1>3, <2>4, <2>8 DEF Synced
<1>8. CASE AwaitsRest
  <2>1. Exchange("PID") /\ ~outOfSync /\ ~Reading /\ ~AwaitsStop /\ pc # "resync"
    BY <1>4, <1>8 DEF Pipeline, AwaitsRest, AwaitsStop, Reading, AwaitPrompt, StopMonitor
  <2>2. Exchange("PID")' /\ SettingsInForce'
    BY <1>2, <1>4, <1>5, <2>1, ChipExchange, ChipSettings
  <2>3. Pipeline'
    BY <1>1, <1>8, <2>1, <2>2 DEF Pipeline
  <2> QED BY <1>3, <2>2, <2>3 DEF Synced
<1>9. CASE AwaitsStop
  <2>1. Exchange("ATMA") /\ ~outOfSync /\ ~Reading /\ ~AwaitsRest /\ pc # "resync"
    BY <1>4, <1>9 DEF Pipeline, AwaitsRest, AwaitsStop, Reading, AwaitPrompt, StopMonitor
  <2>2. Exchange("ATMA")' /\ SettingsInForce'
    BY <1>2, <1>4, <1>5, <2>1, ChipExchange, ChipSettings
  <2>3. pc = "ready" => (up' => mode' = "monitor") /\ \A k \in 1..Len(output') : output'[k].text \notin Prompts
    BY <1>2, <1>4, <1>9, <2>1, ChipBeforeStop DEF Pipeline
  <2>4. Pipeline'
    BY <1>1, <1>9, <2>1, <2>2, <2>3 DEF Pipeline
  <2> QED BY <1>3, <2>2, <2>4 DEF Synced
<1>10. CASE ~(outOfSync \/ Reading \/ AwaitsRest \/ AwaitsStop)
  <2>1. Quiet' /\ SettingsInForce'
    BY <1>2, <1>4, <1>10, ChipQuiet, ChipQuietSettings DEF Pipeline
  <2>2. Pipeline'
    BY <1>1, <1>4, <1>10, <2>1 DEF Pipeline
  <2> QED BY <1>3, <2>1, <2>2 DEF Synced
<1> QED BY <1>6, <1>7, <1>8, <1>9, <1>10

LEMMA ChipKeepsGreeting ==
  ASSUME TypeOK, Working, Greeting, ChipMove
  PROVE  Greeting'
<1>1. UNCHANGED <<pc, todo, source, outOfSync>>
  BY DEF ChipMove, sessionVars
<1>2. ChipTypeOK /\ up \in BOOLEAN
  BY DEF TypeOK, ChipTypeOK
<1>3. /\ FromProbe(todo)' <=> FromProbe(todo)
      /\ FromDrain(todo)' <=> FromDrain(todo)
      /\ FromReset(todo)' <=> FromReset(todo)
      /\ LastAwait(todo)' <=> LastAwait(todo)
      /\ LastDrain(todo)' <=> LastDrain(todo)
  BY <1>1 DEF FromProbe, FromDrain, FromReset, LastAwait, LastDrain, AfterReset, SilencesEcho
<1>4. ResetSent => ResetSent'
  BY <1>2, ChipResets
<1>5. (up => input = <<>>) => (up' => input' = <<>>)
  BY <1>2, NoInputStays
<1> QED BY <1>1, <1>3, <1>4, <1>5 DEF Greeting

LEMMA ChipKeeps ==
  ASSUME Timely, SessionInv, ChipMove
  PROVE  SessionInv'
<1>1. TypeOK /\ Working /\ AtStep /\ (pc # "closed" => Greeting \/ Synced) /\ ChipTypeOK
  BY DEF SessionInv, TypeOK
<1>2. UNCHANGED sessionVars
  BY DEF ChipMove
<1>3. ChipTypeOK' /\ Working'
  BY <1>1, ChipTypes
<1>4. TypeOK' /\ AtStep'
  BY <1>1, <1>2, <1>3 DEF TypeOK, AtStep, sessionVars
<1>5. pc' # "closed" => Greeting' \/ Synced'
  BY <1>1, <1>2, ChipKeepsGreeting, ChipKeepsSync DEF sessionVars
<1> QED BY <1>3, <1>4, <1>5 DEF SessionInv

-----------------------------------------------------------------------------
(* The session moves: what it may do where, and the types *)

LEMMA Moves ==
  ASSUME SessionStep
  PROVE  /\ UNCHANGED <<probes, chipVars>> => UNCHANGED chipVars
         /\ pc = "closed" => Connect
         /\ pc = "rest" => StartCycle
         /\ pc = "ready" /\ todo = <<>> => Finish
         /\ pc = "ready" /\ todo # <<>> => StartRead \/ StartGiveUp \/ StartWrite
         /\ pc = "resync" => Resynced \/ ResyncFailed
         /\ pc = "reply" => ReplyRead \/ ReplyTimedOut \/ ReplyEof
         /\ pc = "await" => PromptRead \/ PromptMissed
         /\ pc = "drain" => DrainRead \/ DrainOver
         /\ pc = "lines" => LineRead \/ LinesTimedOut \/ LinesEof
         /\ pc = "scan" => ScanRead \/ ScanOver \/ LinesEof
         /\ UNCHANGED chipVars
  BY DEF SessionStep, Connect, StartCycle, Finish, StartRead, StartGiveUp, StartWrite, Resynced,
     ResyncFailed, ReplyRead, ReplyTimedOut, ReplyEof, PromptRead, PromptMissed, DrainRead, DrainOver,
     LineRead, LinesTimedOut, LinesEof, ScanRead, ScanOver, Step

\* The step at hand.
LEMMA Current ==
  ASSUME Greeting \/ Synced, todo # <<>>
  PROVE  /\ Head(todo).do \in {"reply", "await", "drain", "lines", "scan", "fail"}
         /\ Head(todo).cmd \in Commands \cup {"none"}
         /\ Head(todo).cmd = "none" => Head(todo).do \in {"await", "drain", "fail"}
         /\ Head(todo).cmd # "none" => Head(todo).do \in {"reply", "await", "lines", "scan"}
         /\ Head(todo).cmd \notin {"none", "CR"} => Head(todo).do \in {"reply", "lines", "scan"}
         /\ Head(todo).do \in {"reply", "lines", "scan"} => Head(todo).cmd \notin {"none", "CR"}
<1>1. {"CR", "ATZ"} \subseteq Commands /\ "none" \notin Commands
  BY DEF Commands, Obd, Setting
<1>2. CASE Greeting
  <2>1. Head(todo) \in {Probe, Drain("try"), ResetStep, AwaitPrompt}
    BY <1>2 DEF Greeting, FromProbe, FromDrain, FromReset, LastAwait, LastDrain
  <2> QED BY <1>1, <2>1, GreetingFacts
<1>3. CASE Synced /\ source = 0
  <2>1. Head(todo) \in InitSteps
    BY <1>3, InitTail DEF Synced
  <2> QED BY <1>1, <2>1, InitFacts, Remembrance
<1>4. CASE Synced /\ source # 0
  <2>1. Head(todo) \in PollSteps
    BY <1>4, PollTail DEF Synced
  <2>2. {"PID", "ATMA"} \subseteq Commands
    BY DEF Commands, Obd
  <2> QED BY <1>1, <2>1, <2>2, PollFacts, Remembrance
<1> QED BY <1>2, <1>3, <1>4

LEMMA ReadTypes ==
  ASSUME output \in Seq(Lines)
  PROVE  /\ ReadReply => output' \in Seq(Lines)
         /\ DiscardAll => output' \in Seq(Lines)
         /\ output # <<>> => Tail(output) \in Seq(Lines)
<1>1. PromptAt \in 0..Len(output) /\ Len(output) \in Nat
  BY FirstPrompt
<1>2. \A k \in 0..Len(output) : SubSeq(output, k + 1, Len(output)) \in Seq(Lines)
  <2> HIDE DEF Lines
  <2> QED OBVIOUS
<1>3. <<>> \in Seq(Lines)
  OBVIOUS
<1>4. output # <<>> => Tail(output) \in Seq(Lines)
  <2> HIDE DEF Lines
  <2> QED OBVIOUS
<1> QED BY <1>1, <1>2, <1>3, <1>4 DEF ReadReply, DiscardAll

LEMMA WriteTypes ==
  ASSUME input \in Seq(Commands), NEW c \in Commands, Write(c)
  PROVE  input' \in Seq(Commands)
<1> HIDE DEF Commands
<1> QED BY DEF Write

LEMMA FailedShape ==
  ASSUME NEW why, Failed(why)
  PROVE  pc' \in {"ready", "closed"}
  BY DEF Failed, Fail, GoOn

LEMMA RepliedShape ==
  ASSUME NEW texts, Replied(texts)
  PROVE  pc' \in {"ready", "closed"}
  BY DEF Replied, Failed, Fail, GoOn

LEMMA SessionTypes ==
  ASSUME TypeOK, Working, AtStep, pc # "closed" => Greeting \/ Synced,
         SessionStep \/ Disconnect, UNCHANGED probes
  PROVE  TypeOK' /\ Working' /\ AtStep'
<1>1. UNCHANGED chipVars
  BY Moves DEF Disconnect
<1>2. Working'
  BY <1>1 DEF Working, chipVars
<1>3. /\ up \in BOOLEAN /\ input \in Seq(Commands) /\ output \in Seq(Lines) /\ pc \in PcStates
      /\ source \in 0..Len(Sources) /\ outOfSync \in BOOLEAN /\ count \in 0..MaxLines
      /\ pc \notin {"closed", "rest", "ready"} => todo # <<>>
      /\ pc \notin {"lines", "scan"} => count = 0
      /\ MaxLines \in Nat \ {0} /\ Len(Sources) \in Nat
  BY SessionAssumption DEF TypeOK, ChipTypeOK, AtStep
<1>4. ASSUME up' \in BOOLEAN, input' \in Seq(Commands), output' \in Seq(Lines), pc' \in PcStates,
             source' \in 0..Len(Sources), outOfSync' \in BOOLEAN, count' \in 0..MaxLines,
             pc' \notin {"closed", "rest", "ready"} => todo' # <<>>,
             pc' \in {"reply", "await", "drain", "lines", "scan"} => Head(todo').do = pc',
             pc' = "resync" => Head(todo').do \in {"reply", "lines", "scan"},
             pc' \notin {"lines", "scan"} => count' = 0
      PROVE  TypeOK' /\ AtStep'
  <2>1. ChipTypeOK'
    BY <1>1, <1>4 DEF TypeOK, ChipTypeOK, chipVars
  <2> QED BY <1>4, <2>1 DEF TypeOK, AtStep, PcStates
<1>5. ASSUME pc' \in {"closed", "rest", "ready"}, count' = 0, up' \in BOOLEAN,
             input' \in Seq(Commands), output' \in Seq(Lines), source' \in 0..Len(Sources),
             outOfSync' \in BOOLEAN
      PROVE  TypeOK' /\ AtStep'
  <2>1. count' \in 0..MaxLines /\ pc' \in PcStates
    BY <1>3, <1>5 DEF PcStates
  <2> QED BY <1>4, <1>5, <2>1
<1> HIDE DEF PcStates, Commands, Lines
<1>6. CASE SessionStep /\ pc = "closed"
  <2>1. Connect
    BY <1>6, Moves
  <2>2. <<>> \in Seq(Commands) /\ <<>> \in Seq(Lines) /\ <<[of |-> "rest", text |-> ">"]>> \in Seq(Lines)
    <3>1. [of |-> "rest", text |-> ">"] \in Lines
      BY DEF Lines, Commands, Texts, Prompts
    <3> QED BY <3>1
  <2>3. /\ up' \in BOOLEAN /\ input' \in Seq(Commands) /\ output' \in Seq(Lines)
        /\ source' \in 0..Len(Sources) /\ outOfSync' \in BOOLEAN
    <3>1. up' = TRUE /\ input' = <<>> /\ source' = 0 /\ outOfSync' = FALSE
      BY <2>1 DEF Connect
    <3>2. output' = <<>> \/ output' = <<[of |-> "rest", text |-> ">"]>>
      BY <2>1 DEF Connect
    <3>3. output' \in Seq(Lines)
      BY <2>2, <3>2, Zenon
    <3>4. input' \in Seq(Commands) /\ up' \in BOOLEAN /\ outOfSync' \in BOOLEAN
      BY <2>2, <3>1
    <3>5. source' \in 0..Len(Sources)
      BY <1>3, <3>1
    <3> QED BY <3>3, <3>4, <3>5
  <2>4. pc' = "ready" /\ count' = 0
    BY <1>3, <1>6, <2>1 DEF Connect, GoOn
  <2> QED BY <1>2, <1>5, <2>3, <2>4
<1>7. CASE SessionStep /\ pc = "rest"
  <2>1. StartCycle
    BY <1>7, Moves
  <2>2. 1 \in 0..Len(Sources)
    BY <2>1, SessionAssumption DEF StartCycle
  <2> QED BY <1>2, <1>3, <1>4, <1>5, <1>7, <2>1, <2>2 DEF StartCycle, StartSource, GoOn, linkVars
<1>8. CASE SessionStep /\ pc = "ready" /\ todo = <<>>
  <2>1. Finish
    BY <1>8, Moves
  <2> QED BY <1>2, <1>3, <1>4, <1>5, <1>8, <2>1 DEF Finish, StartSource, GoOn, linkVars
<1>9. CASE SessionStep /\ pc = "ready" /\ todo # <<>>
  <2> DEFINE h == Head(todo)
  <2>1. /\ h.do \in {"reply", "await", "drain", "lines", "scan", "fail"}
        /\ h.cmd \in Commands \cup {"none"}
        /\ h.cmd = "none" => h.do \in {"await", "drain", "fail"}
        /\ h.cmd # "none" => h.do \in {"reply", "await", "lines", "scan"}
        /\ h.cmd \notin {"none", "CR"} => h.do \in {"reply", "lines", "scan"}
    BY <1>9, Current
  <2> HIDE DEF h
  <2>2. CASE StartRead
    <3>1. pc' = h.do /\ h.do \in {"await", "drain"} /\ UNCHANGED <<linkVars, todo, source, outOfSync, count>>
      BY <2>1, <2>2 DEF StartRead, h
    <3>2. pc' \in PcStates /\ Head(todo').do = pc'
      BY <3>1 DEF PcStates, h
    <3> QED BY <1>2, <1>3, <1>4, <1>9, <3>1, <3>2 DEF linkVars
  <2>3. CASE StartGiveUp
    BY <1>2, <1>3, <1>4, <1>5, <1>9, <2>3 DEF StartGiveUp, Fail, linkVars
  <2>4. CASE StartWrite
    <3>1. h.cmd \in Commands /\ (input' = input \/ Write(h.cmd))
      BY <2>1, <2>4 DEF StartWrite, h
    <3>2. input' \in Seq(Commands)
      BY <1>3, <3>1, WriteTypes
    <3>3. \/ pc' = "resync" /\ h.do \in {"reply", "lines", "scan"}
          \/ pc' = h.do /\ h.do \in {"reply", "await", "lines", "scan"}
      BY <2>1, <2>4, <3>1 DEF StartWrite, h
    <3>4. pc' \in PcStates \ {"closed", "rest", "ready"} /\ UNCHANGED <<up, output, todo, source, outOfSync, count>>
      BY <2>4, <3>3 DEF PcStates, StartWrite
    <3>5. /\ pc' = "resync" => Head(todo').do \in {"reply", "lines", "scan"}
          /\ pc' # "resync" => Head(todo').do = pc'
      BY <2>1, <3>3, <3>4 DEF h
    <3> QED BY <1>2, <1>3, <1>4, <1>9, <3>2, <3>4, <3>5
  <2> QED BY <1>9, <2>2, <2>3, <2>4, Moves
<1>10. CASE SessionStep /\ pc = "resync"
  <2>1. CASE Resynced
    <3>1. Head(todo).do \in {"reply", "lines", "scan"} /\ Head(todo).cmd \in Commands
      BY <1>3, <1>10, Current DEF AtStep
    <3>2. input' \in Seq(Commands) /\ output' \in Seq(Lines)
      BY <1>3, <2>1, <3>1, WriteTypes, ReadTypes DEF Resynced
    <3>3. pc' \in PcStates /\ pc' # "resync" /\ Head(todo').do = pc' /\ todo' = todo /\ outOfSync' = FALSE
          /\ UNCHANGED <<up, source, count>>
      BY <2>1, <3>1 DEF Resynced, PcStates
    <3> QED BY <1>2, <1>3, <1>4, <1>10, <3>2, <3>3
  <2>2. CASE ResyncFailed
    <3>1. pc' \in {"ready", "closed"} /\ output' \in Seq(Lines)
      BY <1>3, <2>2, FailedShape, ReadTypes DEF ResyncFailed
    <3> QED BY <1>2, <1>3, <1>4, <1>5, <1>10, <2>2, <3>1 DEF ResyncFailed
  <2> QED BY <1>10, <2>1, <2>2, Moves
<1>11. CASE SessionStep /\ pc = "reply"
  <2>1. ReplyRead \/ ReplyTimedOut \/ ReplyEof
    BY <1>11, Moves
  <2>2. pc' \in {"ready", "closed"} /\ output' \in Seq(Lines)
    BY <1>3, <2>1, FailedShape, RepliedShape, ReadTypes DEF ReplyRead, ReplyTimedOut, ReplyEof
  <2>3. UNCHANGED <<up, input, source, count>> /\ outOfSync' \in BOOLEAN
    BY <1>3, <2>1 DEF ReplyRead, ReplyTimedOut, ReplyEof
  <2> QED BY <1>2, <1>3, <1>4, <1>5, <1>11, <2>2, <2>3
<1>12. CASE SessionStep /\ pc = "await"
  <2>1. PromptRead \/ PromptMissed
    BY <1>12, Moves
  <2>2. pc' \in {"ready", "closed"} /\ output' \in Seq(Lines)
    BY <1>3, <2>1, ReadTypes DEF PromptRead, PromptMissed, GoOn, Fail
  <2>3. UNCHANGED <<up, input, source, outOfSync, count>>
    BY <2>1 DEF PromptRead, PromptMissed
  <2> QED BY <1>2, <1>3, <1>4, <1>5, <1>12, <2>2, <2>3
<1>13. CASE SessionStep /\ pc = "drain"
  <2>1. CASE DrainRead
    <3>1. Head(todo').do = "drain"
      BY <1>13, <2>1 DEF DrainRead, AtStep
    <3> QED BY <1>2, <1>3, <1>4, <1>5, <1>13, <2>1, <3>1, ReadTypes DEF DrainRead
  <2>2. CASE DrainOver
    BY <1>2, <1>3, <1>4, <1>5, <1>13, <2>2 DEF DrainOver, GoOn, linkVars
  <2> QED BY <1>13, <2>1, <2>2, Moves
<1>14. CASE SessionStep /\ pc \in {"lines", "scan"}
  <2>1. LineRead \/ LinesTimedOut \/ LinesEof \/ ScanRead \/ ScanOver
    BY <1>14, Moves
  <2>2. /\ UNCHANGED <<up, input, source, outOfSync>>
        /\ output' \in Seq(Lines)
    BY <1>3, <2>1, ReadTypes DEF LineRead, LinesTimedOut, LinesEof, ScanRead, ScanOver, linkVars
  <2>3. \/ pc' \in {"ready", "closed"} /\ count' = 0
        \/ UNCHANGED <<pc, todo>> /\ count' \in 0..MaxLines
    <3>1. 0 \in 0..MaxLines /\ 1 \in 0..MaxLines /\ (count + 1 < MaxLines => count + 1 \in 0..MaxLines)
      BY <1>3
    <3>2. CASE LineRead
      BY <1>3, <3>1, <3>2 DEF LineRead, Leave, GoOn
    <3>3. CASE LinesTimedOut
      BY <3>3 DEF LinesTimedOut, Leave, GoOn
    <3>4. CASE LinesEof
      BY <3>4 DEF LinesEof, Fail
    <3>5. CASE ScanRead
      BY <1>3, <3>1, <3>5 DEF ScanRead, Leave, GoOn
    <3>6. CASE ScanOver
      BY <3>6 DEF ScanOver, Leave, GoOn
    <3> QED BY <2>1, <3>2, <3>3, <3>4, <3>5, <3>6
  <2>4. Head(todo).do = pc
    BY <1>14 DEF AtStep
  <2> QED BY <1>2, <1>3, <1>4, <1>5, <1>14, <2>2, <2>3, <2>4
<1>15. CASE Disconnect
  <2>1. <<>> \in Seq(Commands) /\ <<>> \in Seq(Lines)
    OBVIOUS
  <2> QED BY <1>2, <1>3, <1>4, <1>5, <1>15, <2>1 DEF Disconnect
<1> QED BY <1>3, <1>6, <1>7, <1>8, <1>9, <1>10, <1>11, <1>12, <1>13, <1>14, <1>15 DEF PcStates

-----------------------------------------------------------------------------
(* What the session does to an exchange *)

LEMMA PromptEnds ==
  ASSUME output \in Seq(Lines), NEW c, Exchange(c), HasPrompt, pc # "scan"
  PROVE  /\ output # <<>> /\ PromptAt = Len(output) /\ Ended /\ SubSeq(output, PromptAt + 1, Len(output)) = <<>>
         /\ up => input = <<>> /\ mode = "idle"
         /\ \A l \in Reply : l.of = c
<1>1. /\ PromptAt \in 1..Len(output) /\ IsPrompt(output[PromptAt]) /\ Len(output) \in Nat
      /\ Reply = {output[k] : k \in 1..PromptAt}
  BY FirstPrompt
<1>2. output[PromptAt].text = ">"
  BY <1>1 DEF Exchange, Answers, IsPrompt, Prompts
<1>3. PromptAt = Len(output)
  BY <1>1, <1>2 DEF Exchange, Answers
<1>4. output # <<>> /\ Ended
  BY <1>1, <1>2, <1>3 DEF Ended
<1>5. SubSeq(output, PromptAt + 1, Len(output)) = <<>>
  <2>1. \A n \in Nat : SubSeq(output, n + 1, n) = <<>>
    OBVIOUS
  <2> QED BY <1>1, <1>3, <2>1
<1>6. up => input = <<>> /\ mode = "idle"
  BY <1>4 DEF Exchange
<1>7. \A l \in Reply : l.of = c
  BY <1>1, <1>3 DEF Exchange, Answers
<1> QED BY <1>3, <1>4, <1>5, <1>6, <1>7

LEMMA HeadPromptEnds ==
  ASSUME output \in Seq(Lines), output # <<>>, NEW c, Exchange(c), Head(output).text = ">"
  PROVE  Tail(output) = <<>> /\ (up => input = <<>> /\ mode = "idle")
<1>1. Head(output) = output[1] /\ 1 \in 1..Len(output) /\ Len(output) \in Nat
  OBVIOUS
<1>2. Len(output) = 1
  BY <1>1 DEF Exchange, Answers
<1>3. Tail(output) = <<>>
  <2> HIDE DEF Lines
  <2>1. Tail(output) # <<>> => Len(output) >= 2
    BY Tails
  <2> QED BY <1>2, <2>1
<1>4. Ended
  BY <1>1, <1>2 DEF Ended
<1> QED BY <1>3, <1>4 DEF Exchange

\* What a timed out read has seen is dropped.
LEMMA Discarded ==
  ASSUME NEW c, c # "ATMA", Exchange(c), output' = <<>>, UNCHANGED <<up, input, chipVars>>
  PROVE  Exchange(c)'
<1>1. Answers(c)' /\ ~Ended'
  BY DEF Answers, Ended
<1> QED BY <1>1 DEF Exchange, chipVars

LEMMA LeftAlone ==
  ASSUME NEW c, c # "ATMA", Exchange(c), pc # "scan", UNCHANGED <<linkVars, chipVars>>
  PROVE  Exchange(c)'
<1>1. Answers(c)' /\ (Ended' <=> Ended)
  BY DEF Exchange, Answers, Ended, linkVars
<1> QED BY <1>1 DEF Exchange, chipVars, linkVars

\* The first line is read.
LEMMA LineTaken ==
  ASSUME output \in Seq(Lines), output # <<>>, NEW c, Exchange(c), Head(output).text # ">",
         output' = Tail(output), UNCHANGED <<up, input, chipVars>>, c = "ATMA" => ~Stopping /\ ~Stopping'
  PROVE  Exchange(c)' /\ \A k \in 1..Len(output') : output'[k].text # "stray>"
<1>1. /\ Len(output) \in Nat /\ Len(output) >= 1 /\ Len(output') = Len(output) - 1
      /\ \A k \in 1..Len(output') : output'[k] = output[k + 1] /\ k + 1 \in 1..Len(output)
      /\ output[1].text # ">" /\ (output' # <<>> => Len(output') >= 1) /\ (output' = <<>> => Len(output) = 1)
  <2> HIDE DEF Lines
  <2>1. /\ Len(output) \in Nat /\ Len(output) >= 1 /\ Len(Tail(output)) = Len(output) - 1
        /\ \A k \in 1..Len(Tail(output)) : Tail(output)[k] = output[k + 1]
        /\ Head(output) = output[1] /\ Tail(output) \in Seq(Lines)
    OBVIOUS
  <2>2. Tail(output) # <<>> => Len(output) >= 2
    BY Tails
  <2>3. \A k \in 1..Len(Tail(output)) : k + 1 \in 1..Len(output)
    BY <2>1
  <2>4. Len(output) = 1 \/ Len(output) >= 2
    BY <2>1
  <2>5. \A t : t = <<>> => Len(t) = 0
    OBVIOUS
  <2> QED BY <2>1, <2>2, <2>3, <2>4, <2>5
<1>2. Answers(c)
  BY DEF Exchange
<1>3. Answers(c)' /\ \A k \in 1..Len(output') : output'[k].text # "stray>"
  <2> SUFFICES ASSUME NEW k \in 1..Len(output')
               PROVE  /\ output'[k].of = c
                      /\ output'[k].text = ">" => k = Len(output')
                      /\ output'[k].text # "stray>"
    BY DEF Answers
  <2>1. output'[k] = output[k + 1] /\ k + 1 \in 1..Len(output) /\ k + 1 # 1
    BY <1>1
  <2>2. /\ output[k + 1].of = c
        /\ output[k + 1].text = ">" => k + 1 = Len(output)
        /\ output[k + 1].text = "stray>" => k + 1 = 1
    BY <1>2, <2>1 DEF Answers
  <2>3. k + 1 = Len(output) => k = Len(output')
    BY ONLY <1>1, k \in 1..Len(output')
  <2> QED BY <2>1, <2>2, <2>3
<1>6. output' # <<>> => output'[Len(output')] = output[Len(output)]
  <2> SUFFICES ASSUME output' # <<>> PROVE output'[Len(output')] = output[Len(output)]
    OBVIOUS
  <2>1. Len(output') \in 1..Len(output') /\ Len(output') + 1 = Len(output)
    BY ONLY <1>1, output' # <<>>
  <2> QED BY <1>1, <2>1
<1>4. Ended => Ended'
  <2>1. Ended => output' # <<>>
    BY <1>1 DEF Ended
  <2> QED BY <1>6, <2>1 DEF Ended
<1>5. Ended' => Ended
  BY <1>6 DEF Ended
<1> QED BY <1>3, <1>4, <1>5 DEF Exchange, chipVars

-----------------------------------------------------------------------------
(* Where a step leaves the two ends in step *)

\* What may come next in the operation under way, once settings are looked at.
Onward(s) ==
  /\ IF source = 0 THEN s \in Seq(InitSteps) ELSE PollTodo(s)
  /\ up /\ echo => source = 0 /\ SilencesEcho(s)
  /\ up /\ headers => HidesHeaders(s)
  /\ s # <<>> => Head(s) \notin {AwaitPrompt, StopMonitor}

LEMMA Ready ==
  ASSUME NEW s, Onward(s), todo' = s, pc' = "ready" \/ (pc' = "rest" /\ s = <<>>),
         UNCHANGED <<up, source, chipVars>>,
         outOfSync' => \E c \in Tried \cup {"ATE0"} : Exchange(c)',
         ~outOfSync' => Quiet'
  PROVE  Synced'
<1>1. ~Reading' /\ ~AwaitsRest' /\ ~AwaitsStop'
  BY DEF Onward, Reading, AwaitsRest, AwaitsStop
<1>2. Pipeline'
  BY <1>1 DEF Pipeline
<1>3. SettingsInForce'
  BY <1>1 DEF SettingsInForce, Onward, chipVars
<1>4. IF source' = 0 THEN todo' \in Seq(InitSteps) ELSE PollTodo(todo')
  BY DEF Onward
<1> QED BY <1>2, <1>3, <1>4 DEF Synced

\* The step at hand was answered, or is passed over.
LEMMA OnwardTail ==
  ASSUME Synced, todo # <<>>, up /\ Head(todo).cmd = "ATE0" => ~echo,
         up /\ Head(todo) = Send("ATH0", "must") => ~headers
  PROVE  Onward(Tail(todo))
<1>1. /\ IF source = 0 THEN todo \in Seq(InitSteps) ELSE PollTodo(todo)
      /\ up /\ echo => source = 0 /\ SilencesEcho(todo)
      /\ up /\ headers => HidesHeaders(todo)
  BY DEF Synced, SettingsInForce
<1>2. CASE source = 0
  <2>1. Tail(todo) \in Seq(InitSteps) /\ HidesHeaders(Tail(todo))
        /\ (SilencesEcho(todo) /\ Head(todo).cmd # "ATE0" => SilencesEcho(Tail(todo)))
    BY <1>1, <1>2, InitTail
  <2>2. Tail(todo) # <<>> => Head(Tail(todo)) \in InitSteps
    BY <2>1, InitTail
  <2> QED BY <1>1, <1>2, <2>1, <2>2, InitFacts DEF Onward
<1>3. CASE source # 0
  BY <1>1, <1>3, PollTail DEF Onward
<1> QED BY <1>2, <1>3

LEMMA OnwardRetry ==
  ASSUME Synced, todo # <<>>, source = 0
  PROVE  Onward(RetryAte0)
<1>1. todo \in Seq(InitSteps)
  BY DEF Synced
<1>2. RetryAte0 \in Seq(InitSteps) /\ SilencesEcho(RetryAte0)
  BY <1>1, InitTail
<1>3. PICK r : r = RetryAte0
  OBVIOUS
<1>4. HidesHeaders(r) /\ (r # <<>> => Head(r) \in InitSteps)
  BY <1>2, <1>3, InitTail
<1> QED BY <1>2, <1>3, <1>4, InitFacts DEF Onward

LEMMA OnwardEmpty ==
  ASSUME Synced, source # 0
  PROVE  Onward(<<>>)
<1>1. up => ~echo
  BY DEF Synced, SettingsInForce
<1> QED BY <1>1, ExitScripts DEF Onward, PollScript

LEMMA OnwardScript ==
  ASSUME Synced, source # 0, NEW s, PollScript(s), s # <<>> => Head(s) \notin {AwaitPrompt, StopMonitor}
  PROVE  Onward(s)
<1>1. up => ~echo
  BY DEF Synced, SettingsInForce
<1> QED BY <1>1 DEF Onward, PollScript

\* A command is typed at an idle chip that has nothing more to say.
LEMMA Typed ==
  ASSUME Synced, AtStep, todo # <<>>, Head(todo).do \in {"reply", "lines", "scan"},
         pc \in {"ready", "resync"}, pc' = Head(todo).do, Write(Head(todo).cmd), output' = <<>>,
         up => input = <<>> /\ mode = "idle", outOfSync' = FALSE,
         UNCHANGED <<up, todo, source, count, chipVars>>
  PROVE  Synced'
<1>1. Reading' /\ ~AwaitsRest' /\ ~AwaitsStop' /\ pc' \notin {"resync", "rest"}
  BY DEF Reading, AwaitsRest, AwaitsStop
<1>2. /\ IF source = 0 THEN todo \in Seq(InitSteps) ELSE PollTodo(todo)
      /\ up /\ echo => source = 0 /\ SilencesEcho(todo)
      /\ up /\ headers => HidesHeaders(todo)
  BY DEF Synced, SettingsInForce
<1>3. count = 0
  BY DEF AtStep
<1>4. Head(todo).cmd = "ATMA" => Head(todo).do = "scan"
  <2>1. CASE source = 0
    BY <1>2, <2>1, InitTail, InitFacts
  <2>2. CASE source # 0
    <3>1. Head(todo) \in PollSteps
      BY <1>2, <2>2, PollTail
    <3> QED BY <3>1, PollFacts
  <2> QED BY <2>1, <2>2
<1>5. PICK c : c = Head(todo).cmd
  OBVIOUS
<1>6. Exchange(c)'
  <2>1. Answers(c)'
    BY DEF Answers
  <2>2. up' => input' = <<c>> /\ mode' = "idle" /\ output' = <<>>
    <3>1. \A x : Append(<<>>, x) = <<x>>
      OBVIOUS
    <3> QED BY <1>5, <3>1 DEF Write, chipVars
  <2>3. c = "ATMA" => pc' = "scan" /\ count' = 0
    BY <1>3, <1>4, <1>5
  <2> QED BY <2>1, <2>2, <2>3 DEF Exchange
<1>7. Exchange(Head(todo).cmd)'
  <2>1. Head(todo').cmd = c
    BY <1>5
  <2> QED BY <1>6, <2>1 DEF Exchange, Answers
<1>8. Pipeline'
  BY <1>1, <1>7 DEF Pipeline
<1>9. SettingsInForce'
  <2>1. ~Begun' /\ (up' => mode' # "busy")
    BY DEF Begun, chipVars
  <2>2. Len(output') = 0
    OBVIOUS
  <2> QED BY <1>2, <2>1, <2>2 DEF SettingsInForce, chipVars
<1> QED BY <1>1, <1>2, <1>8, <1>9 DEF Synced

-----------------------------------------------------------------------------
(* The session moves during the greeting *)

LEMMA GreetingNext ==
  ASSUME NEW s, todo' = s, source' = 0, ~outOfSync', pc' \notin {"rest", "resync"},
         \/ FromProbe(s)
         \/ FromDrain(s)
         \/ FromReset(s) /\ (pc' = "ready" => (up' => input' = <<>>)) /\ (pc' # "ready" => ResetSent')
         \/ (LastAwait(s) \/ LastDrain(s)) /\ ResetSent'
  PROVE  Greeting'
BY DEF Greeting

LEMMA GreetingProbes ==
  ASSUME TypeOK, AtStep, Greeting, pc # "closed", SessionStep, FromProbe(todo)
  PROVE  pc' = "closed" \/ Greeting'
<1>1. /\ source = 0 /\ ~outOfSync /\ todo # <<>> /\ Head(todo).do = "await" /\ Head(todo).cmd = "CR"
      /\ Head(todo).how = "probe" /\ FromDrain(Tail(todo))
  BY GreetingFacts DEF Greeting, FromProbe
<1>2. pc \in {"ready", "await"}
  BY <1>1 DEF TypeOK, PcStates, Greeting, AtStep
<1>3. CASE pc = "ready"
  <2>1. StartWrite
    BY <1>1, <1>3, Moves DEF StartRead, StartGiveUp
  <2>2. pc' = "await" /\ UNCHANGED <<todo, source, outOfSync>>
    BY <1>1, <2>1 DEF StartWrite
  <2> QED BY <1>1, <2>2, GreetingNext
<1>4. CASE pc = "await"
  <2>1. UNCHANGED <<source, outOfSync>> /\ (pc' = "closed" \/ (pc' = "ready" /\ todo' = Tail(todo)))
    BY <1>4, Moves DEF PromptRead, PromptMissed, GoOn, Fail
  <2> QED BY <1>1, <2>1, GreetingNext
<1> QED BY <1>2, <1>3, <1>4

LEMMA GreetingDrains ==
  ASSUME Timely, TypeOK, AtStep, Greeting, pc # "closed", SessionStep, FromDrain(todo)
  PROVE  Greeting'
<1>1. /\ source = 0 /\ ~outOfSync /\ todo # <<>> /\ Head(todo).do = "drain" /\ Head(todo).cmd = "none"
      /\ FromReset(Tail(todo))
  BY GreetingFacts DEF Greeting, FromDrain
<1>2. pc \in {"ready", "drain"}
  BY <1>1 DEF TypeOK, PcStates, Greeting, AtStep
<1>3. CASE pc = "ready"
  <2>1. StartRead
    BY <1>1, <1>3, Moves DEF StartGiveUp, StartWrite
  <2>2. pc' = "drain" /\ UNCHANGED <<todo, source, outOfSync>>
    BY <1>1, <2>1 DEF StartRead
  <2> QED BY <1>1, <2>2, GreetingNext
<1>4. CASE pc = "drain" /\ DrainRead
  <2>1. UNCHANGED <<pc, todo, source, outOfSync>>
    BY <1>4 DEF DrainRead
  <2> QED BY <1>1, <1>4, <2>1, GreetingNext
<1>5. CASE pc = "drain" /\ DrainOver
  <2>1. /\ pc' = "ready" /\ todo' = Tail(todo) /\ UNCHANGED <<linkVars, source>> /\ ~outOfSync'
    BY <1>1, <1>5 DEF DrainOver, GoOn
  <2>2. up => input = <<>>
    BY <1>5 DEF DrainOver, Elapsed, Settled, Timely
  <2>3. up' => input' = <<>>
    BY <2>1, <2>2 DEF linkVars
  <2> QED BY <1>1, <2>1, <2>3, GreetingNext
<1> QED BY <1>2, <1>3, <1>4, <1>5, Moves

LEMMA GreetingResets ==
  ASSUME TypeOK, AtStep, Greeting, pc # "closed", SessionStep, FromReset(todo),
         pc = "ready" => (up => input = <<>>), pc # "ready" => ResetSent
  PROVE  pc' = "closed" \/ Greeting'
<1>1. /\ source = 0 /\ ~outOfSync /\ todo # <<>> /\ Head(todo).do = "reply" /\ Head(todo).cmd = "ATZ"
      /\ Head(todo).how = "atz" /\ AfterReset(Tail(todo)) /\ UNCHANGED chipVars
  BY GreetingFacts, Moves DEF Greeting, FromReset
<1>2. pc \in {"ready", "reply"}
  BY <1>1 DEF TypeOK, PcStates, Greeting, AtStep
<1>3. CASE pc = "ready"
  <2>1. StartWrite
    BY <1>1, <1>3, Moves DEF StartRead, StartGiveUp
  <2>2. pc' = "reply" /\ Write("ATZ") /\ UNCHANGED <<up, todo, source, outOfSync>>
    BY <1>1, <2>1 DEF StartWrite
  <2>3. up' => input' = <<"ATZ">>
    <3>1. \A x : Append(<<>>, x) = <<x>>
      OBVIOUS
    <3> QED BY <1>3, <2>2, <3>1 DEF Write
  <2>4. ResetSent'
    BY <2>3 DEF ResetSent
  <2> QED BY <1>1, <2>2, <2>4, GreetingNext
<1>4. CASE pc = "reply"
  <2>1. ResetSent
    BY <1>4
  <2>2. UNCHANGED <<up, input, source>> /\ (pc' = "closed" \/ outOfSync' = outOfSync)
    BY <1>1, <1>4, Moves DEF ReplyRead, ReplyTimedOut, ReplyEof, Failed, Fail
  <2>3. ResetSent'
    BY <1>1, <2>1, <2>2 DEF ResetSent, chipVars
  <2>4. \/ pc' = "closed"
        \/ /\ pc' = "ready"
           /\ \E x \in {<<>>, <<AwaitPrompt>>} : todo' = x \o <<Drain("try")>> \o Tail(todo)
    <3>1. ReplyRead \/ ReplyTimedOut \/ ReplyEof
      BY <1>4, Moves
    <3>2. ASSUME NEW why, Failed(why) PROVE pc' = "closed"
      BY <1>1, <3>2 DEF Failed, Fail
    <3>3. ASSUME NEW texts, Replied(texts)
          PROVE  \/ pc' = "closed"
                 \/ /\ pc' = "ready"
                    /\ \E x \in {<<>>, <<AwaitPrompt>>} : todo' = x \o <<Drain("try")>> \o Tail(todo)
      BY <1>1, <3>2, <3>3 DEF Replied, GoOn
    <3> QED BY <3>1, <3>2, <3>3 DEF ReplyRead, ReplyTimedOut, ReplyEof
  <2>5. CASE pc' = "ready" /\ \E x \in {<<>>, <<AwaitPrompt>>} : todo' = x \o <<Drain("try")>> \o Tail(todo)
    <3> DEFINE t == Tail(todo)
               d == Drain("try")
               a == AwaitPrompt
    <3>1. t \in Seq(InitSteps)
      BY <1>1 DEF AfterReset
    <3> HIDE DEF t, d, a, InitSteps
    <3>2. /\ <<>> \o <<d>> \o t # <<>> /\ Head(<<>> \o <<d>> \o t) = d /\ Tail(<<>> \o <<d>> \o t) = t
      <4>1. <<>> \o <<d>> = <<d>>
        OBVIOUS
      <4>2. <<d>> \o t # <<>> /\ Head(<<d>> \o t) = d /\ Tail(<<d>> \o t) = t
        BY <3>1
      <4> QED BY <4>1, <4>2
    <3>3. /\ <<a>> \o <<d>> \o t # <<>> /\ Head(<<a>> \o <<d>> \o t) = a
          /\ Tail(<<a>> \o <<d>> \o t) = <<d>> \o t
          /\ <<d>> \o t # <<>> /\ Head(<<d>> \o t) = d /\ Tail(<<d>> \o t) = t
      BY <3>1
    <3>4. AfterReset(t)
      BY <1>1 DEF t
    <3>5. LastDrain(<<>> \o <<d>> \o t)
      BY <3>2, <3>4 DEF LastDrain, d
    <3>6. LastAwait(<<a>> \o <<d>> \o t)
      BY <3>3, <3>4 DEF LastAwait, LastDrain, a, d
    <3>7. todo' = <<>> \o <<d>> \o t \/ todo' = <<a>> \o <<d>> \o t
      BY <2>5 DEF t, d, a
    <3>8. source' = 0 /\ ~outOfSync' /\ pc' = "ready"
      BY <1>1, <2>2, <2>5
    <3>9. CASE todo' = <<>> \o <<d>> \o t
      BY <2>3, <3>5, <3>8, <3>9, GreetingNext
    <3>10. CASE todo' = <<a>> \o <<d>> \o t
      BY <2>3, <3>6, <3>8, <3>10, GreetingNext
    <3> QED BY <3>7, <3>9, <3>10
  <2> QED BY <2>4, <2>5
<1> QED BY <1>2, <1>3, <1>4

LEMMA GreetingAwaits ==
  ASSUME TypeOK, AtStep, Greeting, pc # "closed", SessionStep, LastAwait(todo), ResetSent
  PROVE  Greeting'
<1>1. /\ source = 0 /\ ~outOfSync /\ todo # <<>> /\ Head(todo).do = "await" /\ Head(todo).cmd = "none"
      /\ Head(todo).how = "try" /\ LastDrain(Tail(todo)) /\ UNCHANGED chipVars
  BY GreetingFacts, Moves DEF Greeting, LastAwait
<1>2. pc \in {"ready", "await"}
  BY <1>1 DEF TypeOK, PcStates, Greeting, AtStep
<1>3. CASE pc = "ready"
  <2>1. StartRead
    BY <1>1, <1>3, Moves DEF StartGiveUp, StartWrite
  <2>2. pc' = "await" /\ UNCHANGED <<linkVars, todo, source, outOfSync>>
    BY <1>1, <2>1 DEF StartRead
  <2>3. ResetSent'
    BY <1>1, <2>2 DEF ResetSent, linkVars, chipVars
  <2> QED BY <1>1, <2>2, <2>3, GreetingNext
<1>4. CASE pc = "await"
  <2>1. UNCHANGED <<up, input, source, outOfSync>> /\ pc' = "ready" /\ todo' = Tail(todo)
    BY <1>1, <1>4, Moves DEF PromptRead, PromptMissed, GoOn
  <2>2. ResetSent'
    BY <1>1, <2>1 DEF ResetSent, chipVars
  <2> QED BY <1>1, <2>1, <2>2, GreetingNext
<1> QED BY <1>2, <1>3, <1>4

LEMMA GreetingEnds ==
  ASSUME Timely, TypeOK, AtStep, Greeting, pc # "closed", SessionStep, LastDrain(todo), ResetSent
  PROVE  Greeting' \/ Synced'
<1>1. /\ source = 0 /\ ~outOfSync /\ todo # <<>> /\ Head(todo).do = "drain" /\ Head(todo).cmd = "none"
      /\ AfterReset(Tail(todo)) /\ UNCHANGED chipVars
  BY GreetingFacts, Moves DEF Greeting, LastDrain
<1>2. pc \in {"ready", "drain"}
  BY <1>1 DEF TypeOK, PcStates, Greeting, AtStep
<1>3. CASE pc = "ready"
  <2>1. StartRead
    BY <1>1, <1>3, Moves DEF StartGiveUp, StartWrite
  <2>2. pc' = "drain" /\ UNCHANGED <<linkVars, todo, source, outOfSync>>
    BY <1>1, <2>1 DEF StartRead
  <2>3. ResetSent'
    BY <1>1, <2>2 DEF ResetSent, linkVars, chipVars
  <2> QED BY <1>1, <2>2, <2>3, GreetingNext
<1>4. CASE pc = "drain" /\ DrainRead
  <2>1. UNCHANGED <<up, input, pc, todo, source, outOfSync>>
    BY <1>4 DEF DrainRead
  <2>2. ResetSent'
    BY <1>1, <2>1 DEF ResetSent, chipVars
  <2> QED BY <1>1, <1>4, <2>1, <2>2, GreetingNext
<1>5. CASE pc = "drain" /\ DrainOver
  <2>1. /\ pc' = "ready" /\ todo' = Tail(todo) /\ UNCHANGED <<linkVars, source>> /\ ~outOfSync'
    BY <1>1, <1>5 DEF DrainOver, GoOn
  <2>2. output = <<>> /\ (up => input = <<>> /\ mode = "idle")
    BY <1>5 DEF DrainOver, Elapsed, Settled, Timely, ResetSent
  <2>3. Quiet'
    BY <1>1, <2>1, <2>2 DEF Quiet, linkVars, chipVars
  <2>4. PICK s : s = Tail(todo)
    OBVIOUS
  <2>5. s \in Seq(InitSteps) /\ SilencesEcho(s)
    BY <1>1, <2>4 DEF AfterReset
  <2>6. Onward(s)
    BY <1>1, <2>5, InitTail, InitFacts DEF Onward
  <2> QED BY <1>1, <2>1, <2>3, <2>4, <2>6, Ready DEF linkVars
<1> QED BY <1>2, <1>3, <1>4, <1>5, Moves

LEMMA GreetingMoves ==
  ASSUME Timely, TypeOK, AtStep, Greeting, pc # "closed", SessionStep
  PROVE  pc' = "closed" \/ Greeting' \/ Synced'
BY GreetingProbes, GreetingDrains, GreetingResets, GreetingAwaits, GreetingEnds DEF Greeting

-----------------------------------------------------------------------------
(* The session moves once both ends are in step *)

LEMMA FailedSync ==
  ASSUME Synced, todo # <<>>, Head(todo).do \in {"reply", "lines", "scan"},
         NEW why \in {"timeout", "eof", "nodata"}, Failed(why), UNCHANGED <<up, source, chipVars>>,
         outOfSync' => /\ why = "timeout"
                       /\ Head(todo).how \in {"try", "ate0"} =>
                            \E c \in Tried \cup {"ATE0"} : Exchange(c)',
         ~outOfSync' => Quiet'
  PROVE  pc' = "closed" \/ Synced'
<1>1. IF source = 0 THEN todo \in Seq(InitSteps) ELSE PollTodo(todo)
  BY DEF Synced
<1>2. CASE source = 0
  <2>1. Head(todo) \in InitSteps
    BY <1>1, <1>2, InitTail
  <2>2. Head(todo).how \in {"must", "ate0", "ate0again"}
    BY <2>1, InitFacts
  <2>3. CASE Head(todo).how = "ate0"
    <3>1. todo' = RetryAte0 /\ pc' = "ready"
      BY <2>3 DEF Failed, GoOn
    <3>2. PICK s : s = RetryAte0
      OBVIOUS
    <3>3. Onward(s)
      BY <1>2, <3>2, OnwardRetry
    <3> QED BY <2>3, <3>1, <3>2, <3>3, Ready
  <2>4. CASE Head(todo).how # "ate0"
    BY <1>2, <2>2, <2>4 DEF Failed, Fail
  <2> QED BY <2>3, <2>4
<1>3. CASE source # 0
  <2>1. Head(todo) \in PollSteps
    BY <1>1, <1>3, PollTail
  <2>2. Head(todo).cmd # "ATE0" /\ (Head(todo).how \in {"try", "broadcast"} => Head(todo) # Send("ATH0", "must"))
    BY <2>1, PollFacts DEF Send
  <2>3. Head(todo).how # "ate0"
    BY <2>1 DEF PollSteps, Send, ReadLines, Scan, AwaitPrompt, StopMonitor, GiveUp
  <2>4. CASE Head(todo).how = "try" \/ (Head(todo).how = "broadcast" /\ why # "timeout")
    <3>1. todo' = Tail(todo) /\ pc' = "ready"
      BY <2>4 DEF Failed, GoOn
    <3>2. PICK s : s = Tail(todo)
      OBVIOUS
    <3>3. Onward(s)
      BY <2>2, <2>4, <3>2, OnwardTail
    <3> QED BY <2>4, <3>1, <3>2, <3>3, Ready
  <2>5. CASE ~(Head(todo).how = "try" \/ (Head(todo).how = "broadcast" /\ why # "timeout"))
    <3>1. Fail(why # "nodata")
      BY <2>3, <2>5 DEF Failed
    <3>2. CASE why = "nodata"
      <4>1. todo' = <<>> /\ pc' = "ready"
        BY <1>3, <3>1, <3>2 DEF Fail
      <4>2. Onward(<<>>)
        BY <1>3, OnwardEmpty
      <4> QED BY <3>2, <4>1, <4>2, Ready
    <3>3. CASE why # "nodata"
      BY <3>1, <3>3 DEF Fail
    <3> QED BY <3>2, <3>3
  <2> QED BY <2>4, <2>5
<1> QED BY <1>2, <1>3

LEMMA RepliedSync ==
  ASSUME Synced, todo # <<>>, Head(todo).do = "reply", up /\ Head(todo).cmd = "ATE0" => ~echo,
         up /\ Head(todo) = Send("ATH0", "must") => ~headers,
         NEW texts, Replied(texts), UNCHANGED <<up, source, chipVars>>, ~outOfSync', Quiet'
  PROVE  pc' = "closed" \/ Synced'
<1>1. IF source = 0 THEN todo \in Seq(InitSteps) ELSE PollTodo(todo)
  BY DEF Synced
<1>2. /\ Head(todo).how # "atz"
      /\ Head(todo).how \in {"ate0", "ate0again"} => source = 0
  <2>1. CASE source = 0
    BY <1>1, <2>1, InitTail, InitFacts
  <2>2. CASE source # 0
    <3>1. Head(todo) \in PollSteps
      BY <1>1, <2>2, PollTail
    <3> QED BY <3>1, PollFacts
  <2> QED BY <2>1, <2>2
<1>3. \/ Failed("nodata") \/ Fail(FALSE) \/ (GoOn(RetryAte0) /\ source = 0) \/ GoOn(Tail(todo))
  BY <1>2 DEF Replied
<1>4. CASE Failed("nodata")
  BY <1>4, FailedSync
<1>5. CASE Fail(FALSE)
  <2>1. todo' = <<>> /\ (pc' = "closed" \/ (pc' = "ready" /\ source # 0))
    BY <1>5 DEF Fail
  <2>2. source # 0 => Onward(<<>>)
    BY OnwardEmpty
  <2> QED BY <2>1, <2>2, Ready
<1>6. CASE GoOn(RetryAte0) /\ source = 0
  <2>1. PICK s : s = RetryAte0
    OBVIOUS
  <2>2. Onward(s)
    BY <1>6, <2>1, OnwardRetry
  <2>3. todo' = s /\ pc' = "ready"
    BY <1>6, <2>1 DEF GoOn
  <2> QED BY <2>2, <2>3, Ready
<1>7. CASE GoOn(Tail(todo))
  <2>1. PICK s : s = Tail(todo)
    OBVIOUS
  <2>2. Onward(s)
    BY <2>1, OnwardTail
  <2>3. todo' = s /\ pc' = "ready"
    BY <1>7, <2>1 DEF GoOn
  <2> QED BY <2>2, <2>3, Ready
<1> QED BY <1>3, <1>4, <1>5, <1>6, <1>7

\* Nothing was read or written.
LEMMA Untouched ==
  ASSUME Synced, ~(AwaitsRest \/ AwaitsStop \/ Reading), UNCHANGED <<linkVars, outOfSync, chipVars>>
  PROVE  /\ outOfSync' => \E c \in Tried \cup {"ATE0"} : Exchange(c)'
         /\ ~outOfSync' => Quiet'
<1>1. Pipeline
  BY DEF Synced
<1>2. ASSUME outOfSync PROVE \E c \in Tried \cup {"ATE0"} : Exchange(c)'
  <2>1. PICK c \in Tried \cup {"ATE0"} : Exchange(c)
    BY <1>1, <1>2 DEF Pipeline
  <2>2. c # "ATMA" /\ pc # "scan"
    BY DEF Tried, Reading
  <2>3. Exchange(c)'
    BY <2>1, <2>2, LeftAlone
  <2> QED BY <2>3
<1>3. ~outOfSync => Quiet'
  BY <1>1 DEF Pipeline, Quiet, linkVars, chipVars
<1> QED BY <1>2, <1>3

LEMMA NewSource ==
  ASSUME Synced, todo = <<>>, pc \in {"rest", "ready"}, NEW i \in 1..Len(Sources), StartSource(i),
         UNCHANGED <<linkVars, outOfSync, chipVars>>
  PROVE  Synced'
<1>1. /\ outOfSync' => \E c \in Tried \cup {"ATE0"} : Exchange(c)'
      /\ ~outOfSync' => Quiet'
  BY Untouched DEF AwaitsRest, AwaitsStop, Reading
<1>2. PICK s : s = SourceScript(Sources[i])
  OBVIOUS
<1>3. todo' = s /\ pc' = "ready" /\ source' = i /\ source' # 0
  BY <1>2 DEF StartSource, GoOn
<1>4. PollTodo(s) /\ HidesHeaders(s) /\ Head(s) \notin {AwaitPrompt, StopMonitor}
  BY <1>2, SourceScripts DEF PollScript
<1>5. up => ~echo
  <2>1. ~SilencesEcho(todo)
    <3>1. Len(todo) = 0
      OBVIOUS
    <3> QED BY <3>1 DEF SilencesEcho
  <2> QED BY <2>1 DEF Synced, SettingsInForce
<1>6. ~Reading' /\ ~AwaitsRest' /\ ~AwaitsStop'
  BY <1>3, <1>4 DEF Reading, AwaitsRest, AwaitsStop
<1>7. Pipeline'
  BY <1>1, <1>3, <1>6 DEF Pipeline
<1>8. SettingsInForce'
  BY <1>3, <1>4, <1>5, <1>6 DEF SettingsInForce, linkVars, chipVars
<1> QED BY <1>3, <1>4, <1>7, <1>8 DEF Synced

LEMMA SyncRests ==
  ASSUME TypeOK, Synced, SessionStep, pc = "rest" \/ (pc = "ready" /\ todo = <<>>)
  PROVE  Synced'
<1>1. todo = <<>> /\ UNCHANGED chipVars /\ source \in 0..Len(Sources) /\ Len(Sources) \in Nat
  BY Moves, SessionAssumption DEF Synced, TypeOK
<1>2. CASE pc = "rest"
  <2>1. StartSource(1) /\ UNCHANGED <<linkVars, outOfSync>> /\ Sources # <<>>
    BY <1>2, Moves DEF StartCycle
  <2>2. 1 \in 1..Len(Sources)
    BY <2>1, SessionAssumption
  <2> QED BY <1>1, <1>2, <2>1, <2>2, NewSource
<1>3. CASE pc = "ready"
  <2>1. UNCHANGED <<linkVars, outOfSync>>
    BY <1>1, <1>3, Moves DEF Finish
  <2>2. CASE source \in 1..(Len(Sources) - 1) /\ StartSource(source + 1)
    <3>1. PICK i : i = source + 1
      OBVIOUS
    <3>2. i \in 1..Len(Sources) /\ StartSource(i)
      BY <1>1, <2>2, <3>1
    <3> QED BY <1>1, <1>3, <2>1, <3>2, NewSource
  <2>3. CASE pc' = "rest" /\ UNCHANGED <<todo, source>>
    <3>1. ~SilencesEcho(<<>>) /\ HidesHeaders(<<>>)
      <4>1. Len(<<>>) = 0
        OBVIOUS
      <4> QED BY <4>1 DEF SilencesEcho, HidesHeaders
    <3>2. Onward(<<>>)
      BY <1>1, <3>1 DEF Onward, Synced, SettingsInForce
    <3>3. /\ outOfSync' => \E c \in Tried \cup {"ATE0"} : Exchange(c)'
          /\ ~outOfSync' => Quiet'
      BY <1>1, <1>3, <2>1, Untouched DEF AwaitsRest, AwaitsStop, Reading
    <3> QED BY <1>1, <2>1, <2>3, <3>2, <3>3, Ready DEF linkVars
  <2> QED BY <1>1, <1>3, <2>2, <2>3, Moves DEF Finish
<1> QED BY <1>2, <1>3

\* The step at hand, by the kind of operation.
LEMMA SyncFacts ==
  ASSUME Synced, todo # <<>>
  PROVE  /\ IF source = 0 THEN todo \in Seq(InitSteps) /\ Head(todo) \in InitSteps
                          ELSE PollTodo(todo) /\ Head(todo) \in PollSteps
         /\ Head(todo).do = "await" => source # 0 /\ Head(todo) \in {AwaitPrompt, StopMonitor}
         /\ Head(todo).do = "drain" => source = 0 /\ Head(todo).how = "clear" /\ Head(todo).cmd # "ATE0"
         /\ Head(todo).do \in {"lines", "scan"} => source # 0 /\ Tail(todo) = <<>>
         /\ Head(todo).do = "lines" => Head(todo).cmd = "PID"
         /\ Head(todo).do = "scan" => Head(todo).cmd = "ATMA"
         /\ Head(todo).do = "fail" => source # 0
         /\ Head(todo).cmd = "CR" => source # 0 /\ Head(todo) = StopMonitor
<1>1. IF source = 0 THEN todo \in Seq(InitSteps) ELSE PollTodo(todo)
  BY DEF Synced
<1>2. CASE source = 0
  <2>1. Head(todo) \in InitSteps
    BY <1>1, <1>2, InitTail
  <2> QED BY <1>1, <1>2, <2>1, InitFacts
<1>3. CASE source # 0
  <2>1. Head(todo) \in PollSteps /\ (Head(todo).do \in {"lines", "scan"} => Tail(todo) = <<>>)
    BY <1>1, <1>3, PollTail
  <2> QED BY <1>1, <1>3, <2>1, PollFacts
<1> QED BY <1>2, <1>3

LEMMA SyncReplyFacts ==
  ASSUME Synced, todo # <<>>, Head(todo).do = "reply"
  PROVE  /\ Head(todo).cmd \in Written /\ Head(todo).cmd # "ATMA"
         /\ Head(todo).how = "try" => Head(todo).cmd \in Tried
         /\ Head(todo).how = "ate0" => Head(todo).cmd = "ATE0"
<1>1. IF source = 0 THEN Head(todo) \in InitSteps ELSE Head(todo) \in PollSteps
  BY SyncFacts
<1>2. CASE source = 0
  BY <1>1, <1>2, InitFacts
<1>3. CASE source # 0
  BY <1>1, <1>3, PollFacts
<1> QED BY <1>2, <1>3

\* Reads begin that need nothing to be written.
LEMMA SyncStartsRead ==
  ASSUME AtStep, Synced, pc = "ready", todo # <<>>, StartRead
  PROVE  Synced'
<1>1. /\ Head(todo).cmd = "none" /\ Head(todo).do # "fail" /\ pc' = Head(todo).do
      /\ UNCHANGED <<linkVars, todo, source, outOfSync, count, chipVars>>
  BY DEF StartRead, Step
<1>2. Head(todo).do \in {"await", "drain"}
  BY <1>1, Current
<1>3. ~Reading /\ ~Reading' /\ pc' \in {"await", "drain"} /\ ~AwaitsStop
      /\ AwaitPrompt.cmd = "none" /\ StopMonitor.cmd = "CR"
  BY <1>1, <1>2 DEF Reading, AwaitsStop, AwaitPrompt, StopMonitor
<1>4. ~AwaitsStop' /\ (AwaitsRest' <=> AwaitsRest)
  <2>1. Head(todo) = AwaitPrompt => AwaitPrompt.do = "await"
    BY DEF AwaitPrompt
  <2> QED BY <1>1, <1>2, <1>3, <2>1 DEF AwaitsRest, AwaitsStop
<1>5. Pipeline'
  <2>1. CASE AwaitsRest
    <3>1. Exchange("PID") /\ ~outOfSync
      BY <2>1 DEF Synced, Pipeline
    <3>2. Exchange("PID")'
      BY <1>1, <3>1, LeftAlone
    <3> QED BY <1>1, <1>3, <1>4, <2>1, <3>1, <3>2 DEF Pipeline
  <2>2. CASE ~AwaitsRest
    <3>1. /\ outOfSync' => \E c \in Tried \cup {"ATE0"} : Exchange(c)'
          /\ ~outOfSync' => Quiet'
      BY <1>1, <1>3, <2>2, Untouched
    <3> QED BY <1>3, <1>4, <2>2, <3>1 DEF Pipeline
  <2> QED BY <2>1, <2>2
<1>6. SettingsInForce'
  <2>1. SettingsInForce
    BY DEF Synced
  <2> QED BY <1>1, <1>3, <2>1 DEF SettingsInForce, linkVars, chipVars
<1>7. IF source' = 0 THEN todo' \in Seq(InitSteps) ELSE PollTodo(todo')
  BY <1>1 DEF Synced
<1> QED BY <1>3, <1>5, <1>6, <1>7 DEF Synced

LEMMA SyncGivesUp ==
  ASSUME Synced, pc = "ready", todo # <<>>, StartGiveUp
  PROVE  Synced'
<1>1. Head(todo).do = "fail" /\ Fail(FALSE) /\ UNCHANGED <<linkVars, source, outOfSync, chipVars>>
  BY DEF StartGiveUp, Step
<1>2. source # 0
  BY <1>1, SyncFacts
<1>3. todo' = <<>> /\ pc' = "ready"
  BY <1>1, <1>2 DEF Fail
<1>4. ~(AwaitsRest \/ AwaitsStop \/ Reading)
  BY <1>1 DEF AwaitsRest, AwaitsStop, Reading, AwaitPrompt, StopMonitor
<1>5. Onward(<<>>)
  BY <1>2, OnwardEmpty
<1> QED BY <1>1, <1>3, <1>4, <1>5, Untouched, Ready DEF linkVars

\* A late reply is to be read before the command is written.
LEMMA SyncWaits ==
  ASSUME Synced, pc = "ready", outOfSync, pc' = "resync",
         UNCHANGED <<linkVars, chipVars, todo, source, outOfSync>>
  PROVE  Synced'
<1>1. ~(AwaitsRest \/ AwaitsStop \/ Reading)
  BY DEF Synced, Pipeline
<1>2. ~Reading' /\ ~AwaitsRest' /\ ~AwaitsStop'
  BY DEF Reading, AwaitsRest, AwaitsStop
<1>3. \E c \in Tried \cup {"ATE0"} : Exchange(c)'
  BY <1>1, Untouched
<1>4. Pipeline'
  BY <1>2, <1>3 DEF Pipeline
<1>5. SettingsInForce'
  BY <1>2 DEF Synced, SettingsInForce, linkVars, chipVars
<1>6. IF source' = 0 THEN todo' \in Seq(InitSteps) ELSE PollTodo(todo')
  BY DEF Synced
<1> QED BY <1>4, <1>5, <1>6 DEF Synced

\* A scan is stopped.
LEMMA SyncStops ==
  ASSUME TypeOK, AtStep, Synced, pc = "ready", todo # <<>>, Head(todo) = StopMonitor, pc' = "await",
         Write("CR"), UNCHANGED <<up, output, chipVars, todo, source, outOfSync, count>>
  PROVE  Synced'
<1>1. AwaitsStop /\ AwaitsStop' /\ Stopping' /\ ~Stopping
  BY DEF AwaitsStop, Stopping
<1>2. /\ Exchange("ATMA") /\ ~outOfSync /\ (up => mode = "monitor")
      /\ \A k \in 1..Len(output) : output[k].text \notin Prompts
  BY <1>1 DEF Synced, Pipeline
<1>3. ~AwaitsRest' /\ ~Reading'
  BY DEF AwaitsRest, Reading, AwaitPrompt, StopMonitor
<1>4. Exchange("ATMA")'
  <2>1. Answers("ATMA")'
    BY <1>2 DEF Exchange, Answers, Prompts
  <2>2. up => input = <<>> /\ serving = "ATMA" /\ ~Ended
    BY <1>1, <1>2 DEF Exchange
  <2>3. up' => input' = <<"CR">>
    <3>1. \A x : Append(<<>>, x) = <<x>>
      OBVIOUS
    <3> QED BY <2>2, <3>1 DEF Write
  <2>4. Ended' <=> Ended
    BY DEF Ended
  <2> QED BY <1>1, <1>2, <2>1, <2>2, <2>3, <2>4 DEF Exchange, chipVars
<1>5. Pipeline'
  BY <1>1, <1>2, <1>3, <1>4 DEF Pipeline
<1>6. SettingsInForce'
  BY <1>3 DEF Synced, SettingsInForce, chipVars
<1>7. IF source' = 0 THEN todo' \in Seq(InitSteps) ELSE PollTodo(todo')
  BY DEF Synced
<1> QED BY <1>5, <1>6, <1>7 DEF Synced

LEMMA SyncStarts ==
  ASSUME TypeOK, AtStep, Synced, SessionStep, pc = "ready", todo # <<>>
  PROVE  Synced'
<1>1. CASE StartWrite
  <2>1. /\ Head(todo).cmd # "none" /\ UNCHANGED <<up, output, todo, source, outOfSync, count, chipVars>>
        /\ IF outOfSync /\ Head(todo).cmd # "CR"
             THEN pc' = "resync" /\ UNCHANGED input
             ELSE pc' = Head(todo).do /\ Write(Head(todo).cmd)
    BY <1>1 DEF StartWrite, Step
  <2>2. CASE outOfSync /\ Head(todo).cmd # "CR"
    BY <2>1, <2>2, SyncWaits DEF linkVars
  <2>3. CASE Head(todo).cmd = "CR"
    <3>1. Head(todo) = StopMonitor /\ Head(todo).do = "await"
      BY <2>3, SyncFacts DEF StopMonitor
    <3>2. pc' = "await" /\ Write("CR")
      BY <2>1, <2>3, <3>1
    <3> QED BY <2>1, <3>1, <3>2, SyncStops
  <2>4. CASE ~outOfSync /\ Head(todo).cmd # "CR"
    <3>1. Head(todo).do \in {"reply", "lines", "scan"}
      BY <2>1, <2>4, Current
    <3>2. ~(AwaitsRest \/ AwaitsStop \/ Reading)
      BY <3>1 DEF AwaitsRest, AwaitsStop, Reading, AwaitPrompt, StopMonitor
    <3>3. Quiet
      BY <2>4, <3>2 DEF Synced, Pipeline
    <3>4. output' = <<>> /\ (up => input = <<>> /\ mode = "idle")
      BY <2>1, <3>3 DEF Quiet
    <3>5. outOfSync' = FALSE
      BY <2>1, <2>4 DEF TypeOK
    <3> QED BY <2>1, <2>4, <3>1, <3>4, <3>5, Typed
  <2> QED BY <2>2, <2>3, <2>4
<1> QED BY <1>1, Moves, SyncStartsRead, SyncGivesUp

LEMMA SyncResyncs ==
  ASSUME TypeOK, AtStep, Synced, SessionStep, pc = "resync"
  PROVE  pc' = "closed" \/ Synced'
<1>1. /\ outOfSync /\ todo # <<>> /\ Head(todo).do \in {"reply", "lines", "scan"} /\ UNCHANGED chipVars
      /\ output \in Seq(Lines)
  BY Moves DEF Synced, Pipeline, AtStep, TypeOK, ChipTypeOK
<1>2. PICK c \in Tried \cup {"ATE0"} : Exchange(c)
  BY <1>1 DEF Synced, Pipeline
<1>3. c # "ATMA"
  BY DEF Tried
<1>4. CASE Resynced
  <2>1. /\ HasPrompt /\ ReadReply /\ outOfSync' = FALSE /\ Write(Head(todo).cmd) /\ pc' = Head(todo).do
        /\ UNCHANGED <<up, todo, source, count>>
    BY <1>4 DEF Resynced
  <2>2. output' = <<>> /\ (up => input = <<>> /\ mode = "idle")
    BY <1>1, <1>2, <2>1, PromptEnds DEF ReadReply
  <2> QED BY <1>1, <2>1, <2>2, Typed
<1>5. CASE ResyncFailed
  <2>1. output' = <<>> /\ Failed("timeout") /\ UNCHANGED <<up, input, source, outOfSync>>
    BY <1>5 DEF ResyncFailed, DiscardAll
  <2>2. Exchange(c)'
    BY <1>1, <1>2, <1>3, <2>1, Discarded
  <2> QED BY <1>1, <2>1, <2>2, FailedSync
<1> QED BY <1>4, <1>5, Moves

LEMMA SyncReplies ==
  ASSUME TypeOK, AtStep, Synced, SessionStep, pc = "reply"
  PROVE  pc' = "closed" \/ Synced'
<1>1. /\ todo # <<>> /\ Head(todo).do = "reply" /\ UNCHANGED chipVars /\ output \in Seq(Lines) /\ Reading
      /\ outOfSync \in BOOLEAN
  BY Moves DEF AtStep, TypeOK, ChipTypeOK, Reading
<1>2. ~outOfSync
  BY <1>1 DEF Synced, Pipeline
<1>3. PICK c : c = Head(todo).cmd
  OBVIOUS
<1>8. /\ Head(todo).cmd # "ATMA"
      /\ Head(todo).how = "try" => Head(todo).cmd \in Tried
      /\ Head(todo).how = "ate0" => Head(todo).cmd = "ATE0"
  BY <1>1, SyncReplyFacts
<1>4. Exchange(c) /\ c # "ATMA"
  <2>1. Exchange(Head(todo).cmd)
    BY <1>1 DEF Synced, Pipeline
  <2> QED BY <1>3, <1>8, <2>1
<1>5. CASE ReplyRead
  <2>1. HasPrompt /\ ReadReply /\ UNCHANGED <<up, input, source, outOfSync>>
        /\ Replied({l.text : l \in Reply})
    BY <1>5 DEF ReplyRead
  <2>2. output # <<>> /\ output' = <<>> /\ (up => input = <<>> /\ mode = "idle")
    BY <1>1, <1>4, <2>1, PromptEnds DEF ReadReply
  <2>3. Quiet'
    BY <1>1, <2>1, <2>2 DEF Quiet, chipVars
  <2>4. up /\ Head(todo).cmd = "ATE0" => ~echo
    BY <2>2 DEF Synced, SettingsInForce, Begun
  <2>5. up /\ Head(todo).cmd = "ATH0" => ~headers
    BY <2>2 DEF Synced, SettingsInForce, Begun
  <2>6. up /\ Head(todo) = Send("ATH0", "must") => ~headers
    BY <2>5 DEF Send
  <2>7. PICK texts : texts = {l.text : l \in Reply}
    OBVIOUS
  <2>8. Replied(texts)
    BY <2>1, <2>7
  <2> QED BY <1>1, <1>2, <2>1, <2>3, <2>4, <2>6, <2>8, RepliedSync
<1>6. CASE ReplyTimedOut
  <2>1. output' = <<>> /\ outOfSync' /\ Failed("timeout") /\ UNCHANGED <<up, input, source>>
    BY <1>6 DEF ReplyTimedOut, DiscardAll
  <2>2. Exchange(c)'
    BY <1>1, <1>4, <2>1, Discarded
  <2>3. Head(todo).how \in {"try", "ate0"} => c \in Tried \cup {"ATE0"}
    BY <1>3, <1>8
  <2> QED BY <1>1, <2>1, <2>2, <2>3, FailedSync
<1>7. CASE ReplyEof
  <2>1. output' = <<>> /\ ~up /\ Failed("eof") /\ UNCHANGED <<up, input, source, outOfSync>>
    BY <1>7 DEF ReplyEof, DiscardAll
  <2>2. Quiet'
    BY <2>1 DEF Quiet
  <2> QED BY <1>1, <1>2, <2>1, <2>2, FailedSync
<1> QED BY <1>5, <1>6, <1>7, Moves

LEMMA SyncAwaits ==
  ASSUME Timely, TypeOK, AtStep, Synced, SessionStep, pc = "await"
  PROVE  Synced'
<1>1. /\ todo # <<>> /\ Head(todo).do = "await" /\ UNCHANGED chipVars /\ output \in Seq(Lines) /\ ~Reading
      /\ outOfSync \in BOOLEAN
  BY Moves DEF AtStep, TypeOK, ChipTypeOK, Reading
<1>2. source # 0 /\ Head(todo) \in {AwaitPrompt, StopMonitor}
  BY <1>1, SyncFacts
<1>3. Head(todo).how = "try" /\ Head(todo).cmd # "ATE0" /\ Head(todo) # Send("ATH0", "must")
  BY <1>2 DEF AwaitPrompt, StopMonitor, Send
<1>4. PICK c \in {"PID", "ATMA"} : Exchange(c) /\ (c = "ATMA" => Stopping)
  <2>1. AwaitsRest \/ (AwaitsStop /\ Stopping)
    BY <1>1, <1>2 DEF AwaitsRest, AwaitsStop, Stopping
  <2> QED BY <2>1 DEF Synced, Pipeline
<1>5. ~outOfSync
  <2>1. AwaitsRest \/ AwaitsStop
    BY <1>1, <1>2 DEF AwaitsRest, AwaitsStop
  <2> QED BY <2>1 DEF Synced, Pipeline
<1>6. PICK s : s = Tail(todo)
  OBVIOUS
<1>7. Onward(s)
  BY <1>1, <1>3, <1>6, OnwardTail
<1>8. /\ pc' = "ready" /\ todo' = s /\ UNCHANGED <<up, input, source, outOfSync>>
  BY <1>1, <1>3, <1>6, Moves DEF PromptRead, PromptMissed, GoOn
<1>9. output' = <<>> /\ (up => input = <<>> /\ mode = "idle")
  <2>1. CASE PromptRead
    <3>1. HasPrompt /\ ReadReply
      BY <1>3, <2>1 DEF PromptRead
    <3> QED BY <1>1, <1>4, <3>1, PromptEnds DEF ReadReply
  <2>2. CASE PromptMissed
    <3>1. ~HasPrompt /\ output' = <<>> /\ (Settled \/ ~up)
      BY <1>3, <2>2 DEF PromptMissed, DiscardAll, Elapsed, Timely
    <3>2. up => input = <<>> /\ mode = "idle"
      BY <1>4, <3>1 DEF Settled, Exchange
    <3> QED BY <3>1, <3>2
  <2> QED BY <2>1, <2>2, Moves
<1>10. Quiet'
  BY <1>1, <1>8, <1>9 DEF Quiet, chipVars
<1> QED BY <1>1, <1>5, <1>7, <1>8, <1>10, Ready

LEMMA SyncDrains ==
  ASSUME Timely, TypeOK, AtStep, Synced, SessionStep, pc = "drain"
  PROVE  Synced'
<1>1. /\ todo # <<>> /\ Head(todo).do = "drain" /\ UNCHANGED chipVars
      /\ ~(AwaitsRest \/ AwaitsStop \/ Reading) /\ outOfSync \in BOOLEAN
  BY Moves DEF AtStep, Reading, AwaitsRest, AwaitsStop, AwaitPrompt, StopMonitor, TypeOK
<1>2. source = 0 /\ Head(todo).how = "clear" /\ Head(todo).cmd # "ATE0"
  BY <1>1, SyncFacts
<1>3. outOfSync => \E c \in Tried \cup {"ATE0"} : Exchange(c)
  BY DEF Synced, Pipeline
<1>4. ~outOfSync => Quiet
  BY <1>1 DEF Synced, Pipeline
<1>5. CASE DrainRead
  <2>1. output' = <<>> /\ UNCHANGED <<up, input, pc, todo, source, outOfSync>>
    BY <1>5 DEF DrainRead, DiscardAll
  <2>2. outOfSync' => \E c \in Tried \cup {"ATE0"} : Exchange(c)'
    <3> SUFFICES ASSUME outOfSync' PROVE \E c \in Tried \cup {"ATE0"} : Exchange(c)'
      OBVIOUS
    <3>1. PICK c \in Tried \cup {"ATE0"} : Exchange(c)
      BY <1>3, <2>1
    <3>2. c # "ATMA"
      BY DEF Tried
    <3> QED BY <1>1, <2>1, <3>1, <3>2, Discarded
  <2>3. ~outOfSync' => Quiet'
    BY <1>1, <1>4, <2>1 DEF Quiet, chipVars
  <2>4. ~Reading' /\ ~AwaitsRest' /\ ~AwaitsStop' /\ pc' # "resync" /\ pc' # "rest" /\ pc' # "reply"
    BY <1>1, <2>1 DEF Reading, AwaitsRest, AwaitsStop
  <2>5. Pipeline'
    BY <2>2, <2>3, <2>4 DEF Pipeline
  <2>6. SettingsInForce'
    BY <1>1, <2>1, <2>4 DEF Synced, SettingsInForce, chipVars
  <2>7. IF source' = 0 THEN todo' \in Seq(InitSteps) ELSE PollTodo(todo')
    BY <2>1 DEF Synced
  <2> QED BY <2>4, <2>5, <2>6, <2>7 DEF Synced
<1>6. CASE DrainOver
  <2>1. /\ pc' = "ready" /\ todo' = Tail(todo) /\ UNCHANGED <<linkVars, source>> /\ ~outOfSync'
    BY <1>1, <1>2, <1>6 DEF DrainOver, GoOn
  <2>2. \/ output = <<>> /\ (Settled \/ ~up)
        \/ up /\ mode = "monitor"
    BY <1>6 DEF DrainOver, Elapsed, Timely
  <2>3. ASSUME outOfSync PROVE Quiet
    <3>1. PICK c \in Tried \cup {"ATE0"} : Exchange(c)
      BY <1>3, <2>3
    <3>2. c # "ATMA"
      BY DEF Tried
    <3> QED BY <2>2, <3>1, <3>2 DEF Exchange, Settled, Quiet
  <2>4. Quiet'
    BY <1>1, <1>4, <2>1, <2>3 DEF Quiet, linkVars, chipVars
  <2>5. PICK s : s = Tail(todo)
    OBVIOUS
  <2>6. Head(todo) # Send("ATH0", "must")
    BY <1>1 DEF Send
  <2>7. Onward(s)
    BY <1>1, <1>2, <2>5, <2>6, OnwardTail
  <2> QED BY <1>1, <2>1, <2>4, <2>5, <2>7, Ready DEF linkVars
<1> QED BY <1>5, <1>6, Moves

\* The operation is left with a reply outstanding: the rest of it is awaited first.
LEMMA SyncLeavesRest ==
  ASSUME Synced, source # 0, ~outOfSync, NEW s, PollScript(s), s # <<>>, Head(s) = AwaitPrompt, todo' = s,
         pc' = "ready", UNCHANGED <<up, source, outOfSync, chipVars>>, Exchange("PID")'
  PROVE  Synced'
<1>1. AwaitsRest' /\ ~AwaitsStop' /\ ~Reading' /\ ~outOfSync'
  BY DEF AwaitsRest, AwaitsStop, Reading, AwaitPrompt, StopMonitor
<1>2. Pipeline'
  BY <1>1 DEF Pipeline
<1>3. up => ~echo
  BY DEF Synced, SettingsInForce
<1>4. SettingsInForce'
  BY <1>1, <1>3 DEF SettingsInForce, PollScript, chipVars
<1> QED BY <1>2, <1>4 DEF Synced, PollScript

LEMMA SyncLeavesScan ==
  ASSUME Synced, source # 0, ~outOfSync, NEW s, PollScript(s), s # <<>>, Head(s) = StopMonitor, todo' = s,
         pc' = "ready", UNCHANGED <<up, source, outOfSync, chipVars>>, Exchange("ATMA")',
         up => mode = "monitor", \A k \in 1..Len(output') : output'[k].text \notin Prompts
  PROVE  Synced'
<1>1. ~AwaitsRest' /\ AwaitsStop' /\ ~Reading' /\ ~outOfSync'
  BY DEF AwaitsRest, AwaitsStop, Reading, AwaitPrompt, StopMonitor
<1>2. Pipeline'
  BY <1>1 DEF Pipeline, chipVars
<1>3. up => ~echo
  BY DEF Synced, SettingsInForce
<1>4. SettingsInForce'
  BY <1>1, <1>3 DEF SettingsInForce, PollScript, chipVars
<1> QED BY <1>2, <1>4 DEF Synced, PollScript

\* The read goes on with one line less.
LEMMA SyncReadsOn ==
  ASSUME Synced, Reading, todo # <<>>, pc \in {"lines", "scan"}, output \in Seq(Lines), output # <<>>,
         output' = Tail(output), UNCHANGED <<up, source, outOfSync, chipVars, pc, todo>>,
         NEW c, c = Head(todo).cmd, Exchange(c)'
  PROVE  Synced'
<1>1. /\ Reading' /\ ~AwaitsRest' /\ ~AwaitsStop' /\ pc' \notin {"resync", "rest", "reply"} /\ ~outOfSync
      /\ ~outOfSync'
  <2>1. ~outOfSync
    BY DEF Synced, Pipeline
  <2> QED BY <2>1 DEF Reading, AwaitsRest, AwaitsStop
<1>2. Exchange(Head(todo).cmd)'
  <2>1. Head(todo').cmd = c
    OBVIOUS
  <2> QED BY <2>1 DEF Exchange, Answers
<1>3. Pipeline'
  BY <1>1, <1>2 DEF Pipeline
<1>4. \A k \in 1..Len(output') : output'[k] = output[k + 1] /\ k + 1 \in 1..Len(output)
  <2> HIDE DEF Lines
  <2>1. /\ Len(Tail(output)) = Len(output) - 1 /\ Len(output) \in Nat
        /\ \A k \in 1..Len(Tail(output)) : Tail(output)[k] = output[k + 1]
    BY Tails
  <2>2. \A k \in 1..Len(Tail(output)) : k + 1 \in 1..Len(output)
    BY <2>1
  <2> QED BY <2>1, <2>2
<1>5. SettingsInForce'
  <2>1. SettingsInForce
    BY DEF Synced
  <2>2. Head(todo).cmd = "PID" => \A k \in 1..Len(output') : output'[k].text # "data+h"
    BY <1>4, <2>1 DEF SettingsInForce
  <2> QED BY <1>1, <2>1, <2>2 DEF SettingsInForce, chipVars
<1>6. IF source' = 0 THEN todo' \in Seq(InitSteps) ELSE PollTodo(todo')
  BY DEF Synced
<1> QED BY <1>1, <1>3, <1>5, <1>6 DEF Synced

\* Leaving replaces the last step.
LEMMA Left ==
  ASSUME NEW s, PollScript(s), Leave(s), Tail(todo) = <<>>
  PROVE  todo' = s /\ pc' = "ready"
<1>1. s \in Seq(PollSteps)
  BY DEF PollScript, PollTodo
<1>2. s \o <<>> = s
  <2> HIDE DEF PollSteps
  <2> QED BY <1>1
<1> QED BY <1>2 DEF Leave, GoOn

LEMMA SyncLines ==
  ASSUME TypeOK, AtStep, Synced, SessionStep, pc = "lines"
  PROVE  pc' = "closed" \/ Synced'
<1>1. /\ todo # <<>> /\ Head(todo).do = "lines" /\ UNCHANGED chipVars /\ output \in Seq(Lines) /\ Reading
      /\ outOfSync \in BOOLEAN
  BY Moves DEF AtStep, TypeOK, ChipTypeOK, Reading
<1>2. source # 0 /\ Tail(todo) = <<>> /\ Head(todo).cmd = "PID"
  BY <1>1, SyncFacts
<1>3. ~outOfSync /\ Exchange("PID")
  BY <1>1, <1>2 DEF Synced, Pipeline
<1> HIDE DEF Lines
<1>4. CASE LineRead
  <2>1. output # <<>> /\ output' = Tail(output) /\ UNCHANGED <<up, input, source, outOfSync>>
    BY <1>4 DEF LineRead
  <2>2. output[1] = Head(output) /\ 1 \in 1..Len(output)
    BY <1>1, <2>1
  <2>3. Head(output).text # "stray>"
    BY <1>3, <2>2 DEF Exchange, Answers
  <2>4. CASE IsPrompt(Head(output))
    <3>1. Head(output).text = ">"
      BY <2>3, <2>4 DEF IsPrompt, Prompts
    <3>2. Leave(AfterLines)
      BY <1>4, <2>4, <3>1 DEF LineRead, IsPrompt
    <3>3. PICK s : s = AfterLines
      OBVIOUS
    <3>4. todo' = s /\ pc' = "ready"
      BY <1>2, <3>2, <3>3, ExitScripts, Left
    <3>5. Quiet'
      BY <1>1, <1>3, <2>1, <3>1, HeadPromptEnds DEF Quiet, chipVars
    <3>6. Onward(s)
      BY <1>2, <3>3, ExitScripts, OnwardScript
    <3> QED BY <1>1, <1>3, <2>1, <3>4, <3>5, <3>6, Ready
  <2>5. CASE ~IsPrompt(Head(output))
    <3>1. Head(output).text # ">"
      BY <2>5 DEF IsPrompt, Prompts
    <3>2. Exchange("PID")'
      BY <1>1, <1>3, <2>1, <3>1, LineTaken
    <3>3. CASE UNCHANGED <<pc, todo>>
      BY <1>1, <1>2, <2>1, <3>2, <3>3, SyncReadsOn
    <3>4. CASE Leave(AfterError)
      <4>1. PICK s : s = AfterError
        OBVIOUS
      <4>2. todo' = s /\ pc' = "ready"
        BY <1>2, <3>4, <4>1, ExitScripts, Left
      <4> QED BY <1>1, <1>2, <1>3, <2>1, <3>2, <4>1, <4>2, ExitScripts, SyncLeavesRest
    <3>5. CASE Leave(<<AwaitPrompt>> \o AfterLines)
      <4>1. PICK s : s = <<AwaitPrompt>> \o AfterLines
        OBVIOUS
      <4>2. todo' = s /\ pc' = "ready"
        BY <1>2, <3>5, <4>1, ExitScripts, Left
      <4> QED BY <1>1, <1>2, <1>3, <2>1, <3>2, <4>1, <4>2, ExitScripts, SyncLeavesRest
    <3> QED BY <1>4, <2>5, <3>3, <3>4, <3>5 DEF LineRead
  <2> QED BY <2>4, <2>5
<1>5. CASE LinesTimedOut
  <2>1. Leave(<<AwaitPrompt>> \o AfterLines) /\ UNCHANGED <<linkVars, source, outOfSync>>
    BY <1>5 DEF LinesTimedOut
  <2>2. Exchange("PID")'
    BY <1>1, <1>3, <2>1, LeftAlone
  <2>3. PICK s : s = <<AwaitPrompt>> \o AfterLines
    OBVIOUS
  <2>4. todo' = s /\ pc' = "ready"
    BY <1>2, <2>1, <2>3, ExitScripts, Left
  <2> QED BY <1>1, <1>2, <1>3, <2>1, <2>2, <2>3, <2>4, ExitScripts, SyncLeavesRest DEF linkVars
<1>6. CASE LinesEof
  BY <1>6 DEF LinesEof, Fail
<1> QED BY <1>4, <1>5, <1>6, Moves

LEMMA SyncScans ==
  ASSUME Timely, TypeOK, AtStep, Synced, SessionStep, pc = "scan"
  PROVE  pc' = "closed" \/ Synced'
<1>1. /\ todo # <<>> /\ Head(todo).do = "scan" /\ UNCHANGED chipVars /\ output \in Seq(Lines) /\ Reading
      /\ outOfSync \in BOOLEAN /\ ~Stopping
  BY Moves DEF AtStep, TypeOK, ChipTypeOK, Reading, Stopping
<1>2. source # 0 /\ Tail(todo) = <<>> /\ Head(todo).cmd = "ATMA"
  BY <1>1, SyncFacts
<1>3. ~outOfSync /\ Exchange("ATMA")
  BY <1>1, <1>2 DEF Synced, Pipeline
<1>4. MayEndScan => input = <<>> /\ mode = "monitor" /\ ~HasPrompt
  BY DEF MayEndScan, Timely
<1>5. ~HasPrompt => \A k \in 1..Len(output) : output[k].text \notin Prompts
  BY <1>1, FirstPrompt DEF IsPrompt
<1> HIDE DEF Lines
<1>6. CASE ScanRead
  <2>1. output # <<>> /\ output' = Tail(output) /\ UNCHANGED <<up, input, source, outOfSync>>
    BY <1>6 DEF ScanRead
  <2>2. /\ output[1] = Head(output) /\ 1 \in 1..Len(output)
        /\ Len(output) \in Nat /\ Len(Tail(output)) = Len(output) - 1
        /\ \A k \in 1..Len(Tail(output)) : Tail(output)[k] = output[k + 1]
    BY <1>1, <2>1, Tails
  <2>3. \/ UNCHANGED <<pc, todo>>
        \/ IsPrompt(Head(output)) /\ count > 0 /\ Leave(AfterScan)
        \/ ~IsPrompt(Head(output)) /\ MayEndScan /\ Leave(<<StopMonitor>> \o AfterScan)
    BY <1>6 DEF ScanRead, IsPrompt, Prompts
  <2>4. CASE UNCHANGED <<pc, todo>>
    <3>1. ~Stopping'
      BY <1>1, <2>4 DEF Stopping
    <3>2. Exchange("ATMA")'
      <4>1. CASE Head(output).text = ">"
        <5>1. output' = <<>> /\ (up => input = <<>> /\ mode = "idle")
          BY <1>1, <1>3, <2>1, <4>1, HeadPromptEnds
        <5>2. Answers("ATMA")'
          BY <5>1 DEF Answers
        <5> QED BY <1>1, <2>1, <5>1, <5>2 DEF Exchange, chipVars
      <4>2. CASE Head(output).text # ">"
        BY <1>1, <1>3, <2>1, <3>1, <4>2, LineTaken
      <4> QED BY <4>1, <4>2
    <3> QED BY <1>1, <1>2, <2>1, <2>4, <3>2, SyncReadsOn
  <2>5. CASE IsPrompt(Head(output)) /\ count > 0 /\ Leave(AfterScan)
    <3>1. Head(output).text # "stray>"
      <4>1. count # 0
        BY <2>5 DEF TypeOK
      <4> QED BY <1>3, <2>2, <4>1 DEF Exchange, Answers
    <3>2. Head(output).text = ">"
      BY <2>5, <3>1 DEF IsPrompt, Prompts
    <3>3. PICK s : s = AfterScan
      OBVIOUS
    <3>4. todo' = s /\ pc' = "ready"
      BY <1>2, <2>5, <3>3, ExitScripts, Left
    <3>5. Quiet'
      BY <1>1, <1>3, <2>1, <3>2, HeadPromptEnds DEF Quiet, chipVars
    <3>6. Onward(s)
      BY <1>2, <3>3, ExitScripts, OnwardScript
    <3> QED BY <1>1, <1>3, <2>1, <3>4, <3>5, <3>6, Ready
  <2>6. CASE ~IsPrompt(Head(output)) /\ MayEndScan /\ Leave(<<StopMonitor>> \o AfterScan)
    <3>1. PICK s : s = <<StopMonitor>> \o AfterScan
      OBVIOUS
    <3>2. todo' = s /\ pc' = "ready"
      BY <1>2, <2>6, <3>1, ExitScripts, Left
    <3>3. Head(output).text # ">"
      BY <2>6 DEF IsPrompt, Prompts
    <3>4. ~Stopping'
      BY <3>2 DEF Stopping
    <3>5. Exchange("ATMA")'
      BY <1>1, <1>3, <2>1, <3>3, <3>4, LineTaken
    <3>6. \A k \in 1..Len(output') : output'[k].text \notin Prompts
      <4>1. \A k \in 1..Len(output') : output'[k] = output[k + 1] /\ k + 1 \in 1..Len(output)
        BY <2>1, <2>2
      <4> QED BY <1>4, <1>5, <2>6, <4>1
    <3> QED BY <1>1, <1>2, <1>3, <1>4, <2>1, <2>6, <3>1, <3>2, <3>5, <3>6, ExitScripts, SyncLeavesScan
  <2> QED BY <2>3, <2>4, <2>5, <2>6
<1>7. CASE ScanOver
  <2>1. MayEndScan /\ Leave(<<StopMonitor>> \o AfterScan) /\ UNCHANGED <<linkVars, source, outOfSync>>
    BY <1>7 DEF ScanOver
  <2>2. PICK s : s = <<StopMonitor>> \o AfterScan
    OBVIOUS
  <2>3. todo' = s /\ pc' = "ready"
    BY <1>2, <2>1, <2>2, ExitScripts, Left
  <2>4. ~Stopping'
    BY <2>3 DEF Stopping
  <2>5. \A k \in 1..Len(output') : output'[k].text \notin Prompts
    BY <1>4, <1>5, <2>1 DEF linkVars
  <2>6. Exchange("ATMA")'
    <3>1. Answers("ATMA")'
      BY <1>3, <2>1, <2>5 DEF Exchange, Answers, Prompts, linkVars
    <3>2. Ended' <=> Ended
      BY <2>1 DEF Ended, linkVars
    <3> QED BY <1>1, <1>3, <1>4, <2>1, <2>4, <3>1, <3>2 DEF Exchange, linkVars, chipVars
  <2> QED BY <1>1, <1>2, <1>3, <1>4, <2>1, <2>2, <2>3, <2>5, <2>6, ExitScripts, SyncLeavesScan DEF linkVars
<1>8. CASE LinesEof
  BY <1>8 DEF LinesEof, Fail
<1> QED BY <1>6, <1>7, <1>8, Moves

-----------------------------------------------------------------------------
(* Every step keeps the two ends in step *)

LEMMA SessionStarts ==
  ASSUME Init
  PROVE  SessionInv
<1>1. /\ up = FALSE /\ input = <<>> /\ output = <<>> /\ mode = "idle" /\ serving = "none"
      /\ body = <<>> /\ last = "none" /\ echo = TRUE /\ headers = FALSE
      /\ pc = "closed" /\ todo = <<>> /\ source = 0 /\ outOfSync = FALSE /\ count = 0
      /\ probes \in Probes
  BY DEF Init, ChipInit
<1>2. Len(Sources) \in Nat /\ MaxLines \in Nat
  BY SessionAssumption
<1>3. ChipTypeOK
  <2>1. input \in Seq(Commands) /\ output \in Seq(Lines) /\ body \in Seq(Texts)
    BY <1>1
  <2> QED BY <1>1, <2>1 DEF ChipTypeOK
<1>4. TypeOK
  <2>1. 0 \in 0..Len(Sources) /\ 0 \in 0..MaxLines
    BY ONLY <1>2
  <2>2. source \in 0..Len(Sources) /\ count \in 0..MaxLines
    BY ONLY <1>1, <2>1
  <2>3. pc \in PcStates /\ outOfSync \in BOOLEAN /\ probes \in Probes /\ pc \in {"closed", "rest", "ready"}
    BY ONLY <1>1 DEF PcStates
  <2> QED BY ONLY <1>3, <2>2, <2>3 DEF TypeOK
<1>5. Working
  <2>1. Len(body) = 0
    BY <1>1
  <2> QED BY <1>1, <2>1 DEF Working
<1>6. AtStep
  BY <1>1 DEF AtStep
<1> QED BY <1>1, <1>4, <1>5, <1>6 DEF SessionInv

LEMMA ConnectGreets ==
  ASSUME ResetFirst, TypeOK, Connect
  PROVE  Greeting'
<1>1. probes \in BOOLEAN
  BY SessionAssumption DEF TypeOK
<1>2. PICK s : s = ConnectScript
  OBVIOUS
<1>3. FromProbe(s) \/ FromDrain(s)
  BY <1>1, <1>2, ConnectScripts
<1>4. todo' = s /\ source' = 0 /\ ~outOfSync' /\ pc' = "ready"
  BY <1>2 DEF Connect, GoOn
<1> QED BY <1>3, <1>4, GreetingNext

LEMMA SyncMoves ==
  ASSUME Timely, TypeOK, AtStep, Synced, pc # "closed", SessionStep
  PROVE  pc' = "closed" \/ Synced'
<1>1. pc \in PcStates
  BY DEF TypeOK
<1>2. CASE pc = "rest" \/ (pc = "ready" /\ todo = <<>>)
  BY <1>2, SyncRests
<1>3. CASE pc = "ready" /\ todo # <<>>
  BY <1>3, SyncStarts
<1>4. CASE pc \in {"await", "drain"}
  BY <1>4, SyncAwaits, SyncDrains
<1>5. CASE pc \in {"resync", "reply"}
  BY <1>5, SyncResyncs, SyncReplies
<1>6. CASE pc \in {"lines", "scan"}
  BY <1>6, SyncLines, SyncScans
<1> QED BY <1>1, <1>2, <1>3, <1>4, <1>5, <1>6 DEF PcStates

LEMMA SessionKeeps ==
  ASSUME Timely, ResetFirst, SessionInv, [Next]_vars
  PROVE  SessionInv'
<1>1. TypeOK /\ Working /\ AtStep /\ (pc # "closed" => Greeting \/ Synced)
  BY DEF SessionInv
<1>2. CASE SessionStep /\ UNCHANGED probes
  <2>1. TypeOK' /\ Working' /\ AtStep'
    BY <1>1, <1>2, SessionTypes
  <2>2. CASE pc = "closed"
    <3>1. Greeting'
      BY <1>1, <1>2, <2>2, Moves, ConnectGreets
    <3> QED BY <2>1, <3>1 DEF SessionInv
  <2>3. CASE pc # "closed"
    <3>1. pc' = "closed" \/ Greeting' \/ Synced'
      BY <1>1, <1>2, <2>3, GreetingMoves, SyncMoves
    <3> QED BY <2>1, <3>1 DEF SessionInv
  <2> QED BY <2>2, <2>3
<1>3. CASE Disconnect /\ UNCHANGED probes
  <2>1. TypeOK' /\ Working' /\ AtStep'
    BY <1>1, <1>3, SessionTypes
  <2>2. pc' = "closed"
    BY <1>3 DEF Disconnect
  <2> QED BY <2>1, <2>2 DEF SessionInv
<1>4. CASE ChipMove
  BY <1>4, ChipKeeps
<1>5. CASE UNCHANGED vars
  <2>1. UNCHANGED <<linkVars, chipVars, sessionVars>>
    BY <1>5 DEF vars
  <2>2. TypeOK' /\ Working' /\ AtStep' /\ pc' = pc
    BY <1>1, <2>1 DEF TypeOK, ChipTypeOK, Working, AtStep, linkVars, chipVars, sessionVars
  <2>3. Greeting => Greeting'
    BY <2>1 DEF Greeting, ResetSent, linkVars, chipVars, sessionVars
  <2>4. Synced => Synced'
    <3>1. /\ AwaitsRest' <=> AwaitsRest
          /\ AwaitsStop' <=> AwaitsStop
          /\ Reading' <=> Reading
          /\ Quiet' <=> Quiet
          /\ Begun' <=> Begun
      BY <2>1 DEF AwaitsRest, AwaitsStop, Reading, Quiet, Begun, linkVars, chipVars, sessionVars
    <3>2. ASSUME NEW c PROVE Exchange(c)' <=> Exchange(c)
      BY <2>1 DEF Exchange, Answers, Ended, Stopping, linkVars, chipVars, sessionVars
    <3>3. Pipeline => Pipeline'
      BY <2>1, <3>1, <3>2 DEF Pipeline, linkVars, chipVars, sessionVars
    <3>4. /\ SilencesEcho(todo)' <=> SilencesEcho(todo)
          /\ HidesHeaders(todo)' <=> HidesHeaders(todo)
      BY <2>1 DEF SilencesEcho, HidesHeaders, sessionVars
    <3>5. SettingsInForce => SettingsInForce'
      BY <2>1, <3>1, <3>4 DEF SettingsInForce, linkVars, chipVars, sessionVars
    <3> QED BY <2>1, <3>3, <3>5 DEF Synced, PollTodo, sessionVars
  <2> QED BY <1>1, <2>2, <2>3, <2>4 DEF SessionInv
<1> QED BY <1>2, <1>3, <1>4, <1>5 DEF Next, ChipMove

\* For every profile whose init list begins with its one ATZ, and whatever the chip loses,
\* rejects, interrupts or sends late, the task of connect and poll_sources and the chip agree on
\* what is under way: `SessionInv` holds of every state.  The assumptions are the shipped init
\* lists, and that the windows of read_until_prompt, drain_input and the scan are long enough.
THEOREM Invariance ==
  ASSUME Timely, ResetFirst
  PROVE  Spec => []SessionInv
<1>1. Init => SessionInv
  BY SessionStarts
<1>2. SessionInv /\ [Next]_vars => SessionInv'
  BY SessionKeeps
<1> QED BY <1>1, <1>2, PTL DEF Spec

-----------------------------------------------------------------------------
(* What follows from it *)

LEMMA PollsInSync ==
  ASSUME SessionInv, source # 0, pc # "closed"
  PROVE  Synced /\ TypeOK /\ AtStep
  BY DEF SessionInv, Greeting

LEMMA RestsInSync ==
  ASSUME SessionInv, pc = "rest"
  PROVE  Synced /\ TypeOK /\ todo = <<>>
  BY DEF SessionInv, Greeting, Synced

LEMMA AnswerIsRead ==
  ASSUME output \in Seq(Lines), NEW l \in Answer
  PROVE  Reading /\ \E k \in 1..Len(output) : l = output[k]
<1>1. Len(output) \in Nat /\ (output # <<>> => Head(output) = output[1] /\ 1 \in 1..Len(output))
  OBVIOUS
<1>2. CASE pc = "reply" /\ HasPrompt
  <2>1. Reply = {output[k] : k \in 1..PromptAt} /\ PromptAt \in 1..Len(output)
    BY <1>2, FirstPrompt
  <2>2. PICK k \in 1..PromptAt : l = output[k]
    BY <1>2, <2>1 DEF Answer
  <2>3. k \in 1..Len(output)
    BY <1>1, <2>1, <2>2
  <2> QED BY <1>2, <2>2, <2>3 DEF Reading
<1>3. CASE pc \in {"lines", "scan"} /\ output # <<>>
  BY <1>1, <1>3 DEF Answer, Reading
<1> QED BY <1>2, <1>3 DEF Answer

\* What is read as the answer to a command was printed for it: no timeout, rejected or lost
\* command, error reply, line cap or late prompt shifts the replies of send_cmd, of the line loop
\* of poll_uds_pid_multiframe or of the scan of monitor_broadcast.
THEOREM AnswersMatch ==
  ASSUME Timely, ResetFirst
  PROVE  Spec => []RepliesMatch
<1>1. SessionInv => RepliesMatch
  <2> SUFFICES ASSUME SessionInv, Polling, NEW l \in Answer PROVE l.of = Head(todo).cmd
    BY DEF RepliesMatch
  <2>1. Synced /\ output \in Seq(Lines)
    BY PollsInSync, SessionAssumption DEF Polling, TypeOK, ChipTypeOK
  <2>2. Reading
    BY <2>1, AnswerIsRead
  <2>3. Answers(Head(todo).cmd)
    BY <2>1, <2>2 DEF Synced, Pipeline, Exchange
  <2> QED BY <2>1, <2>3, AnswerIsRead DEF Answers
<1> QED BY <1>1, Invariance, PTL

\* Between two cycles nothing of an earlier exchange is left on the link or in the chip unless
\* out_of_sync says so: every way out of an operation consumes what it asked for.
THEOREM CyclesEndInStep ==
  ASSUME Timely, ResetFirst
  PROVE  Spec => []IInv
<1>1. SessionInv => IInv
  <2> SUFFICES ASSUME SessionInv PROVE TypeOK /\ InStep
    BY DEF IInv
  <2>1. TypeOK
    BY DEF SessionInv
  <2>2. ASSUME pc = "rest", up, ~outOfSync PROVE Quiet
    BY <2>2, RestsInSync DEF Synced, Pipeline, AwaitsRest, AwaitsStop, Reading
  <2> QED BY <2>1, <2>2 DEF InStep, Quiet
<1> QED BY <1>1, Invariance, PTL

\* A session only exists over a chip that does not echo, even when the first ATE0 of send_ate0 was
\* lost, or a late banner was taken for its reply.
THEOREM EchoGoesOff ==
  ASSUME Timely, ResetFirst
  PROVE  Spec => []EchoIsOff
<1>1. SessionInv => EchoIsOff
  <2> SUFFICES ASSUME SessionInv, Connected, up, echo PROVE FALSE
    BY DEF EchoIsOff, SessionInv, TypeOK, ChipTypeOK
  <2>1. source \in Nat
    BY SessionAssumption DEF SessionInv, TypeOK
  <2>2. CASE pc = "rest"
    <3>1. ~SilencesEcho(<<>>)
      <4>1. Len(<<>>) = 0
        OBVIOUS
      <4> QED BY <4>1 DEF SilencesEcho
    <3> QED BY <2>2, <3>1, RestsInSync DEF Synced, SettingsInForce
  <2>3. CASE pc # "closed" /\ source > 0
    BY <2>1, <2>3, PollsInSync DEF Synced, SettingsInForce
  <2> QED BY <2>2, <2>3 DEF Connected
<1> QED BY <1>1, Invariance, PTL

\* No parser of a UDS reply sees a CAN-ID prefix, though init, a broadcast source or the source
\* before this one may have left headers on: the ATH0 of setup_uds is in force by then.
THEOREM HeadersGoOff ==
  ASSUME Timely, ResetFirst
  PROVE  Spec => []DecodedWithoutHeaders
<1>1. SessionInv => DecodedWithoutHeaders
  <2> SUFFICES ASSUME SessionInv, Polling, Head(todo).cmd = "PID", NEW l \in Answer
               PROVE  l.text # "data+h"
    BY DEF DecodedWithoutHeaders
  <2>1. Synced /\ output \in Seq(Lines)
    BY PollsInSync, SessionAssumption DEF Polling, TypeOK, ChipTypeOK
  <2>2. Reading
    BY <2>1, AnswerIsRead
  <2>3. \A k \in 1..Len(output) : output[k].text # "data+h"
    BY <2>1, <2>2 DEF Synced, SettingsInForce
  <2>4. \E k \in 1..Len(output) : l = output[k]
    BY <2>1, AnswerIsRead
  <2> QED BY <2>3, <2>4
<1> QED BY <1>1, Invariance, PTL

\* The CR that ends a scan of monitor_broadcast never reaches an idle chip, where it would repeat
\* ATMA and the next command's first character would be taken as the stop.
THEOREM StopsMeetMonitoring ==
  ASSUME Timely, ResetFirst
  PROVE  Spec => []OnlyMonitoringIsStopped
<1>1. SessionInv => OnlyMonitoringIsStopped
  <2> SUFFICES ASSUME SessionInv, Polling, up, input # <<>>, Head(input) = "CR", mode = "idle"
               PROVE  FALSE
    BY DEF OnlyMonitoringIsStopped
  <2>1. Synced /\ AtStep
    BY PollsInSync, SessionAssumption DEF Polling
  <2>2. ASSUME NEW c, Exchange(c), c # "CR" PROVE FALSE
    <3>1. Head(<<c>>) = c
      OBVIOUS
    <3> QED BY <2>2, <3>1 DEF Exchange
  <2>3. "CR" \notin Tried \cup {"ATE0"}
    BY DEF Tried
  <2>4. "CR" \notin Written
    BY DEF Written, Obd, Setting
  <2>5. ~outOfSync /\ ~AwaitsRest /\ ~AwaitsStop
    BY <2>1, <2>2, <2>3 DEF Synced, Pipeline
  <2>6. ~Reading
    BY <2>1, <2>2, <2>4, ReadingCommand DEF Synced, Pipeline
  <2>7. Quiet
    BY <2>1, <2>5, <2>6 DEF Synced, Pipeline
  <2> QED BY <2>7 DEF Quiet
<1> QED BY <1>1, Invariance, PTL

=============================================================================
