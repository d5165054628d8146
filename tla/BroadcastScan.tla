------------------------------ MODULE BroadcastScan ------------------------------
(***************************************************************************)
(* The scan of a broadcast source (monitor_broadcast and                   *)
(* route_broadcast_lines in adapter/elm327.rs): which lines the monitoring *)
(* chip shows, when the scan ends and what is reported of each frame.  The *)
(* commands around it and the stop are in Elm327Session.                   *)
(***************************************************************************)
EXTENDS Naturals, Sequences, FiniteSets

CONSTANTS Frames,     \* CAN-IDs of the source's frames
          Others,     \* CAN-IDs on the bus that no frame asks for
          Needed,     \* the frames with a field in stop_when
          MaxLines,   \* bound: lines of a scan
          NoValue

ASSUME ScanAssumption ==
    /\ Needed \subseteq Frames /\ Frames \cap Others = {} /\ MaxLines \in Nat
    /\ IsFiniteSet(Frames)

\* "data" has a value of each field, "short" ends before them, "bare" ends after the CAN-ID,
\* "damaged" ends in <DATA ERROR or <RX ERROR, "text" is a message without a CAN-ID.
Kinds == {"data", "short", "bare", "damaged", "text"}
Lines == [id : Frames \cup Others, kind : Kinds]

VARIABLES shown, seen_ids, ended_by, reported,
          wanted     \* what an observer of the bus expects to be reported: [frame -> line]

scanVars == <<shown, seen_ids, ended_by, reported, wanted>>

ScanInit ==
    /\ shown = <<>> /\ seen_ids = {} /\ ended_by = "no"
    /\ reported = [f \in Frames |-> NoValue] /\ wanted = [f \in Frames |-> NoValue]

HasId(line) == line.kind # "text"

\* The fault: a damaged line is taken for data.
RoutedDamaged(line) == line.kind \in {"data", "short", "damaged"}

\* Lines with ERROR in them, and lines without a CAN-ID or data bytes, are not routed.
Routed(line) == line.kind \in {"data", "short"}

PayloadsOf(ls, f) == {i \in DOMAIN ls : ls[i].id = f /\ Routed(ls[i])}

\* A frame's fields are read from its most recent payload; a value is the number of its line.
LatestValue(ls, f) ==
    IF PayloadsOf(ls, f) = {} THEN NoValue
    ELSE LET latest == CHOOSE i \in PayloadsOf(ls, f) : \A j \in PayloadsOf(ls, f) : j <= i IN
         IF ls[latest].kind # "short" THEN latest ELSE NoValue

Finish(reason) ==
    /\ ended_by' = reason
    /\ reported' = [f \in Frames |-> LatestValue(shown', f)]

Enough(seen) == Needed # {} /\ Needed \subseteq seen

\* One more line; with it the scan may have all it needs.
Line ==
    /\ ended_by = "no" /\ Len(shown) < MaxLines
    /\ \E line \in Lines :
        /\ shown' = Append(shown, line)
        /\ seen_ids' = IF HasId(line) THEN seen_ids \cup {line.id} ELSE seen_ids
        /\ wanted' = IF line.id \in Frames /\ line.kind \in {"data", "short"}
                     THEN [wanted EXCEPT ![line.id] =
                             IF line.kind = "data" THEN Len(shown') ELSE NoValue]
                     ELSE wanted
    /\ IF Enough(seen_ids') THEN Finish("stop_when") ELSE UNCHANGED <<ended_by, reported>>

\* A prompt ends the scan once there is a line: the chip left monitoring.  An earlier one is
\* ignored.
Prompt ==
    /\ ended_by = "no" /\ shown # <<>>
    /\ UNCHANGED <<shown, seen_ids, wanted>>
    /\ Finish("prompt")

Expire ==
    /\ ended_by = "no"
    /\ UNCHANGED <<shown, seen_ids, wanted>>
    /\ \E reason \in {"deadline", "idle timeout"} : Finish(reason)

\* The link was closed, or failed: the source reports nothing.
LinkLost ==
    /\ ended_by = "no"
    /\ ended_by' = "error"
    /\ UNCHANGED <<shown, seen_ids, reported, wanted>>

ScanNext == Line \/ Prompt \/ Expire \/ LinkLost

BroadcastScanSpec == ScanInit /\ [][ScanNext]_scanVars

-----------------------------------------------------------------------------
(* Properties *)

Ended == ended_by \notin {"no", "error"}

\* Whatever ends the scan, each frame is reported as the bus last showed it: the last payload
\* counts, damaged lines and those of other frames change nothing (route_broadcast_lines).
ReportsLatest == Ended => reported = wanted

\* Why it holds: at every line the observer and the router agree on each frame, and of a
\* frame's payloads there is a last one.
Tracked ==
    /\ shown \in Seq(Lines)
    /\ wanted = [f \in Frames |-> LatestValue(shown, f)]
    /\ \A f \in Frames : PayloadsOf(shown, f) # {} =>
         \E i \in PayloadsOf(shown, f) : \A j \in PayloadsOf(shown, f) : j <= i

\* elm327.rs:466-468: "Once a line has arrived for each of them, the wanted data is in hand
\* and the scan can end before the deadline."
WantedDataInHand == ended_by = "stop_when" => \A f \in Needed : PayloadsOf(shown, f) # {}

=============================================================================
