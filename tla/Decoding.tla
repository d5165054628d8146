-------------------------------- MODULE Decoding --------------------------------
(***************************************************************************)
(* From the lines of the ELM327 to what is sent: the lines of a poll       *)
(* become a reply (ReplyAssembly) or those of a scan the frames of a       *)
(* broadcast source (BroadcastScan), a field is read out of it             *)
(* (FieldDecoding), and payloads are built of a cycle's readings           *)
(* (Payloads).                                                             *)
(*                                                                         *)
(* The four parts hand each other values and share no state, so that each  *)
(* is explored by itself: a behaviour exercises one of them while the      *)
(* others rest in a state that they start in.                              *)
(***************************************************************************)
EXTENDS FieldDecoding, ReplyAssembly, BroadcastScan, Payloads

VARIABLE part    \* the one that this behaviour exercises

FieldRest ==
    /\ source = "broadcast" /\ reply = <<>>
    /\ field = CHOOSE f \in FieldSpecs : check_field(f, MaxLen("broadcast"))

DecodingInit ==
    /\ part \in {"fields", "assembly", "scan", "payloads"}
    /\ IF part = "fields" THEN FieldInit ELSE FieldRest
    /\ AssemblyInit /\ (part # "assembly" => size = 1 /\ lines = <<>>)
    /\ ScanInit
    /\ PayloadsInit

FieldStep    == part = "fields" /\ NextByte /\ UNCHANGED <<assemblyVars, scanVars, payloadsVars>>
AssemblyStep == part = "assembly" /\ AssemblyNext /\ UNCHANGED <<fieldVars, scanVars, payloadsVars>>
ScanStep     == part = "scan" /\ ScanNext /\ UNCHANGED <<fieldVars, assemblyVars, payloadsVars>>
PayloadsStep == part = "payloads" /\ PayloadsNext /\ UNCHANGED <<fieldVars, assemblyVars, scanVars>>

DecodingNext ==
    /\ FieldStep \/ AssemblyStep \/ ScanStep \/ PayloadsStep
    /\ UNCHANGED part

DecodingSpec == DecodingInit /\ [][DecodingNext]_<<part, fieldVars, assemblyVars, scanVars, payloadsVars>>

=============================================================================
