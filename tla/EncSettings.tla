---------------------------- MODULE EncSettings -----------------------------
(***************************************************************************)
(* What esp_video_enc.h promises of an open encoder: a setting that was    *)
(* answered with ESP_VC_ERR_OK is in force from then on, for every frame,  *)
(* one that was refused leaves everything as it was, and a frame, coded or *)
(* failed, changes no setting.                                             *)
(***************************************************************************)
EXTENDS Naturals

CONSTANTS
  Keys,    \* what can be set
  Closed   \* no encoder is open

VARIABLES
  setting,  \* Closed, or the settings in force
  call      \* the last call and its answer

settingVars == <<setting, call>>

Init == setting = Closed /\ call = [op |-> "none"]

Open ==
  /\ setting = Closed /\ setting' # Closed
  /\ call' = [op |-> "open"]

Set(k) ==
  /\ setting # Closed
  /\ call'.op = "set" /\ call'.key = k
  /\ setting' = IF call'.ok THEN [setting EXCEPT ![k] = call'.value] ELSE setting

\* The frame is coded with the settings in force.
Code ==
  /\ setting # Closed
  /\ call' = [op |-> "code", with |-> setting]
  /\ UNCHANGED setting

Fail == UNCHANGED setting /\ call' = [op |-> "failed"]

Close == setting # Closed /\ setting' = Closed /\ call' = [op |-> "close"]

Next == Open \/ (\E k \in Keys : Set(k)) \/ Code \/ Fail \/ Close
Spec == Init /\ [][Next]_settingVars
=============================================================================
