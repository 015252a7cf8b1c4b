-------------------------------- MODULE Dlc --------------------------------
(***************************************************************************)
(* The CAN data length code and the payload length it stands for           *)
(* (crates/wiretap-protocol/src/dlc.rs). The two differ above 8 bytes.     *)
(***************************************************************************)
EXTENDS Integers

FD_DLC_LEN == [dlc \in 0 .. 15 |->
  IF dlc <= 8 THEN dlc
  ELSE <<12, 16, 20, 24, 32, 48, 64>>[dlc - 8]]

\* Classic CAN caps at 8 bytes however the code is encoded.
DlcToLen(dlc, fd) ==
  IF dlc % 16 <= 8 \/ fd THEN FD_DLC_LEN[dlc % 16] ELSE 8

\* The smallest code that can carry len bytes.
LenToDlc(len) ==
  IF len > 64 THEN 15
  ELSE CHOOSE dlc \in 0 .. 15 :
         /\ FD_DLC_LEN[dlc] >= len
         /\ \A d \in 0 .. dlc - 1 : FD_DLC_LEN[d] < len

PayloadDlc(len, fd) ==
  LET most == IF fd THEN 64 ELSE 8
  IN  LenToDlc(IF len < most THEN len ELSE most)
=============================================================================
