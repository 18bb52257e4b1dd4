---------------------------- MODULE MCAcquisition ----------------------------
(***************************************************************************)
(* Small instances of the acquisition coordinator.  MaxInputs bounds the   *)
(* inputs from outside; completions, timers and packets are bounded only   *)
(* by the state.                                                           *)
(***************************************************************************)
EXTENDS Acquisition

=============================================================================
