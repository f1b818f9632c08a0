------------------------------ MODULE NfpClock ------------------------------
(***************************************************************************)
(* The clock of the NFP models in real time, and what a jittered timer and *)
(* the timer of the work queue may be set to.  Time is the simulator's: an *)
(* event happens at its time, and events of one instant in any order.      *)
(***************************************************************************)
EXTENDS Integers

CONSTANTS
  Jitter,      \* m_jitter
  WorkDelays,  \* delays the timer of the work queue is set to
  MaxDelay     \* longest time from Broadcast to the PIT of the router that hears it

VARIABLE
  now          \* Simulator::Now ()

Never == -1
Time  == Nat \cup {Never}

\* CalculateJitteredTime: when a timer for an expiry time may expire.
Jittered(expiry, jitter) == (expiry - jitter) .. expiry
=============================================================================
