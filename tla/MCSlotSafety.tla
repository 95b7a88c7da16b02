---------------------------- MODULE MCSlotSafety ----------------------------
(***************************************************************************)
(* Results of closes for the instances of SlotSafety that TLC checks.      *)
(***************************************************************************)
EXTENDS SlotSafety

\* A loss that breaches a limit of two at once, and a win; and with them a
\* loss that takes two to breach
MCPnls == {-2, 1}
MCLosses == {-2, -1, 1}
=============================================================================
