------------------------------ MODULE MCTelnet ------------------------------
(* An instance of Telnet and of TelnetCodec for TLC.                       *)
(*                                                                         *)
(* They share no variable: no step of either enables, disables or changes  *)
(* one of the other, and each property is about one of them.  So a step of *)
(* the one is looked at where the other has not begun, and the run visits  *)
(* the states of both rather than all pairs of them.                       *)
EXTENDS Telnet, TelnetCodec

CONSTANTS c1, c2, r1, r2

\* Input with a byte to escape at its end, and twice; a size out of the limits on both sides,
\* which has two such bytes once it is clamped.
Texts1 == {<<Iac, Sb, Iac>>}
Sizes1 == {<<0, 65536>>}

SessionInit == TelnetInit /\ CodecInit

SessionNext ==
  \/ TelnetNext /\ UNCHANGED codecVars /\ CodecInit
  \/ CodecNext /\ UNCHANGED telnetVars /\ attempt = "pending"

SessionSpec ==
  SessionInit /\ [][SessionNext]_<<telnetVars, codecVars>> /\ TelnetFairness
=============================================================================
