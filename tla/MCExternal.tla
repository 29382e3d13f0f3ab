------------------------------- MODULE MCExternal -------------------------------
(* An instance of ExternalControl for TLC.  Two requests run at once: two  *)
(* that are about the same session, or two that connect and share the      *)
(* settings and the windows their prompts are shown in.  One of each has   *)
(* nothing in common with the other, nor has a session with the settings.  *)
EXTENDS ExternalControl, TLC

MCChars == {"a", "b"}
MCPieces == {<<"a">>, <<"b">>, <<"a", "a">>}
MCMarker == <<"a", "a">>
MCKinds == LogKinds \cup ConnectKinds \cup {"focus", "disconnect"}

Symmetry == Permutations(Windows) \cup Permutations(Callers) \cup Permutations(Clients)

\* Bound: which requests run beside each other, and what happens to a session
\* nobody asks about.
OfOneSort ==
  LET kinds == {req[c].kind : c \in Callers} \ {"none"}
  IN  \/ kinds \cap ConnectKinds = {} /\ settings = Switches
      \/ /\ kinds \subseteq ConnectKinds
         /\ opened = "shown" /\ live /\ active /\ owner = focused /\ log = "inactive"
=============================================================================
