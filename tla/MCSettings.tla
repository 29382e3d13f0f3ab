----------------------------- MODULE MCSettings -----------------------------
(* An instance of ConnectionHistory and Settings for TLC: two shortcuts that may meet *)
(* in one binding, one of which may have no modifier and be refused, the switch of    *)
(* the history, and a switch that had another name once.                              *)
EXTENDS ConnectionHistory

CONSTANTS w1, w2, home, jump

Settings4 == {"copy", "paste", "history", "external"}
Shortcuts2 == {"copy", "paste"}
ValuesOf ==
  [s \in Settings4 |-> CASE s = "copy" -> {"a", "c", "bare"}
                         [] s = "paste" -> {"b", "c", "C", "none"}
                         [] s \in {"history", "external"} -> {"on", "off"}]
Defaults == [copy |-> "a", paste |-> "b", history |-> "on", external |-> "off"]
CanonicalOf ==
  [v \in {"a", "b", "c", "C", "bare", "none", "on", "off"} |-> IF v = "C" THEN "c" ELSE v]

None == [s \in Settings4 |-> Missing]

\* No file, a current one, one that spells a shortcut in capitals, and one of a version
\* that kept the profiles with the settings and had another name for a switch.
Files ==
  {[members |-> None, renamed |-> None, profiles |-> Absent, current |-> FALSE],
   [members |-> Defaults, renamed |-> None, profiles |-> Absent, current |-> TRUE],
   [members |-> [None EXCEPT !["paste"] = "C"], renamed |-> None,
    profiles |-> Absent, current |-> FALSE],
   [members |-> [None EXCEPT !["history"] = "off"],
    renamed |-> [None EXCEPT !["external"] = "on"],
    profiles |-> [n \in {home} |-> "d1"], current |-> FALSE]}

\* One destination in two spellings, two others, and one of the other kind.
Inputs ==
  {[kind |-> "ssh", host |-> "h1", spelling |-> "lower"],
   [kind |-> "ssh", host |-> "h1", spelling |-> "upper"],
   [kind |-> "ssh", host |-> "h2", spelling |-> "lower"],
   [kind |-> "ssh", host |-> "h3", spelling |-> "lower"],
   [kind |-> "telnet", host |-> "h1", spelling |-> "lower"]}
=============================================================================
