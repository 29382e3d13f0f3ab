------------------------------ MODULE MCSshIo ------------------------------
(* An instance of SshIo for TLC: two handshakes with one server, one of    *)
(* which may replace its key, beside a saved key of another server.        *)
EXTENDS SshIo

CONSTANTS c1, c2

SameHost == [c \in Conn |-> "h1"]
OneMayReplace == [c \in Conn |-> IF c = c1 THEN {"unknown"} ELSE {"unknown", "mismatch"}]
Files == {{}, {[host |-> "h1", key |-> "k1"], [host |-> "h2", key |-> "k1"]}}
=============================================================================
