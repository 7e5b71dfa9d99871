---------------------------- MODULE MCSuffixSync ------------------------------
(* Small plans for SuffixSync.                                              *)
EXTENDS SuffixSync

CONSTANTS steady, peer1, peer2, body, body2, terminal, d1, d2, d3, e1, e2

TerminalOnly == <<terminal>>
OneBody == <<body, terminal>>
TwoBodies == <<body, body2, terminal>>
ListTerminal == [x \in Peer |-> IF x = steady THEN {Claim} ELSE {{terminal}}]
ListBodies == [x \in Peer |-> IF x = steady THEN {Claim} ELSE {{body, body2}}]
OneDomain == [x \in Peer |-> d1]
Domains == [x \in Peer |-> IF x = steady THEN d1 ELSE IF x = peer1 THEN d2 ELSE d3]
OneEncoding == [x \in Peer |-> e1]
TwoEncodings == [x \in Peer |-> IF x = steady THEN e1 ELSE e2]
Ranks == [x \in Peer |-> IF x = peer1 THEN 0 ELSE IF x = peer2 THEN 1 ELSE 2]
=============================================================================
