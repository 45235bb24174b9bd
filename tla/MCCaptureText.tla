--------------------------- MODULE MCCaptureText ----------------------------
(* Lines of a few words over a small catalogue: one job is called by a      *)
(* number, two names share a word, and a keyword belongs to two categories. *)
EXTENDS CaptureText

AllWords == {"smith", "house", "oak", "bunnings", "mitre", "nails", "paint", "cash", "eft"}

Aliases == [kelly |-> {"oak"}, smith |-> {}, block |-> {}]
Codes == [kelly |-> "K1", smith |-> "K2", block |-> "100"]
JobNames == [kelly |-> <<"kelly">>, smith |-> <<"smith", "house">>, block |-> <<"20", "house">>]

Merchants == [bunnings |-> {"bunnings", "nails"}, mitre |-> {"mitre"}]

Keywords == [hardware |-> {"nails", "paint"}, painting |-> {"paint", "smith"},
             archived |-> {"oak"}]

Highs == {0, 1, 3, 10, 12, 105, 1010}
Lows == {0, 1, 5, 10, 12, 15, 20, 50, 55, 99, 100, 101, 105, 110, 111, 115, 500, 505, 550, 555,
         1000, 1005, 1010, 1050, 1055, 1100, 1500, 1505, 1550, 5000, 5500, 5555, 9999}
AllSpoken == {h * 10000 + l : h \in Highs, l \in Lows} \ {0}
=============================================================================
