------------------------------- MODULE MCIrcUsers -------------------------------
(* Instances of IrcUsers for TLC.                                             *)
EXTENDS IrcUsers

ThreeNicks == {"bot", "ann", "bob"}
TwoChannels == {"#a", "#b"}
SmallLetters == [c \in TwoChannels |-> c]
=============================================================================
