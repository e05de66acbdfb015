------------------------------ MODULE MCRoster ------------------------------
(* Instances of Roster for TLC.                                             *)
EXTENDS Roster, TLC
CONSTANTS a, b, c, f1, f2, f3

TwoUsers == {a, b}
JustA == {a}
ThreeUsers == {a, b, c}
ThreeFds == {f1, f2, f3}
SocialCommands == {"REQUESTADD", "ACCEPTADD", "ACCEPTANDADD", "REFUSEADD", "DELFRIEND"}
SessionCommands == {"REALMESSAGE", "SEARCHFRIEND", "SEARCHWHO", "DELFRIEND"}
AllCommands == SocialCommands \cup SessionCommands
FdSymmetry == Permutations(ThreeFds)
UserFdSymmetry == Permutations(ThreeUsers) \cup Permutations(ThreeFds)
=============================================================================
