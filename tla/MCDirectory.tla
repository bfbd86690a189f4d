---------------------------- MODULE MCDirectory ----------------------------
(***************************************************************************)
(* Instances of Directory for TLC: two registrations of one name and one   *)
(* of another; a group whose creator is not among its members, a DM, and a *)
(* request of an unknown type.                                             *)
(***************************************************************************)
EXTENDS Directory, TLC

CONSTANTS r1, r2, r3, group, dm, other, alice, bob

SameName == r1 :> alice @@ r2 :> alice @@ r3 :> bob
AllDifferent == r1 :> r1 @@ r2 :> r2 @@ r3 :> r3

Make(type, creator, ids) == [type |-> type, createdBy |-> creator, memberIDs |-> ids]

GroupAndOther ==
    group :> Make("GROUP", r1, <<r3>>) @@ other :> Make("OTHER", r3, <<>>)
OneDM == dm :> Make("DM", r1, <<r2, r3>>)
=============================================================================
