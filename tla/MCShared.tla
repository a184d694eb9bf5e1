------------------------------ MODULE MCShared ------------------------------
(***************************************************************************)
(* Shared for TLC, on rows of                                              *)
(*   struct { teams: Vec<Shared<Team>>, owner: Option<Shared<User>> }      *)
(*   struct Team { members: Vec<Shared<User>> }                            *)
(* Position T is the key column of teams, U that of members, O that of     *)
(* owner: a user may occur at both U and O, with a dictionary for each.    *)
(***************************************************************************)
EXTENDS Shared

CONSTANTS T, U, O, t1, t2, u1, u2

MCPosition == {T, U, O}
MCObject == {t1, t2, u1, u2}

MCKids ==
  [o \in MCObject |->
     CASE o = t1 -> << <<U, u1>> >>
       [] o = t2 -> << <<U, u2>>, <<U, u1>> >>
       [] OTHER -> << >>]

Teams == << <<T, t1>>, <<T, t2>>, <<T, t1>> >>

MCRowData == {Teams, << <<T, t2>>, <<O, u1>> >>}

\* A shorter row for the runs with nested calls.
MCShortRow == {<< <<T, t1>>, <<T, t1>>, <<O, u1>> >>, << <<O, u2>> >>}

\* Keys no writer produces: one too large, a repeat before its first
\* occurrence, and a payload that is missing.
DamagedTeams(keys, payload) ==
  [ keys    |-> [p \in MCPosition |-> IF p = T THEN keys ELSE <<0>>],
    payload |-> [p \in MCPosition |-> IF p = T THEN payload ELSE <<u1>>],
    row     |-> Teams ]

MCDamaged ==
  { DamagedTeams(<<0, 2, 0>>, <<t1, t2>>),
    DamagedTeams(<<0, 0, 1>>, <<t1>>) }
=============================================================================
