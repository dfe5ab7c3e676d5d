------------------------------ MODULE MCPlaces -------------------------------
(***************************************************************************)
(* What the parts of MCSystem have in common: which part a behaviour is    *)
(* about, and the places that the variables of that part take, in the      *)
(* order in which its module declares them. The places that a part does    *)
(* not need stay 0.                                                        *)
(***************************************************************************)
EXTENDS Naturals

VARIABLES
    part,          \* the part that this behaviour is about
    v1, v2, v3, v4, v5, v6, v7, v8, v9, v10, v11, v12, v13, v14, v15, v16,
    v17, v18, v19, v20, v21

places ==
  <<part, v1, v2, v3, v4, v5, v6, v7, v8, v9, v10, v11, v12, v13, v14, v15, v16,
    v17, v18, v19, v20, v21>>

\* The places from one on are not used.
Spare21 == v21 = 0
Spare20 == v20 = 0 /\ Spare21
Spare19 == v19 = 0 /\ Spare20
Spare18 == v18 = 0 /\ Spare19
Spare17 == v17 = 0 /\ Spare18
Spare16 == v16 = 0 /\ Spare17
Spare15 == v15 = 0 /\ Spare16
Spare14 == v14 = 0 /\ Spare15
Spare13 == v13 = 0 /\ Spare14
Spare12 == v12 = 0 /\ Spare13
Spare11 == v11 = 0 /\ Spare12
Spare10 == v10 = 0 /\ Spare11
Spare9 == v9 = 0 /\ Spare10
Spare8 == v8 = 0 /\ Spare9
Spare7 == v7 = 0 /\ Spare8
Spare6 == v6 = 0 /\ Spare7

Keep21 == UNCHANGED v21
Keep20 == UNCHANGED v20 /\ Keep21
Keep19 == UNCHANGED v19 /\ Keep20
Keep18 == UNCHANGED v18 /\ Keep19
Keep17 == UNCHANGED v17 /\ Keep18
Keep16 == UNCHANGED v16 /\ Keep17
Keep15 == UNCHANGED v15 /\ Keep16
Keep14 == UNCHANGED v14 /\ Keep15
Keep13 == UNCHANGED v13 /\ Keep14
Keep12 == UNCHANGED v12 /\ Keep13
Keep11 == UNCHANGED v11 /\ Keep12
Keep10 == UNCHANGED v10 /\ Keep11
Keep9 == UNCHANGED v9 /\ Keep10
Keep8 == UNCHANGED v8 /\ Keep9
Keep7 == UNCHANGED v7 /\ Keep8
Keep6 == UNCHANGED v6 /\ Keep7
=============================================================================
