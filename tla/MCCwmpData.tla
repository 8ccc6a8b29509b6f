----------------------------- MODULE MCCwmpData -----------------------------
(***************************************************************************)
(* CwmpData for TLC: the ManagementServer URL, which is easycwmp's own and *)
(* whose set command checks the value; the Enable of two WLANs, which is   *)
(* one option; and a name that is not in the data model.                   *)
(***************************************************************************)
EXTENDS CwmpData, TLC

CONSTANTS en1, en2

MCParams == {"url", en1, en2}

MCNames == MCParams \cup {"bogus"}

MCOption == [p \in MCParams |-> IF p = "url" THEN "url" ELSE "wl0"]

MCInvalid == {<<"url", "b">>}

Symmetry == Permutations({en1, en2})

====
