----------------------------- MODULE MCFdsSave -----------------------------
(* Instances of FdsSave for TLC: one or two sides of two contents each. *)
EXTENDS FdsSave

MCContents == {"a", "b"}
AllA == [s \in Sides |-> "a"]
AllB == [s \in Sides |-> "b"]
NoImports == {NoDisk}
MayImport == {NoDisk, AllB}

NoLoads == {}
(* States saved earlier (shift < 0) and in a longer session (shift > 0).      *)
SomeLoads ==
  {[disk |-> AllA, side |-> 0, motor |-> FALSE, shift |-> -2],
   [disk |-> AllB, side |-> 0, motor |-> TRUE, shift |-> 1]}
=============================================================================
