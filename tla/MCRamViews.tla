----------------------------- MODULE MCRamViews -----------------------------
EXTENDS RamViews, TLC

CONSTANTS c1, c2, s, m1, reg, rom
MC_Cell == {c1, c2, s}
MC_Addr == {c1, c2, s, m1, reg}
MC_Phys == c1 :> c1 @@ c2 :> c2 @@ s :> s @@ m1 :> c1
MC_Modes == {{c1}, {s}, {m1}, {reg}, {c2, s, reg}}
MC_Entries == <<{c1}, {c1}, {c2}, {c1}>>
MC_Reads == <<c1 :> {c1}, c1 :> {c1}, c2 :> {c2}, c1 :> {c1, s}>>
MC_Image == <<c1 :> 0 @@ c2 :> 0 @@ s :> 0, c1 :> 1 @@ c2 :> 0 @@ s :> 0,
              c1 :> 0 @@ c2 :> 0 @@ s :> 0, c1 :> 0 @@ c2 :> 0 @@ s :> 0>>
MC_Site == {c1}
MC_Key == c1 :> (c1 :> 0)
=============================================================================
