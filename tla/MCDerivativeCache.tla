-------------------------- MODULE MCDerivativeCache --------------------------
(* Small instances of DerivativeCache. A path is <<variant, revision, profile>>: *)
(* "card" (CARD_DISPLAY_960) is the base of an image, "poster" that of a video,   *)
(* "box" (LIGHTBOX_4096) an enhancement of an image. The lease is checked for     *)
(* "card" only, and the cleaners do not recognise its files.                     *)
EXTENDS DerivativeCache, TLC

MCPath(V) == {<<v, r, 1>> : v \in V, r \in 1..MaxRevision}
PosterOnly == MCPath({"poster"})
BoxThenCard == {<<"box", 1, 1>>, <<"card", 2, 1>>}
BoxOnly == MCPath({"box"})
TwoProfiles == {<<"card", 1, 1>>, <<"box", 1, 1>>, <<"box", 1, 2>>}
MCVariantOf == [p \in Path |-> p[1]]
MCRevisionOf == [p \in Path |-> p[2]]
MCBase == {p \in Path : p[1] \in {"card", "poster"}}
MCFenced == {p \in Path : p[1] = "card"}
MCRecognised == {p \in Path : p[1] # "card"}
MCFileId == 1..4
MCFewFiles == 1..3
Symmetry == Permutations(Worker)
==============================================================================
