--------------------------- MODULE MCThreadedBuilder ---------------------------
(***************************************************************************)
(* Model values and bounds for checking ThreadedBuilder with TLC.          *)
(*   kind 1  a node/identifier kind without static text                    *)
(*   kind 2  a punctuation kind whose static text is "+"                   *)
(* The text "ab" (2 bytes) and "+" (1 byte) make node lengths differ from  *)
(* child counts.                                                           *)
(***************************************************************************)
EXTENDS ThreadedBuilder, TLC

CONSTANTS ab, plus, none, huge

MCKinds == {1, 2}
MCTexts == {ab, plus}
MCTextLen == ab :> 2 @@ plus :> 1
MCStaticText == 1 :> none @@ 2 :> plus

\* A smaller alphabet for runs with several threads: one kind, one text.
OneKind == {1}
OneText == {ab}
OneTextLen == ab :> 2
OneStaticText == 1 :> none

\* A text exactly as long as TextSize is wide (4 GiB when LenBits = 32).
HugeTexts == {ab, plus, huge}
HugeTextLen == MCTextLen @@ huge :> LenMod

=============================================================================
