---------------------------- MODULE MCPlayground -----------------------------
(* Instances of Playground for TLC. *)
EXTENDS Playground

\* Chunks that cut a tag in two, close what was never opened, or leave a new
\* tag when the thought between its halves is taken out.
MCPieces == {<<Open[1]>> \o Open, Open \o <<Close[1]>>, Close \o <<Open[1]>>,
             Close \o <<Close[2]>>, <<Close[2]>>}

\* What is typed may hold a tag.
MCTyped == {<<Text>>, Open}
=============================================================================
