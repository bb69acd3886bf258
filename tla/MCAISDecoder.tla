---------------------------- MODULE MCAISDecoder ----------------------------
(***************************************************************************)
(* AISDecoder for TLC: payloads of a short and of a long type, with two    *)
(* check bits: the number of ones, modulo 4.                               *)
(***************************************************************************)
EXTENDS AISDecoder, TLC

MCFcs(p) ==
  LET ones == FoldLeft(LAMBDA n, b : n + b, 0, p)
  IN  <<(ones \div 2) % 2, ones % 2>>
MCMaxLength == [t \in {0} |-> 2]
MCPayloads == {<<0, 1>>, <<1, 1, 1>>, <<1, 1, 1, 1, 1, 1>>}
=============================================================================
