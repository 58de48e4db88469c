---------------------------- MODULE MCAccelerator ----------------------------
(***************************************************************************)
(* The accelerator of vsoc.x (push 1) and of vsoc2.x (push 4), one or two  *)
(* cores with their filters, another one that comes through acc_wait late, *)
(* and one that does not start the accelerator itself.                     *)
(***************************************************************************)
EXTENDS Accelerator

Setup(taps, push, users, starters, words, junk) ==
  [taps |-> taps, push |-> push, users |-> users, starters |-> starters, words |-> words,
   values |-> <<1, 3, 9, 27, 81>>, junk |-> junk, raw |-> FALSE]

Bits == {<<0>>, <<1>>}
Trits == Bits \union {<<2>>}
Fours == {<<0, 1, 2, 1>>, <<1, 0, 0, 2>>, <<1, 2, 0, 1>>}

AllSetups ==
  { Setup(2, 1, <<{1}, {2}>>, {1, 2}, Bits, {<<0, 0>>}),
    Setup(2, 1, <<{1}, {}>>, {1, 2}, Trits, {<<0, 0>>}),
    Setup(2, 1, <<{1}, {2}, {}>>, {1, 2, 3}, {<<1>>}, {<<0, 0>>}),
    Setup(3, 1, <<{1, 2}, {2}>>, {1}, Bits, {<<0, 0, 9>>}),
    Setup(5, 1, <<{1}>>, {1}, Trits, {<<0, 0, 9, 27, 5>>}),
    Setup(2, 4, <<{1}, {2}>>, {1, 2}, {<<0, 1, 0, 1>>, <<1, 1, 0, 0>>}, {<<0, 0>>}),
    Setup(5, 4, <<{1}>>, {1}, Fours, {<<0, 0, 9, 27, 5>>, <<0, 0, 0, 0, 0>>}),
    Setup(17, 1, <<{1}>>, {1}, Bits, {[i \in 1 .. 17 |-> i]}) }
RepeatSetups == {[Setup(2, 1, <<{1}>>, {1}, Bits, {<<0, 0>>}) EXCEPT !.raw = TRUE]}
=============================================================================
