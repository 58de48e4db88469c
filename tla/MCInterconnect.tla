---------------------------- MODULE MCInterconnect ----------------------------
(***************************************************************************)
(* Three masters and two slaves: slave 0 has words 1 and 2, slave 1 has    *)
(* the lock word 3.  Only master 2 uses the test-and-set bank of the lic:  *)
(* two masters that read a free word of it in one cycle are both given the *)
(* lock (README, section 4).                                               *)
(***************************************************************************)
EXTENDS Interconnect, Sequences

Rd(a) == [addr |-> a, rw |-> FALSE, data |-> 1]
Wr(a, v) == [addr |-> a, rw |-> TRUE, data |-> v]

MCBankOf == [a \in 1 .. 3 |-> IF a = 3 THEN 1 ELSE 0]
\* By kind, the accesses of masters 0, 1 and 2.
MCOps ==
  LET lic == <<{Wr(1, 0)}, {Rd(1)}, {Rd(1), Rd(3), Wr(3, 0)}>>
      pic == <<{Rd(3), Wr(3, 0)}, {Rd(3), Wr(3, 0)}, {Rd(3), Wr(3, 0)}>>
      shi == <<{Rd(1), Rd(2)}, {Rd(1)}, {Rd(1), Rd(2)}>>
  IN [lic |-> [c \in 0 .. 2 |-> lic[c + 1]], pic |-> [c \in 0 .. 2 |-> pic[c + 1]],
      shi |-> [c \in 0 .. 2 |-> shi[c + 1]]]
MCLatency == [k \in {"lic", "pic", "shi"} |-> IF k = "shi" THEN {0, 2} ELSE {0}]
=============================================================================
