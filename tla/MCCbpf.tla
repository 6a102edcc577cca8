------------------------------- MODULE MCCbpf -------------------------------
(* Instances of Cbpf for TLC: words of four bits made of bytes of one.     *)
EXTENDS Cbpf, Bitwise

MCBitOp(op, u, v) ==
  CASE op = AND -> u & v
    [] op = OR  -> u | v
    [] op = XOR -> u ^^ v
    [] op = LSH -> (u * 2^v) % WordSize
    [] op = RSH -> u \div 2^v

Stmt(code, k)         == [code |-> code, jt |-> 0, jf |-> 0, k |-> k]
Jump(code, k, jt, jf) == [code |-> code, jt |-> jt, jf |-> jf, k |-> k]
RetA                  == Stmt(RET + A, 0)

MCPackets == {<<>>, <<1>>, <<1, 0, 1, 1, 0>>}

\* Every code of eight bits and every one with a ninth, alone before a return.
AllCodes == {<<Stmt(c, k), RetA>> : c \in 0 .. 511, k \in 0 .. 3}

\* All short programs of a few instructions: jumps forward, to themselves and
\* back, loads and stores at and past the limits, division by a register.
Some ==
  {Stmt(JMP + JA, k) : k \in {0, 1, 14, 15}}
  \cup {Jump(JMP + JEQ + X, 0, jt, jf) : jt \in 0 .. 1, jf \in 0 .. 1}
  \cup {Stmt(LD + B + IND, 1), Stmt(LDX + IMM, 15), Stmt(ST + MEM, 1),
        Stmt(ALU + DIV + X, 0), Stmt(RET + K, 1), RetA}

\* Programs as long as a word can count, and one longer.
Long(n, k) == [j \in 1 .. n |-> IF j = 1 THEN Stmt(JMP + JA, k) ELSE RetA]

ShortPrograms ==
  UNION {[1 .. n -> Some] : n \in 0 .. 3}
  \cup {Long(n, k) : n \in 14 .. 16, k \in 12 .. 15}

AllPrograms == AllCodes \cup ShortPrograms
============================================================================
