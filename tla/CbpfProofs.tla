----------------------------- MODULE CbpfProofs -----------------------------
(***************************************************************************)
(* A validated program keeps the interpreter within its bounds, whatever   *)
(* the program, the packet and the sizes of bytes and words.               *)
(***************************************************************************)
EXTENDS Cbpf, TLAPS

\* The instructions the validator has been through.
Passed == \A n \in 0 .. i - 1 : Check(n) = "Ok"

\* What it takes to become a BpfProgram.
Accepted ==
  phase \in {"valid", "filter"} =>
    i = Len(insns) /\ Len(insns) <= WordSize - 1 /\ EndsInReturn

Refused ==
  verdict = "InvalidInstruction" =>
    phase = "invalid" /\ i < Len(insns) /\ Check(i) = "InvalidInstruction"

CbpfInv == CbpfTypeOK /\ Passed /\ Accepted /\ Refused /\ FetchInBounds

----------------------------------------------------------------------------
(* Codes. *)

\* The codes of everything but returns.
OtherCodes == PacketCodes \cup LenCodes \cup MshCodes \cup ImmCodes \cup LdMemCodes \cup StCodes
              \cup JaCodes \cup JmpCodes \cup DivCodes \cup AluCodes \cup MiscCodes

\* A code of eight bits is the sum of its fields, in each way of taking it
\* apart.
LEMMA Fields ==
  ASSUME NEW c \in Nat, c < 256
  PROVE  /\ c = code_class(c) + code_size(c) + code_mode(c)
         /\ c = code_class(c) + code_op(c) + code_src(c)
         /\ c = code_class(c) + code_miscop(c)
         /\ code_size(c) \in {0, 8, 16, 24}
         /\ code_src(c) \in {0, 8}
         /\ (c \div 32) % 8 = 0 => code_mode(c) = 0
  BY DEF code_class, code_size, code_mode, code_src, code_op, code_miscop

\* ... and a sum of fields has them.
LEMMA Classes ==
  /\ \A c \in RetCodes : code_class(c) = RET
  /\ \A c \in OtherCodes : code_class(c) # RET
  /\ \A c \in LdMemCodes : code_class(c) \in {LD, LDX} /\ code_mode(c) = MEM
  /\ \A c \in StCodes : code_class(c) \in {ST, STX}
  /\ \A c \in JaCodes : code_class(c) = JMP /\ code_op(c) = JA
  /\ \A c \in JmpCodes : code_class(c) = JMP /\ code_op(c) # JA
<1> USE DEF code_class, code_op, code_mode, LD, LDX, ST, STX, ALU, JMP, RET, MISC, W, H, B,
      IMM, ABS, IND, MEM, LEN, MSH, K, X, A, TAX, TXA
<1>1. /\ \A c \in RetCodes : code_class(c) = RET
      /\ \A c \in LdMemCodes : code_class(c) \in {LD, LDX} /\ code_mode(c) = MEM
      /\ \A c \in StCodes : code_class(c) \in {ST, STX}
      /\ \A c \in JaCodes : code_class(c) = JMP /\ code_op(c) = JA
  BY DEF RetCodes, LdMemCodes, StCodes, JaCodes, JA
<1>2. \A c \in JmpCodes : code_class(c) = JMP /\ code_op(c) # JA
  BY DEF JmpCodes, JA, JEQ, JGT, JGE, JSET
<1>3. \A c \in PacketCodes : code_class(c) # RET
  BY DEF PacketCodes
<1>4. \A c \in LenCodes \cup MshCodes \cup ImmCodes \cup MiscCodes : code_class(c) # RET
  BY DEF LenCodes, MshCodes, ImmCodes, MiscCodes
<1>5. \A c \in DivCodes : code_class(c) # RET
  BY DEF DivCodes, DIV, MOD
<1>6. \A c \in AluCodes : code_class(c) # RET
  BY DEF AluCodes, ADD, SUB, MUL, AND, OR, XOR, LSH, RSH, NEG
<1> QED
  BY <1>1, <1>2, <1>3, <1>4, <1>5, <1>6 DEF OtherCodes

\* The validator takes exactly the codes that have an arm.
LEMMA ValidCodes ==
  ASSUME NEW c \in 0 .. U16Max
  PROVE  ValidCode(c) <=> c \in Codes
<1> USE DEF LD, LDX, ST, STX, ALU, JMP, RET, MISC, W, H, B,
      IMM, ABS, IND, MEM, LEN, MSH, K, X, A, TAX, TXA,
      ADD, SUB, MUL, DIV, OR, AND, LSH, RSH, NEG, MOD, XOR, JA, JEQ, JGT, JGE, JSET
<1>1. ASSUME ValidCode(c) PROVE c \in Codes
  <2> DEFINE class == code_class(c)
             size  == code_size(c)
             mode  == code_mode(c)
             op    == code_op(c)
             src   == code_src(c)
  <2>1. c \in Nat /\ c < 256
    BY <1>1 DEF ValidCode
  <2>2. /\ c = class + size + mode
        /\ c = class + op + src
        /\ c = class + code_miscop(c)
        /\ size \in {0, 8, 16, 24}
        /\ src \in {0, 8}
        /\ (c \div 32) % 8 = 0 => mode = 0
    <3> HIDE DEF LD, LDX, ST, STX, ALU, JMP, RET, MISC, W, H, B,
          IMM, ABS, IND, MEM, LEN, MSH, K, X, A, TAX, TXA,
          ADD, SUB, MUL, DIV, OR, AND, LSH, RSH, NEG, MOD, XOR, JA, JEQ, JGT, JGE, JSET
    <3> QED
      BY <2>1, Fields
  <2>3. CASE class \in {LD, LDX} /\ mode \in {IMM, LEN, MEM} /\ size = W
    <3>1. c \in LenCodes \cup ImmCodes \cup LdMemCodes
      BY <2>2, <2>3 DEF LenCodes, ImmCodes, LdMemCodes
    <3> QED
      BY <3>1 DEF Codes
  <2>4. CASE class = LD /\ mode \in {ABS, IND} /\ valid_code_size(size)
    <3>1. size \in {W, H, B}
      BY <2>2, <2>4 DEF valid_code_size
    <3>2. c \in PacketCodes
      BY <2>2, <2>4, <3>1 DEF PacketCodes
    <3> QED
      BY <3>2 DEF Codes
  <2>5. CASE \/ class = LDX /\ mode = MSH /\ size = B
             \/ class \in {ST, STX} /\ mode = MEM /\ size = W
    <3>1. c \in MshCodes \cup StCodes
      BY <2>2, <2>5 DEF MshCodes, StCodes
    <3> QED
      BY <3>1 DEF Codes
  <2>6. CASE class = ALU /\ op \in {ADD, SUB, MUL, OR, AND, XOR, LSH, RSH, DIV, MOD}
    <3>1. src \in {K, X}
      BY <2>2
    <3>2. CASE op \in {DIV, MOD}
      <4>1. c \in DivCodes
        BY <2>2, <2>6, <3>1, <3>2 DEF DivCodes
      <4> QED
        BY <4>1 DEF Codes
    <3>3. CASE op \in {ADD, SUB, MUL, OR, AND, XOR, LSH, RSH}
      <4>1. c \in AluCodes
        BY <2>2, <2>6, <3>1, <3>3 DEF AluCodes
      <4> QED
        BY <4>1 DEF Codes
    <3> QED
      BY <2>6, <3>2, <3>3
  <2>7. CASE class = ALU /\ op = NEG /\ src = 0
    <3>1. c \in AluCodes
      BY <2>2, <2>7 DEF AluCodes
    <3> QED
      BY <3>1 DEF Codes
  <2>8. CASE class = JMP /\ op = JA /\ src = 0
    <3>1. c \in JaCodes
      BY <2>2, <2>8 DEF JaCodes
    <3> QED
      BY <3>1 DEF Codes
  <2>9. CASE class = JMP /\ op \in {JEQ, JGT, JGE, JSET}
    <3>1. src \in {K, X}
      BY <2>2
    <3>2. c \in JmpCodes
      BY <2>2, <2>9, <3>1 DEF JmpCodes
    <3> QED
      BY <3>2 DEF Codes
  <2>10. CASE class = RET /\ RetShaped(c)
    <3>1. c \in RetCodes
      BY <2>2, <2>10 DEF RetShaped, code_rval, RetCodes
    <3> QED
      BY <3>1 DEF Codes
  <2>11. CASE class = MISC /\ code_miscop(c) \in {TAX, TXA}
    <3>1. c \in MiscCodes
      BY <2>2, <2>11 DEF MiscCodes
    <3> QED
      BY <3>1 DEF Codes
  <2> HIDE DEF class, size, mode, op, src
  <2> QED
    BY <1>1, <2>3, <2>4, <2>5, <2>6, <2>7, <2>8, <2>9, <2>10, <2>11
    DEF ValidCode, class, size, mode, op, src
<1>2. ASSUME c \in Codes PROVE ValidCode(c)
  <2> USE DEF ValidCode, RetShaped, valid_code_size, code_class, code_size, code_mode, code_op,
        code_src, code_rval, code_miscop
  <2>1. CASE c \in RetCodes \cup MiscCodes
    BY <2>1 DEF RetCodes, MiscCodes
  <2>2. CASE c \in PacketCodes
    BY <2>2 DEF PacketCodes
  <2>3. CASE c \in LenCodes \cup MshCodes \cup ImmCodes
    BY <2>3 DEF LenCodes, MshCodes, ImmCodes
  <2>4. CASE c \in LdMemCodes \cup StCodes \cup JaCodes
    BY <2>4 DEF LdMemCodes, StCodes, JaCodes
  <2>5. CASE c \in JmpCodes
    BY <2>5 DEF JmpCodes
  <2>6. CASE c \in DivCodes
    BY <2>6 DEF DivCodes
  <2>7. CASE c \in AluCodes
    BY <2>7 DEF AluCodes
  <2> QED
    BY <1>2, <2>1, <2>2, <2>3, <2>4, <2>5, <2>6, <2>7 DEF Codes
<1> QED
  BY <1>1, <1>2

----------------------------------------------------------------------------
(* Words. *)

LEMMA WordSizeNat == WordSize \in Nat \ {0} /\ 0 \in Words
<1>1. WordSize \in Nat \ {0}
  BY CbpfAssumption DEF WordSize
<1> QED
  BY <1>1 DEF Words

\* Wrapping arithmetic gives a word.
LEMMA Wrapped ==
  ASSUME NEW n \in Int
  PROVE  n % WordSize \in Words
<1>1. ASSUME NEW m \in Nat \ {0} PROVE n % m \in 0 .. m - 1
  OBVIOUS
<1> QED
  BY <1>1, WordSizeNat DEF Words

\* Putting a low part behind a high one.
LEMMA Joined ==
  ASSUME NEW m \in Nat \ {0}, NEW n \in Nat \ {0}, NEW u \in 0 .. m - 1, NEW v \in 0 .. n - 1
  PROVE  u * n + v \in 0 .. m * n - 1
<1>1. (m - 1 - u) * n >= 0
  OBVIOUS
<1>2. (m - 1 - u) * n = m * n - n - u * n
  OBVIOUS
<1>3. u * n \in Nat /\ m * n \in Nat
  OBVIOUS
<1> QED
  BY <1>1, <1>2, <1>3

\* What the three loads return.
LEMMA Loads ==
  ASSUME packet \in Seq(Byte), NEW k \in Nat
  PROVE  /\ k + 1 <= Len(packet) => load_byte(k) \in Byte /\ load_byte(k) \in Words
         /\ k + 2 <= Len(packet) => load_halfword(k) \in Words
         /\ k + 4 <= Len(packet) => load_word(k) \in Words
<1> DEFINE Half == 0 .. ByteSize * ByteSize - 1
<1>1. ByteSize \in Nat \ {0}
  BY CbpfAssumption
<1>2. /\ ByteSize * ByteSize \in Nat \ {0} /\ ByteSize <= ByteSize * ByteSize
      /\ WordSize = (ByteSize * ByteSize) * (ByteSize * ByteSize)
      /\ ByteSize * ByteSize <= WordSize
  <2>1. \A m \in Nat \ {0} : m * m \in Nat \ {0} /\ m <= m * m
    OBVIOUS
  <2>2. WordSize = (ByteSize * ByteSize) * (ByteSize * ByteSize)
    BY <1>1 DEF WordSize
  <2> QED
    BY <1>1, <2>1, <2>2
<1>3. \A n \in Nat : n + 1 <= Len(packet) => load_byte(n) \in Byte
  BY DEF load_byte
<1>4. \A n \in Nat : n + 2 <= Len(packet) => load_halfword(n) \in Half
  <2> SUFFICES ASSUME NEW n \in Nat, n + 2 <= Len(packet) PROVE load_halfword(n) \in Half
    OBVIOUS
  <2>1. load_byte(n) \in Byte /\ load_byte(n + 1) \in Byte
    BY <1>3
  <2> QED
    BY <1>1, <2>1, Joined DEF Byte, load_halfword
<1>5. k + 4 <= Len(packet) => load_word(k) \in Words
  <2> SUFFICES ASSUME k + 4 <= Len(packet) PROVE load_word(k) \in Words
    OBVIOUS
  <2>1. load_halfword(k) \in Half /\ load_halfword(k + 2) \in Half
    BY <1>4
  <2> QED
    BY <1>2, <2>1, Joined DEF Words, load_word
<1>6. Byte \subseteq Words /\ Half \subseteq Words
  BY <1>1, <1>2 DEF Byte, Words
<1> QED
  BY <1>3, <1>4, <1>5, <1>6

LEMMA QuotientInWords ==
  ASSUME NEW u \in Words, NEW v \in Words, v # 0
  PROVE  u \div v \in Words /\ u % v \in Words
<1>1. ASSUME NEW m \in Nat, NEW n \in Nat \ {0} PROVE m \div n \in 0 .. m /\ m % n \in 0 .. m
  OBVIOUS
<1>2. u \in Nat /\ v \in Nat \ {0}
  BY DEF Words
<1>3. u \div v \in 0 .. u /\ u % v \in 0 .. u
  BY <1>1, <1>2
<1>4. \A w \in 0 .. u : w \in Words
  <2>1. WordSize \in Int
    BY WordSizeNat
  <2> QED
    BY <2>1 DEF Words
<1> QED
  BY <1>3, <1>4

LEMMA AluInWords ==
  ASSUME NEW u \in Words, NEW v \in Words, NEW c \in AluCodes
  PROVE  Alu(code_op(c), u, v) \in Words
<1> USE DEF ALU, ADD, SUB, MUL, OR, AND, LSH, RSH, NEG, XOR, K, X
<1>1. code_op(c) \in {ADD, SUB, MUL, AND, OR, XOR, LSH, RSH, NEG}
  BY DEF AluCodes, code_op
<1>2. /\ (u + v) % WordSize \in Words
      /\ (u - v) % WordSize \in Words
      /\ (0 - u) % WordSize \in Words
      /\ (u * v) % WordSize \in Words
  <2>1. u + v \in Int /\ u - v \in Int /\ 0 - u \in Int /\ u * v \in Int
    BY DEF Words
  <2> QED
    BY <2>1, Wrapped
<1>3. \A op \in {AND, OR, XOR, LSH, RSH} : BitOp(op, u, v) \in Words
  BY CbpfAssumption
<1> QED
  BY <1>1, <1>2, <1>3, WordSizeNat DEF Alu

----------------------------------------------------------------------------
(* The invariant. *)

\* Neither the program nor the flag changes, so neither do the findings.
LEMMA CheckStable ==
  ASSUME UNCHANGED <<insns, backward>>
  PROVE  /\ \A n \in Nat : Check(n)' = Check(n)
         /\ EndsInReturn' = EndsInReturn
  BY DEF Check, BadJump, BadJa, Room, EndsInReturn

\* What is known of the instruction at the pc.
LEMMA AtInsn ==
  ASSUME CbpfInv, phase = "filter"
  PROVE  /\ pc \in 0 .. Len(insns) - 1 /\ Len(insns) <= WordSize - 1 /\ Len(insns) \in Nat
         /\ Insn \in BpfInsn
         /\ Insn.code \in Codes
         /\ ~BadMemory(Insn) /\ ~BadJump(pc, Insn)
         /\ Insn.code \notin RetCodes => pc + 1 < Len(insns)
<1>1. pc \in 0 .. Len(insns) - 1 /\ Len(insns) <= WordSize - 1 /\ Len(insns) \in Nat
  BY DEF CbpfInv, CbpfTypeOK, FetchInBounds, Accepted
<1>2. Insn \in BpfInsn
  BY <1>1 DEF CbpfInv, CbpfTypeOK, Insn
<1>3. Check(pc) = "Ok"
  BY <1>1 DEF CbpfInv, Passed, Accepted
<1>4. ValidCode(Insn.code) /\ ~BadMemory(Insn) /\ ~BadJump(pc, Insn)
  BY <1>3 DEF Check, Insn
<1>5. Insn.code \in 0 .. U16Max
  BY <1>2 DEF BpfInsn
<1>6. Insn.code \in Codes
  BY <1>4, <1>5, ValidCodes
<1>7. ASSUME Insn.code \notin RetCodes PROVE pc + 1 < Len(insns)
  <2>1. code_class(Insn.code) # RET
    BY <1>6, <1>7, Classes DEF Codes, OtherCodes
  <2>2. pc + 1 # Len(insns)
    BY <2>1 DEF CbpfInv, Accepted, EndsInReturn, Insn
  <2> QED
    BY <1>1, <2>2
<1> QED
  BY <1>1, <1>2, <1>4, <1>6, <1>7

\* The next instruction exists.
LEMMA FetchStep ==
  ASSUME CbpfInv, Step
  PROVE  FetchInBounds'
<1>1. phase = "filter" /\ insns' = insns
  BY DEF Step, ret, ld_packet, ld_len, ldx_msh, ld_imm, ld_mem, st, ja, do_jmp, div, alu, tax_txa,
     Arm, Break, Load, GoOn, GoTo
<1> USE AtInsn, <1>1
<1>2. CASE phase' = "valid"
  BY <1>2 DEF FetchInBounds
<1>3. CASE GoOn /\ Insn.code \notin RetCodes
  BY <1>3 DEF GoOn, GoTo, FetchInBounds
<1>4. CASE ja
  <2>1. pc' = (pc + 1 + Insn.k) % WordSize
    BY <1>4 DEF ja, GoTo, JaTarget
  <2>2. ~BadJa(pc, Insn.k)
    BY <1>4, Classes DEF ja, Arm, BadJump
  <2>3. CASE backward
    BY <2>1, <2>2, <2>3 DEF BadJa, FetchInBounds
  <2>4. CASE ~backward
    <3>1. Insn.k \in Nat /\ Insn.k < Len(insns) - (pc + 1)
      BY <2>2, <2>4 DEF BadJa, Room, BpfInsn, Words
    <3>2. \A m \in Nat \ {0}, n \in Nat : n < m => n % m = n
      OBVIOUS
    <3>3. pc + 1 + Insn.k \in Nat /\ pc + 1 + Insn.k < WordSize
      BY <3>1, WordSizeNat
    <3>4. pc' = pc + 1 + Insn.k
      BY <2>1, <3>2, <3>3, WordSizeNat
    <3> QED
      BY <3>1, <3>4 DEF FetchInBounds
  <2> QED
    BY <2>3, <2>4
<1>5. CASE do_jmp
  <2>1. Insn.jt \in Nat /\ Insn.jf \in Nat /\ Insn.jt < Room(pc) /\ Insn.jf < Room(pc)
    BY <1>5, Classes DEF do_jmp, Arm, BadJump, BpfInsn, Words, Room
  <2>2. pc' = pc + 1 + Insn.jt \/ pc' = pc + 1 + Insn.jf
    BY <1>5 DEF do_jmp, GoTo
  <2> QED
    BY <2>1, <2>2 DEF Room, FetchInBounds
<1>6. phase' = "valid" \/ GoOn \/ ja \/ do_jmp
  BY DEF Step, ret, ld_packet, ld_len, ldx_msh, ld_imm, ld_mem, st, div, alu, tax_txa, Break, Load
<1>7. GoOn => phase' = "filter"
  BY DEF GoOn, GoTo
<1>8. Insn.code \in RetCodes => phase' = "valid"
  <2> SUFFICES ASSUME Insn.code \in RetCodes PROVE ret
    BY DEF ret, Break
  <2>1. Insn.code \notin OtherCodes
    BY Classes
  <2> QED
    BY <2>1 DEF OtherCodes, Step, ld_packet, ld_len, ldx_msh, ld_imm, ld_mem, st, ja, do_jmp, div, alu, tax_txa, Arm
<1> QED
  BY <1>2, <1>3, <1>4, <1>5, <1>6, <1>7, <1>8

LEMMA MemInRange ==
  ASSUME NEW insn, insn.k \in Words, ~BadMemory(insn), insn.code \in LdMemCodes \cup StCodes
  PROVE  insn.k \in MemIndex
<1>1. ~(insn.k >= MemWords)
  BY Classes DEF BadMemory
<1> QED
  BY <1>1, CbpfAssumption DEF MemIndex, Words

LEMMA TypeStep ==
  ASSUME CbpfInv, Next
  PROVE  CbpfTypeOK'
<1> USE DEF CbpfInv, CbpfTypeOK
<1>1. 0 \in Words
  BY WordSizeNat
<1>2. [w \in MemIndex |-> 0] \in [MemIndex -> Words]
  BY <1>1
<1>3. CASE check_size \/ check_insn \/ check_end
  BY <1>3 DEF check_size, check_insn, check_end, Reject, filterVars
<1>4. CASE \E p \in Packets : filter(p)
  BY <1>1, <1>2, <1>4, CbpfAssumption DEF filter
<1>5. CASE Step
  <2>1. phase = "filter"
    BY <1>5 DEF Step, ret, ld_packet, ld_len, ldx_msh, ld_imm, ld_mem, st, ja, do_jmp, div, alu, tax_txa, Arm
  <2>2. Insn.k \in Words /\ Insn.jt \in Nat /\ Insn.jf \in Nat /\ pc \in Nat
    <3>1. Insn \in BpfInsn
      BY <2>1, AtInsn
    <3> QED
      BY <3>1 DEF BpfInsn, Words
  <2>3. ASSUME NEW v \in Words, Break(v) PROVE CbpfTypeOK'
    BY <1>1, <1>2, <2>3 DEF Break
  <2>4. ASSUME NEW n \in Nat, GoTo(n), a' \in Words, x' \in Words, mem' \in [MemIndex -> Words]
        PROVE  CbpfTypeOK'
    BY <2>4 DEF GoTo
  <2>5. ASSUME NEW v \in Words, Load(v) PROVE CbpfTypeOK'
    BY <2>2, <2>4, <2>5 DEF Load, GoOn
  <2>6. Operand \in Words
    BY <2>2 DEF Operand
  <2>7. CASE ret
    BY <2>2, <2>3, <2>7 DEF ret
  <2>8. CASE ld_packet
    <3>1. Addr \in Nat
      <4>1. (x + Insn.k) % WordSize \in Words
        <5>1. x + Insn.k \in Int
          BY <2>2 DEF Words
        <5> QED
          BY <5>1, Wrapped
      <4> QED
        BY <2>2, <4>1 DEF Addr, Words
    <3>2. Width \in {1, 2, 4}
      BY DEF Width
    <3>3. CASE Break(0)
      BY <1>1, <2>3, <3>3
    <3>4. CASE ~Outside(Addr, Width)
      <4>1. Addr + Width <= Len(packet)
        BY <3>1, <3>2, <3>4 DEF Outside
      <4>2. (IF Width = 4 THEN load_word(Addr)
             ELSE IF Width = 2 THEN load_halfword(Addr) ELSE load_byte(Addr)) \in Words
        BY <3>1, <3>2, <4>1, Loads
      <4> QED
        BY <1>1, <2>3, <2>5, <2>8, <4>2 DEF ld_packet
    <3> QED
      BY <2>8, <3>3, <3>4 DEF ld_packet
  <2>9. CASE ld_len
    <3>1. Len(packet) % WordSize \in Words
      BY Wrapped
    <3> QED
      BY <2>5, <2>9, <3>1 DEF ld_len
  <2>10. CASE ldx_msh
    <3>1. CASE Break(0)
      BY <1>1, <2>3, <3>1
    <3>2. CASE ~Outside(Insn.k, 1)
      <4>1. Insn.k \in Nat /\ Insn.k + 1 <= Len(packet)
        BY <2>2, <3>2 DEF Outside, Words
      <4>2. load_byte(Insn.k) \in Int
        BY <4>1, Loads DEF Byte
      <4>3. ((load_byte(Insn.k) % 16) * 4) % WordSize \in Words
        BY <4>2, Wrapped
      <4> QED
        BY <1>1, <2>3, <2>5, <2>10, <4>3 DEF ldx_msh
    <3> QED
      BY <2>10, <3>1, <3>2 DEF ldx_msh
  <2>11. CASE ld_imm
    BY <2>2, <2>5, <2>11 DEF ld_imm
  <2>12. CASE ld_mem
    <3>1. ~BadMemory(Insn) /\ Insn.code \in LdMemCodes
      BY <2>1, <2>12, AtInsn DEF ld_mem, Arm
    <3>2. Insn.k \in MemIndex
      BY <2>2, <3>1, MemInRange
    <3>3. mem[Insn.k] \in Words
      BY <3>2
    <3> QED
      BY <2>5, <2>12, <3>3 DEF ld_mem
  <2>13. CASE st
    <3>1. mem' \in [MemIndex -> Words]
      BY <2>13 DEF st
    <3> QED
      BY <2>2, <2>4, <2>13, <3>1 DEF st, GoOn
  <2>14. CASE ja
    <3>1. JaTarget(Insn.k) \in Nat
      <4>1. pc + 1 + Insn.k \in Int
        BY <2>2 DEF Words
      <4> QED
        BY <4>1, Wrapped DEF JaTarget, Words
    <3> QED
      BY <2>4, <2>14, <3>1 DEF ja
  <2>15. CASE do_jmp
    BY <2>2, <2>4, <2>15 DEF do_jmp
  <2>16. CASE div
    <3>1. CASE Break(0)
      BY <1>1, <2>3, <3>1
    <3>2. CASE Operand # 0 /\ GoOn
      <4>1. a \div Operand \in Words /\ a % Operand \in Words
        BY <2>6, <3>2, QuotientInWords
      <4>2. a' \in {a \div Operand, a % Operand}
        BY <2>16, <3>2 DEF div
      <4>3. a' \in Words
        BY <4>1, <4>2
      <4>4. x' \in Words /\ mem' \in [MemIndex -> Words]
        BY <2>16, <3>2 DEF div
      <4>5. pc + 1 \in Nat /\ GoTo(pc + 1)
        BY <2>2, <3>2 DEF GoOn
      <4> QED
        BY <2>4, <4>3, <4>4, <4>5
    <3> QED
      BY <2>16, <3>1, <3>2 DEF div
  <2>17. CASE alu
    <3>1. Alu(code_op(Insn.code), a, Operand) \in Words
      BY <2>6, <2>17, AluInWords DEF alu, Arm
    <3> QED
      BY <2>2, <2>4, <2>17, <3>1 DEF alu, GoOn
  <2>18. CASE tax_txa
    BY <2>2, <2>4, <2>18 DEF tax_txa, GoOn
  <2> QED
    BY <1>5, <2>7, <2>8, <2>9, <2>10, <2>11, <2>12, <2>13, <2>14, <2>15, <2>16, <2>17, <2>18 DEF Step
<1> QED
  BY <1>3, <1>4, <1>5 DEF Next

LEMMA InvStep ==
  ASSUME CbpfInv, Next
  PROVE  CbpfInv'
<1>1. CbpfTypeOK'
  BY TypeStep
<1>2. insns' = insns /\ backward' = backward
  BY DEF Next, check_size, check_insn, check_end, Reject, filter, Step, ret, ld_packet, ld_len, ldx_msh,
     ld_imm, ld_mem, st, ja, do_jmp, div, alu, tax_txa, Break, Load, GoOn, GoTo
<1>3. i \in Nat /\ Len(insns) \in Nat /\ i <= Len(insns)
  BY DEF CbpfInv, CbpfTypeOK
<1>4. \A n \in Nat : Check(n)' = Check(n)
  BY <1>2, CheckStable
<1>5. EndsInReturn' = EndsInReturn
  BY <1>2, CheckStable
<1>6. CASE check_size
  <2>1. Passed'
    BY <1>3, <1>4, <1>6 DEF check_size, Reject, CbpfInv, Passed
  <2> QED
    BY <1>1, <1>6, <2>1 DEF check_size, Reject, CbpfInv, Accepted, Refused, FetchInBounds
<1>7. CASE check_insn
  <2>1. CASE Check(i) # "Ok" /\ Reject(Check(i))
    <3>1. Passed'
      BY <1>3, <1>4, <2>1 DEF Reject, CbpfInv, Passed
    <3>2. Refused'
      <4>1. i' = i /\ phase' = "invalid" /\ verdict' = Check(i) /\ i < Len(insns)
        BY <1>7, <2>1 DEF check_insn, Reject
      <4>2. Check(i)' = Check(i)
        BY <1>2, <4>1 DEF Check, BadJump, BadJa, Room
      <4> QED
        BY <1>2, <4>1, <4>2 DEF Refused
    <3> QED
      BY <1>1, <2>1, <3>1, <3>2 DEF Reject, CbpfInv, Accepted, FetchInBounds
  <2>2. CASE Check(i) = "Ok" /\ i' = i + 1 /\ phase' = phase /\ verdict' = verdict
    <3>1. Passed'
      BY <1>3, <1>4, <2>2 DEF CbpfInv, Passed
    <3>2. phase = "validate"
      BY <1>7 DEF check_insn
    <3> QED
      BY <1>1, <2>2, <3>1, <3>2 DEF CbpfInv, Accepted, Refused, FetchInBounds
  <2> QED
    BY <1>7, <2>1, <2>2 DEF check_insn
<1>8. CASE check_end
  <2>1. Passed'
    BY <1>3, <1>4, <1>8 DEF check_end, Reject, CbpfInv, Passed
  <2>2. Accepted'
    BY <1>2, <1>5, <1>8 DEF check_end, Reject, Accepted
  <2> QED
    BY <1>1, <1>8, <2>1, <2>2 DEF check_end, Reject, CbpfInv, Refused, FetchInBounds
<1>9. ASSUME phase \in {"valid", "filter"}, phase' \in {"valid", "filter"}, i' = i, verdict' = verdict
      PROVE  Passed' /\ Accepted' /\ Refused'
  <2>1. Passed'
    BY <1>3, <1>4, <1>9 DEF CbpfInv, Passed
  <2>2. Accepted'
    BY <1>2, <1>5, <1>9 DEF CbpfInv, Accepted
  <2> QED
    BY <1>9, <2>1, <2>2 DEF CbpfInv, Refused
<1>10. CASE \E p \in Packets : filter(p)
  <2>1. phase = "valid" /\ phase' = "filter" /\ i' = i /\ verdict' = verdict /\ pc' = 0
    BY <1>10 DEF filter
  <2>2. Passed' /\ Accepted' /\ Refused'
    BY <1>9, <2>1
  <2>3. FetchInBounds'
    BY <1>2, <1>3, <2>1 DEF CbpfInv, Accepted, EndsInReturn, FetchInBounds
  <2> QED
    BY <1>1, <2>2, <2>3 DEF CbpfInv
<1>11. CASE Step
  <2>1. phase = "filter" /\ phase' \in {"valid", "filter"} /\ i' = i /\ verdict' = verdict
    BY <1>11 DEF Step, ret, ld_packet, ld_len, ldx_msh, ld_imm, ld_mem, st, ja, do_jmp, div, alu, tax_txa,
       Arm, Break, Load, GoOn, GoTo
  <2>2. Passed' /\ Accepted' /\ Refused'
    BY <1>9, <2>1
  <2> QED
    BY <1>1, <1>11, <2>2, FetchStep DEF CbpfInv
<1> QED
  BY <1>6, <1>7, <1>8, <1>10, <1>11 DEF Next

LEMMA CbpfInductive == CbpfSpec => []CbpfInv
<1>1. Init => CbpfInv
  <2> SUFFICES ASSUME Init PROVE CbpfInv
    OBVIOUS
  <2>1. 0 \in Words
    BY WordSizeNat
  <2>2. CbpfTypeOK
    BY <2>1, CbpfAssumption DEF Init, CbpfTypeOK
  <2> QED
    BY <2>2 DEF Init, CbpfInv, Passed, Accepted, Refused, FetchInBounds
<1>2. CbpfInv /\ [Next]_cbpfVars => CbpfInv'
  <2>1. CASE Next
    BY <2>1, InvStep
  <2>2. CASE UNCHANGED cbpfVars
    BY <2>2 DEF cbpfVars, filterVars, CbpfInv, CbpfTypeOK, Passed, Accepted, Refused, FetchInBounds,
       EndsInReturn, Check, BadJump, BadJa, Room
  <2> QED
    BY <2>1, <2>2
<1> QED
  BY <1>1, <1>2, PTL DEF CbpfSpec

----------------------------------------------------------------------------
\* filter_slice() fetches every instruction of a validated program from inside
\* the program, after any sequence of jumps: its get_unchecked() needs no check.
THEOREM FetchesInside == CbpfSpec => []FetchInBounds
<1>1. CbpfInv => FetchInBounds
  BY DEF CbpfInv
<1> QED
  BY <1>1, CbpfInductive, PTL

\* A validated program never makes filter_slice() index outside its scratch
\* memory or the packet, nor overflow the pc: what its unsafe blocks assume.
THEOREM ProgramsSafe == CbpfSpec => []OperandsInBounds
<1>1. CbpfInv => OperandsInBounds
  <2> SUFFICES ASSUME CbpfInv, phase = "filter" PROVE OperandsInBounds
    BY DEF OperandsInBounds
  <2>1. Insn.k \in Words /\ Insn.jt \in Nat /\ Insn.jf \in Nat
    <3>1. Insn \in BpfInsn
      BY AtInsn
    <3> QED
      BY <3>1 DEF BpfInsn, Words
  <2>2. Len(packet) \in Nat /\ x \in Words
    BY DEF CbpfInv, CbpfTypeOK
  <2>3. Insn.code \in LdMemCodes \cup StCodes => Insn.k \in MemIndex
    BY <2>1, AtInsn, MemInRange
  <2>4. ~Outside(Addr, Width) => Addr + Width <= Len(packet)
    <3>1. x + Insn.k \in Int
      BY <2>1, <2>2 DEF Words
    <3>2. Addr \in Int /\ Width \in Int
      BY <2>1, <3>1, Wrapped DEF Addr, Width, Words
    <3> QED
      BY <2>2, <3>2 DEF Outside
  <2>5. ~Outside(Insn.k, 1) => Insn.k < Len(packet)
    BY <2>1, <2>2 DEF Outside, Words
  <2>6. Insn.code \in JmpCodes => pc + 1 + Insn.jt < WordSize /\ pc + 1 + Insn.jf < WordSize
    <3> SUFFICES ASSUME Insn.code \in JmpCodes
                 PROVE  pc + 1 + Insn.jt < WordSize /\ pc + 1 + Insn.jf < WordSize
      OBVIOUS
    <3>1. ~(Insn.jt >= Room(pc)) /\ ~(Insn.jf >= Room(pc))
      BY AtInsn, Classes DEF BadJump
    <3>2. pc \in Nat /\ Len(insns) \in Nat /\ Len(insns) <= WordSize - 1
      BY AtInsn
    <3> QED
      BY <2>1, <3>1, <3>2, WordSizeNat DEF Room
  <2> QED
    BY <2>3, <2>4, <2>5, <2>6 DEF OperandsInBounds
<1> QED
  BY <1>1, CbpfInductive, PTL

\* The validator and the interpreter have the same codes: the last arm of
\* filter_slice(), unreachable_unchecked(), is unreachable, and only codes
\* without an arm are refused.
THEOREM CodesMatch == CbpfSpec => []CodesAgree
<1>1. CbpfInv => CodesAgree
  <2> SUFFICES ASSUME CbpfInv PROVE CodesAgree
    OBVIOUS
  <2>1. phase = "filter" => Insn.code \in Codes
    BY AtInsn
  <2>2. verdict = "InvalidInstruction" => insns[i + 1].code \notin Codes
    <3> SUFFICES ASSUME verdict = "InvalidInstruction" PROVE insns[i + 1].code \notin Codes
      OBVIOUS
    <3>1. i < Len(insns) /\ Check(i) = "InvalidInstruction"
      BY DEF CbpfInv, Refused
    <3>2. insns[i + 1] \in BpfInsn
      BY <3>1 DEF CbpfInv, CbpfTypeOK
    <3>3. insns[i + 1].code \in 0 .. U16Max
      BY <3>2 DEF BpfInsn
    <3>4. ~ValidCode(insns[i + 1].code)
      BY <3>1 DEF Check
    <3> QED
      BY <3>3, <3>4, ValidCodes
  <2> QED
    BY <2>1, <2>2 DEF CodesAgree
<1> QED
  BY <1>1, CbpfInductive, PTL

\* Without VALIDATE_ALLOW_BACKWARD_JUMPS every step of the interpreter moves
\* the pc forward, which bounds the steps by the length of the program.
THEOREM JumpsForward == CbpfSpec => ForwardOnly
<1>1. CbpfInv /\ [Next]_cbpfVars =>
        [~backward /\ phase = "filter" /\ phase' = "filter" => pc' > pc]_cbpfVars
  <2> SUFFICES ASSUME CbpfInv, Next, ~backward, phase = "filter", phase' = "filter"
               PROVE  pc' > pc
    OBVIOUS
  <2>1. pc \in Nat /\ Len(insns) \in Nat /\ Len(insns) <= WordSize - 1
    BY AtInsn
  <2>2. Insn.k \in Nat /\ Insn.jt \in Nat /\ Insn.jf \in Nat
    <3>1. Insn \in BpfInsn
      BY AtInsn
    <3> QED
      BY <3>1 DEF BpfInsn, Words
  <2>3. GoOn \/ ja \/ do_jmp
    BY DEF Next, check_size, check_insn, check_end, filter, Step, ret, ld_packet, ld_len, ldx_msh, ld_imm,
       ld_mem, st, div, alu, tax_txa, Break, Load
  <2>4. CASE GoOn
    BY <2>1, <2>4 DEF GoOn, GoTo
  <2>5. CASE ja
    <3>1. ~(Insn.k >= Len(insns) - (pc + 1))
      BY <2>5, AtInsn, Classes DEF ja, Arm, BadJump, BadJa, Room
    <3>2. pc + 1 + Insn.k \in Nat /\ pc + 1 + Insn.k < WordSize
      BY <2>1, <2>2, <3>1, WordSizeNat
    <3>3. \A m \in Nat \ {0}, n \in Nat : n < m => n % m = n
      OBVIOUS
    <3>4. pc' = (pc + 1 + Insn.k) % WordSize
      BY <2>5 DEF ja, GoTo, JaTarget
    <3>5. pc' = pc + 1 + Insn.k
      BY <3>2, <3>3, <3>4, WordSizeNat
    <3> QED
      BY <2>1, <2>2, <3>5
  <2>6. CASE do_jmp
    <3>1. pc' = pc + 1 + Insn.jt \/ pc' = pc + 1 + Insn.jf
      BY <2>6 DEF do_jmp, GoTo
    <3> QED
      BY <2>1, <2>2, <3>1
  <2> QED
    BY <2>3, <2>4, <2>5, <2>6
<1> QED
  BY <1>1, CbpfInductive, PTL DEF CbpfSpec, ForwardOnly
============================================================================
