-------------------------------- MODULE Cbpf --------------------------------
(***************************************************************************)
(* `BpfProgram` (cbpf-rs/src/lib.rs): the validator and the interpreter of *)
(* classic BPF programs.  The interpreter indexes the program, its scratch *)
(* memory and the packet without bounds checks, adds to the pc without     *)
(* overflow checks, and tells the compiler that no code can occur but      *)
(* those it matches; all of this rests on the validator.                   *)
(***************************************************************************)
EXTENDS Integers, Sequences

CONSTANTS
  Programs,          \* the instruction streams given to the validator
  Packets,           \* the packets given to the filter
  ByteSize,          \* number of values of a byte
  WordBits,          \* u32::BITS
  MemWords,          \* words of scratch memory
  BitOp(_, _, _)     \* &, |, ^, << and >> on words

WordSize == ByteSize * ByteSize * ByteSize * ByteSize
Byte     == 0 .. ByteSize - 1
Words    == 0 .. WordSize - 1
MemIndex == 0 .. MemWords - 1
U16Max   == 65535

\* jt and jf are bytes in the code; nothing here depends on it.
BpfInsn == [code : 0 .. U16Max, jt : Words, jf : Words, k : Words]

----------------------------------------------------------------------------
(* The fields of a code.  Codes are put together with |, here +, from      *)
(* fields that have no bit in common.                                      *)

code_class(code)  == code % 8
code_size(code)   == ((code \div 8) % 4) * 8
code_mode(code)   == ((code \div 32) % 8) * 32
code_op(code)     == ((code \div 16) % 16) * 16
code_src(code)    == ((code \div 8) % 2) * 8
code_rval(code)   == code_size(code)
code_miscop(code) == ((code \div 8) % 32) * 8

LD   == 0
LDX  == 1
ST   == 2
STX  == 3
ALU  == 4
JMP  == 5
RET  == 6
MISC == 7

W == 0
H == 8
B == 16
valid_code_size(size) == size # 24

IMM == 0
ABS == 32
IND == 64
MEM == 96
LEN == 128
MSH == 160

ADD == 0
SUB == 16
MUL == 32
DIV == 48
OR  == 64
AND == 80
LSH == 96
RSH == 112
NEG == 128
MOD == 144
XOR == 160

JA   == 0
JEQ  == 16
JGT  == 32
JGE  == 48
JSET == 64

K == 0
X == 8
A == 16

TAX == 0
TXA == 128

ASSUME CbpfAssumption ==
  /\ ByteSize \in Nat \ {0}
  /\ WordBits \in Nat
  /\ MemWords \in Nat
  /\ Programs \subseteq Seq(BpfInsn)
  /\ Packets \subseteq Seq(Byte)
  /\ \A op \in {AND, OR, XOR, LSH, RSH}, u, v \in Words : BitOp(op, u, v) \in Words

----------------------------------------------------------------------------
(* The codes the interpreter matches, by what their arms have in common.   *)

RetCodes    == {RET + K, RET + A}
PacketCodes == {LD + s + m : s \in {W, H, B}, m \in {ABS, IND}}
LenCodes    == {LD + W + LEN, LDX + W + LEN}
MshCodes    == {LDX + B + MSH}
ImmCodes    == {LD + IMM, LDX + IMM}
LdMemCodes  == {LD + MEM, LDX + MEM}
StCodes     == {ST + MEM, STX + MEM}
JaCodes     == {JMP + JA}
JmpCodes    == {JMP + j + s : j \in {JGT, JGE, JEQ, JSET}, s \in {K, X}}
DivCodes    == {ALU + o + s : o \in {DIV, MOD}, s \in {K, X}}
AluCodes    == {ALU + o + s : o \in {ADD, SUB, MUL, AND, OR, XOR, LSH, RSH}, s \in {K, X}}
               \cup {ALU + NEG}
MiscCodes   == {MISC + TAX, MISC + TXA}

Codes == RetCodes \cup PacketCodes \cup LenCodes \cup MshCodes \cup ImmCodes
         \cup LdMemCodes \cup StCodes \cup JaCodes \cup JmpCodes \cup DivCodes
         \cup AluCodes \cup MiscCodes

VARIABLES
  insns,        \* the instructions
  backward,     \* flags & VALIDATE_ALLOW_BACKWARD_JUMPS
  phase,        \* "validate", "invalid", "valid" (a BpfProgram), or "filter"
  i,            \* the instruction the validator looks at
  verdict,      \* what the validator returned
  packet, pc, a, x, mem,   \* a running filter()
  result        \* what the last filter() returned

filterVars == <<packet, pc, a, x, mem>>
cbpfVars   == <<insns, backward, phase, i, verdict, filterVars, result>>

----------------------------------------------------------------------------
(* Mutated forms of the operators below, used to check that the properties *)
(* can fail.                                                               *)

\* One word too many.
BadMemory_OffByOne(insn) ==
  /\ insn.k > MemWords
  /\ \/ code_class(insn.code) \in {ST, STX}
     \/ code_class(insn.code) \in {LD, LDX} /\ code_mode(insn.code) = MEM

\* The offset is counted from the jump itself.
Room_FromHere(n) == Len(insns) - n

\* Backward jumps are allowed to everyone.
BadJa_Always(n, k) == (n + 1 + k) % WordSize >= Len(insns)

\* The upper bits of a return are not looked at.
RetShaped_Loose(code) == code_rval(code) \in {A, K}

----------------------------------------------------------------------------
(* The validator. *)

\* Instructions after number n.
Room(n) == Len(insns) - (n + 1)

RetShaped(code) == code_rval(code) \in {A, K} /\ (code \div 32) % 8 = 0

ValidCode(code) ==
  LET class == code_class(code)
      size  == code_size(code)
      mode  == code_mode(code)
      op    == code_op(code)
      src   == code_src(code)
  IN  /\ code < 256
      /\ \/ class \in {LD, LDX} /\ mode \in {IMM, LEN, MEM} /\ size = W
         \/ class = LD /\ mode \in {ABS, IND} /\ valid_code_size(size)
         \/ class = LDX /\ mode = MSH /\ size = B
         \/ class \in {ST, STX} /\ mode = MEM /\ size = W
         \/ class = ALU /\ op \in {ADD, SUB, MUL, OR, AND, XOR, LSH, RSH, DIV, MOD}
         \/ class = ALU /\ op = NEG /\ src = 0
         \/ class = JMP /\ op = JA /\ src = 0
         \/ class = JMP /\ op \in {JEQ, JGT, JGE, JSET}
         \/ class = RET /\ RetShaped(code)
         \/ class = MISC /\ code_miscop(code) \in {TAX, TXA}

BadMemory(insn) ==
  /\ insn.k >= MemWords
  /\ \/ code_class(insn.code) \in {ST, STX}
     \/ code_class(insn.code) \in {LD, LDX} /\ code_mode(insn.code) = MEM

DivideByZero(insn) ==
  /\ code_class(insn.code) = ALU /\ code_op(insn.code) \in {DIV, MOD}
  /\ code_src(insn.code) = K /\ insn.k = 0

\* An unconditional jump by k from instruction n leaves the program, or
\* goes back where that is not allowed.
BadJa(n, k) ==
  IF backward THEN (n + 1 + k) % WordSize >= Len(insns) ELSE k >= Room(n)

BadJump(n, insn) ==
  /\ code_class(insn.code) = JMP
  /\ IF code_op(insn.code) = JA THEN BadJa(n, insn.k)
     ELSE insn.jt >= Room(n) \/ insn.jf >= Room(n)

\* What one turn of the loop makes of instruction n.  At most one of the
\* last three can be wrong with an instruction.
Check(n) ==
  LET insn == insns[n + 1]
  IN  IF ~ValidCode(insn.code) THEN "InvalidInstruction"
      ELSE IF BadMemory(insn)  THEN "BadMemoryAccess"
      ELSE IF DivideByZero(insn) THEN "DivideByZero"
      ELSE IF BadJump(n, insn) THEN "BadJumpTarget"
      ELSE "Ok"

EndsInReturn == Len(insns) > 0 /\ code_class(insns[Len(insns)].code) = RET

Init ==
  /\ insns \in Programs
  /\ backward \in BOOLEAN
  /\ phase = "validate"
  /\ i = 0
  /\ verdict = "none"
  /\ packet = <<>> /\ pc = 0 /\ a = 0 /\ x = 0
  /\ mem = [w \in MemIndex |-> 0]
  /\ result = 0

Reject(error) ==
  /\ phase' = "invalid" /\ verdict' = error
  /\ UNCHANGED <<insns, backward, i, filterVars, result>>

\* Programs longer than u32::MAX.
check_size ==
  /\ phase = "validate" /\ Len(insns) > WordSize - 1
  /\ Reject("ProgramTooLarge")

check_insn ==
  /\ phase = "validate" /\ Len(insns) <= WordSize - 1 /\ i < Len(insns)
  /\ \/ Check(i) # "Ok" /\ Reject(Check(i))
     \/ /\ Check(i) = "Ok"
        /\ i' = i + 1
        /\ UNCHANGED <<insns, backward, phase, verdict, filterVars, result>>

check_end ==
  /\ phase = "validate" /\ Len(insns) <= WordSize - 1 /\ i = Len(insns)
  /\ \/ ~EndsInReturn /\ Reject("MissingReturn")
     \/ /\ EndsInReturn
        /\ phase' = "valid" /\ verdict' = "Ok"
        /\ UNCHANGED <<insns, backward, i, filterVars, result>>

----------------------------------------------------------------------------
(* The interpreter. *)

filter(p) ==
  /\ phase = "valid"
  /\ phase' = "filter"
  /\ packet' = p
  /\ pc' = 0 /\ a' = 0 /\ x' = 0
  /\ mem' = [w \in MemIndex |-> 0]
  /\ result' = 0
  /\ UNCHANGED <<insns, backward, i, verdict>>

Insn == insns[pc + 1]

\* The arm for one of these codes.
Arm(codes) == phase = "filter" /\ Insn.code \in codes

\* `break v`: the locals of the call are gone.
Break(v) ==
  /\ phase' = "valid" /\ result' = v
  /\ packet' = <<>> /\ pc' = 0 /\ a' = 0 /\ x' = 0
  /\ mem' = [w \in MemIndex |-> 0]
  /\ UNCHANGED <<insns, backward, i, verdict>>

GoTo(n) == pc' = n /\ UNCHANGED <<insns, backward, phase, i, verdict, packet, result>>
GoOn    == GoTo(pc + 1)

\* The instructions of LD and those of LDX differ in the register they load.
Load(v) ==
  /\ IF code_class(Insn.code) = LD THEN a' = v /\ x' = x ELSE x' = v /\ a' = a
  /\ mem' = mem
  /\ GoOn

\* The right operand of an ALU instruction or a comparison.
Operand == IF code_src(Insn.code) = X THEN x ELSE Insn.k

Width  == IF code_size(Insn.code) = W THEN 4 ELSE IF code_size(Insn.code) = H THEN 2 ELSE 1
Addr   == IF code_mode(Insn.code) = IND THEN (x + Insn.k) % WordSize ELSE Insn.k
Outside(k, n) == k > Len(packet) \/ Len(packet) - k < n

\* load_byte, load_halfword and load_word: big-endian.
load_byte(k)     == packet[k + 1]
load_halfword(k) == load_byte(k) * ByteSize + load_byte(k + 1)
load_word(k)     == load_halfword(k) * (ByteSize * ByteSize) + load_halfword(k + 2)

ret == Arm(RetCodes) /\ Break(IF Insn.code = RET + K THEN Insn.k ELSE a)

ld_packet ==
  /\ Arm(PacketCodes)
  /\ \/ Outside(Addr, Width) /\ Break(0)
     \/ /\ ~Outside(Addr, Width)
        /\ Load(IF Width = 4 THEN load_word(Addr)
                ELSE IF Width = 2 THEN load_halfword(Addr) ELSE load_byte(Addr))

ld_len == Arm(LenCodes) /\ Load(Len(packet) % WordSize)

\* The length of an IP header.
ldx_msh ==
  /\ Arm(MshCodes)
  /\ \/ Outside(Insn.k, 1) /\ Break(0)
     \/ ~Outside(Insn.k, 1) /\ Load(((load_byte(Insn.k) % 16) * 4) % WordSize)

ld_imm == Arm(ImmCodes) /\ Load(Insn.k)
ld_mem == Arm(LdMemCodes) /\ Load(mem[Insn.k])

st ==
  /\ Arm(StCodes)
  /\ mem' = [mem EXCEPT ![Insn.k] = IF code_class(Insn.code) = ST THEN a ELSE x]
  /\ UNCHANGED <<a, x>>
  /\ GoOn

\* "deliberate wrapping for backwards jumps"
JaTarget(k) == (pc + 1 + k) % WordSize
ja == Arm(JaCodes) /\ GoTo(JaTarget(Insn.k)) /\ UNCHANGED <<a, x, mem>>

Taken ==
  LET j == code_op(Insn.code)
  IN  \/ j = JGT /\ a > Operand
      \/ j = JGE /\ a >= Operand
      \/ j = JEQ /\ a = Operand
      \/ j = JSET /\ BitOp(AND, a, Operand) # 0
do_jmp ==
  /\ Arm(JmpCodes)
  /\ GoTo(pc + 1 + IF Taken THEN Insn.jt ELSE Insn.jf)
  /\ UNCHANGED <<a, x, mem>>

div ==
  /\ Arm(DivCodes)
  /\ \/ Operand = 0 /\ Break(0)
     \/ /\ Operand # 0
        /\ a' = IF code_op(Insn.code) = DIV THEN a \div Operand ELSE a % Operand
        /\ UNCHANGED <<x, mem>>
        /\ GoOn

Alu(op, u, v) ==
  CASE op = ADD -> (u + v) % WordSize
    [] op = SUB -> (u - v) % WordSize
    [] op = MUL -> (u * v) % WordSize
    [] op = NEG -> (0 - u) % WordSize
    [] op \in {AND, OR, XOR} -> BitOp(op, u, v)
    [] op \in {LSH, RSH} -> IF v < WordBits THEN BitOp(op, u, v) ELSE 0
alu ==
  /\ Arm(AluCodes)
  /\ a' = Alu(code_op(Insn.code), a, Operand)
  /\ UNCHANGED <<x, mem>>
  /\ GoOn

tax_txa ==
  /\ Arm(MiscCodes)
  /\ IF Insn.code = MISC + TAX THEN x' = a /\ a' = a ELSE a' = x /\ x' = x
  /\ mem' = mem
  /\ GoOn

Step ==
  \/ ret \/ ld_packet \/ ld_len \/ ldx_msh \/ ld_imm \/ ld_mem \/ st
  \/ ja \/ do_jmp \/ div \/ alu \/ tax_txa

Next ==
  \/ check_size \/ check_insn \/ check_end
  \/ \E p \in Packets : filter(p)
  \/ Step

\* A call of filter() in progress runs.
CbpfSpec == Init /\ [][Next]_cbpfVars /\ WF_cbpfVars(Step)

----------------------------------------------------------------------------
\* Every variable has its type.
CbpfTypeOK ==
  /\ insns \in Seq(BpfInsn)
  /\ backward \in BOOLEAN
  /\ phase \in {"validate", "invalid", "valid", "filter"}
  /\ i \in 0 .. Len(insns)
  /\ packet \in Seq(Byte)
  /\ pc \in Nat
  /\ a \in Words /\ x \in Words
  /\ mem \in [MemIndex -> Words]
  /\ result \in Words

\* The instruction filter_slice() is about to take with get_unchecked()
\* exists, after any sequence of jumps.
FetchInBounds == phase = "filter" => pc < Len(insns)

\* ... and so do the word of scratch memory and the bytes of the packet it
\* names; and a conditional jump does not overflow the pc, which is added to
\* with unchecked_add().
OperandsInBounds ==
  phase = "filter" /\ pc < Len(insns) =>
    /\ Insn.code \in LdMemCodes \cup StCodes => Insn.k \in MemIndex
    /\ Insn.code \in PacketCodes /\ ~Outside(Addr, Width) => Addr + Width <= Len(packet)
    /\ Insn.code \in MshCodes /\ ~Outside(Insn.k, 1) => Insn.k < Len(packet)
    /\ Insn.code \in JmpCodes =>
         pc + 1 + Insn.jt < WordSize /\ pc + 1 + Insn.jf < WordSize

\* The validator takes codes apart by their fields, the interpreter matches
\* whole codes: they agree on which codes exist, so unreachable_unchecked()
\* is not reached, and no program the interpreter could run is refused for
\* its codes.
CodesAgree ==
  /\ phase = "filter" /\ pc < Len(insns) => Insn.code \in Codes
  /\ verdict = "InvalidInstruction" => insns[i + 1].code \notin Codes

\* A program validated without VALIDATE_ALLOW_BACKWARD_JUMPS only goes
\* forward, so that it ends after at most as many steps as it is long.
ForwardOnly ==
  [][~backward /\ phase = "filter" /\ phase' = "filter" => pc' > pc]_cbpfVars

\* filter() returns, if backward jumps were not allowed: the comment on the
\* flag says that with it "a BPF program is not guaranteed to terminate".
Terminates == (~backward /\ phase = "filter") ~> phase # "filter"

============================================================================
