----------------------------- MODULE OpcodeTables -----------------------------
(*****************************************************************************)
(* The opcode tables of the dispatcher (src/src/CoreDispatch.cc), the        *)
(* formats that choose between them (src/include/Instruction.h), and the     *)
(* list of the opcodes the processor has (src/include/OpcodesRaw.h).         *)
(*                                                                           *)
(* Tables are sequences in the order of their initialisers, so that an       *)
(* entry an initialiser lacks is missing here too.  A handler that is a      *)
(* template is named with its arguments.                                     *)
(*****************************************************************************)
EXTENDS Naturals, Sequences, TLC

Illegal == "illegalInstruction"

\* n table entries, all of them illegal but the ones given, each as a pair of
\* its position and its handler.
Table(n, entries) ==
  [i \in 1 .. n |-> IF \E e \in entries : e[1] = i - 1
                    THEN (CHOOSE e \in entries : e[1] = i - 1)[2]
                    ELSE Illegal]

Same(n, handler) == [i \in 1 .. n |-> handler]

-------------------------------------------------------------------------------
(* Formats.                                                                  *)

isCTRLFormat(major) == major < \h20
isCOBRFormat(major) == major >= \h20 /\ major < \h40
isREGFormat(major) == major >= \h58 /\ major < \h80
isMEMFormat(major) == major >= \h80 /\ major < \hD0

-------------------------------------------------------------------------------
(* The tables.                                                               *)

ctrlFormatInstructions ==
  Table(16, {<<8, "b">>, <<9, "call">>, <<10, "ret">>, <<11, "bal">>})
    \o Same(8, "condBranch") \o Same(8, "condFault")

\* Fault: the entry of bbs forgotten.
CobrWithoutBbs ==
  Same(8, "testOp") \o Same(8, Illegal)
    \o <<"bbc">> \o Same(6, "cmpobx") \o Same(8, "cmpibx")

cobrFormatInstructions ==
  Same(8, "testOp") \o Same(8, Illegal)
    \o <<"bbc">> \o Same(6, "cmpobx") \o <<"bbs">> \o Same(8, "cmpibx")

memFormatInstructions ==
  Table(80, {<<0, "ldob">>, <<2, "stob">>, <<4, "bx">>, <<5, "balx">>,
             <<6, "callx">>, <<8, "ldos">>, <<10, "stos">>, <<12, "lda">>,
             <<16, "ld">>, <<18, "st">>, <<24, "ldl">>, <<26, "stl">>,
             <<32, "ldt">>, <<34, "stt">>, <<48, "ldq">>, <<50, "stq">>,
             <<64, "ldib">>, <<66, "stib">>, <<72, "ldis">>, <<74, "stis">>})

REGTable_0x58 ==
  <<"notbit", "And", "AndNot", "setbit", "NotAnd", Illegal, "Xor", "Or", "Nor",
    "Xnor", "Not", "OrNot", "clrbit", "NotOr", "Nand", "alterbit">>

REGTable_0x59 ==
  <<"Add Ordinal", "Add Integer", "Subtract Ordinal", "Subtract Integer">>
    \o Same(4, Illegal)
    \o <<"shro", "shrdi", "ShiftRight Integer", "shlo", "Rotate Ordinal",
         "ShiftLeft Integer", Illegal>>

REGTable_0x5A ==
  <<"cmpo", "cmpi", "concmp Ordinal", "concmp Integer",
    "cmpinco", "cmpinci", "cmpdeco", "cmpdeci">>
    \o Same(4, Illegal) \o <<"scanbyte", "bswap", "chkbit", Illegal>>

REGTable_0x5B == Table(16, {<<0, "addc">>, <<2, "subc">>})
REGTable_0x5C == Table(16, {<<12, "mov">>})
REGTable_0x5D == Table(16, {<<12, "movl">>})
REGTable_0x5E == Table(16, {<<12, "movt">>})
REGTable_0x5F == Table(16, {<<12, "movq">>})
REGTable_0x60 == Table(16, {<<0, "synmov">>, <<1, "synmovl">>,
                            <<2, "synmovq">>})
REGTable_0x61 == Table(16, {<<0, "atmod">>, <<2, "atadd">>, <<5, "synld">>})
REGTable_0x64 == Table(16, {<<0, "spanbit">>, <<1, "scanbit">>, <<5, "modac">>})
REGTable_0x65 ==
  Table(16, {<<0, "modify">>, <<1, "extract">>, <<4, "modtc">>, <<5, "modpc">>})
REGTable_0x66 ==
  Table(16, {<<0, "calls">>, <<11, "mark">>, <<12, "fmark">>,
             <<13, "flushreg">>, <<15, "syncf">>})
REGTable_0x67 == Table(16, {<<0, "emul">>, <<1, "ediv">>})
REGTable_0x70 ==
  Table(16, {<<1, "Multiply Ordinal">>, <<8, "Remainder Ordinal">>,
             <<11, "Divide Ordinal">>})
REGTable_0x74 ==
  Table(16, {<<1, "Multiply Integer">>, <<8, "Remainder Integer">>,
             <<9, "modi">>, <<11, "Divide Integer">>})
EmptyTable == Same(16, Illegal)

REGLookupTable ==
  <<REGTable_0x58, REGTable_0x59, REGTable_0x5A, REGTable_0x5B,
    REGTable_0x5C, REGTable_0x5D, REGTable_0x5E, REGTable_0x5F,
    REGTable_0x60, REGTable_0x61, EmptyTable, EmptyTable,
    REGTable_0x64, REGTable_0x65, REGTable_0x66, REGTable_0x67>>
    \o Same(8, EmptyTable) \o <<REGTable_0x70>> \o Same(3, EmptyTable)
    \o <<REGTable_0x74>> \o Same(11, EmptyTable)

\* An aggregate shorter than its array leaves null pointers behind.
Entry(table, index) == IF index + 1 \in DOMAIN table THEN table[index + 1] ELSE "null"

\* What executeInstruction calls.
Handler(major, minor) ==
  CASE isCTRLFormat(major) -> Entry(ctrlFormatInstructions, major)
    [] isCOBRFormat(major) -> Entry(cobrFormatInstructions, major - \h20)
    [] isMEMFormat(major)  -> Entry(memFormatInstructions, major - \h80)
    [] isREGFormat(major)  -> Entry(REGLookupTable[major - \h58 + 1], minor)
    [] OTHER               -> Illegal

-------------------------------------------------------------------------------
(* The list of opcodes.  A REG opcode is the major opcode followed by the    *)
(* minor one.                                                                *)

\* count opcodes from first on, with the names in order.
Run(first, names) == [op \in first .. first + Len(names) - 1 |-> names[op - first + 1]]

BranchOpcodes ==
  Run(\h08, <<"b", "call", "ret", "bal">>)
    @@ Run(\h10, <<"bno", "bg", "be", "bge", "bl", "bne", "ble", "bo">>)
    @@ Run(\h18, <<"faultno", "faultg", "faulte", "faultge",
                   "faultl", "faultne", "faultle", "faulto">>)
    @@ Run(\h20, <<"testno", "testg", "teste", "testge",
                   "testl", "testne", "testle", "testo">>)
    @@ Run(\h30, <<"bbc", "cmpobg", "cmpobe", "cmpobge",
                   "cmpobl", "cmpobne", "cmpoble", "bbs">>)
    @@ Run(\h38, <<"cmpibno", "cmpibg", "cmpibe", "cmpibge",
                   "cmpibl", "cmpibne", "cmpible", "cmpibo">>)

MemoryOpcodes ==
  (\h80 :> "ldob") @@ (\h82 :> "stob") @@ Run(\h84, <<"bx", "balx", "callx">>)
    @@ (\h88 :> "ldos") @@ (\h8A :> "stos") @@ (\h8C :> "lda")
    @@ (\h90 :> "ld") @@ (\h92 :> "st") @@ (\h98 :> "ldl") @@ (\h9A :> "stl")
    @@ (\hA0 :> "ldt") @@ (\hA2 :> "stt") @@ (\hB0 :> "ldq") @@ (\hB2 :> "stq")
    @@ (\hC0 :> "ldib") @@ (\hC2 :> "stib") @@ (\hC8 :> "ldis") @@ (\hCA :> "stis")

RegisterOpcodes ==
  Run(\h580, <<"notbit", "logicalAnd", "andnot", "setbit", "notand">>)
    @@ Run(\h586, <<"logicalXor", "logicalOr", "logicalNor", "logicalXnor",
                    "logicalNot", "ornot", "clrbit", "notor", "logicalNand",
                    "alterbit", "addo", "addi", "subo", "subi">>)
    @@ (\h598 :> "shro")
    @@ Run(\h59A, <<"shrdi", "shri", "shlo", "rotate", "shli">>)
    @@ Run(\h5A0, <<"cmpo", "cmpi", "concmpo", "concmpi",
                    "cmpinco", "cmpinci", "cmpdeco", "cmpdeci">>)
    @@ Run(\h5AC, <<"scanbyte", "bswap", "chkbit">>)
    @@ (\h5B0 :> "addc") @@ (\h5B2 :> "subc")
    @@ (\h5CC :> "mov") @@ (\h5DC :> "movl") @@ (\h5EC :> "movt") @@ (\h5FC :> "movq")
    @@ Run(\h600, <<"synmov", "synmovl", "synmovq">>) @@ (\h615 :> "synld")
    @@ (\h610 :> "atmod") @@ (\h612 :> "atadd")
    @@ Run(\h640, <<"spanbit", "scanbit">>) @@ (\h645 :> "modac")
    @@ Run(\h650, <<"modify", "extract">>) @@ Run(\h654, <<"modtc", "modpc">>)
    @@ (\h660 :> "calls") @@ Run(\h66B, <<"mark", "fmark", "flushreg">>)
    @@ (\h66F :> "syncf") @@ Run(\h670, <<"emul", "ediv">>)
    @@ (\h701 :> "mulo") @@ (\h708 :> "remo") @@ (\h70B :> "divo")
    @@ (\h741 :> "muli") @@ Run(\h748, <<"remi", "modi">>) @@ (\h74B :> "divi")

Opcodes == BranchOpcodes @@ MemoryOpcodes @@ RegisterOpcodes

\* The opcode of an instruction, as getOpcode and makeFullOpcode compute it.
FullOpcode(major, minor) == IF isREGFormat(major) THEN major * 16 + minor ELSE major
===============================================================================
