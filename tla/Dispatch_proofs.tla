--------------------------- MODULE Dispatch_proofs ----------------------------
(*****************************************************************************)
(* Proofs about Dispatch: in the format it is reached in each handler finds  *)
(* its operands, and only the handlers that take a source for a register are *)
(* stopped by them.                                                          *)
(*****************************************************************************)
EXTENDS Dispatch, TLAPS

-------------------------------------------------------------------------------
(* What is in the tables.                                                    *)

\* A table holds what it is given, or the illegal instruction.
LEMMA TableHolds ==
  ASSUME NEW S, NEW n \in Nat, NEW entries, Illegal \in S,
         \A e \in entries : e[2] \in S
  PROVE  Table(n, entries) \in Seq(S) /\ Len(Table(n, entries)) = n
<1>1. ASSUME NEW i \in 1 .. n
      PROVE  (IF \E e \in entries : e[1] = i - 1
              THEN (CHOOSE e \in entries : e[1] = i - 1)[2]
              ELSE Illegal) \in S
  <2>1. CASE \E e \in entries : e[1] = i - 1
    <3>1. (CHOOSE e \in entries : e[1] = i - 1) \in entries
      BY <2>1
    <3> QED
      BY <2>1, <3>1
  <2> QED
    BY <2>1
<1>2. Table(n, entries) \in [1 .. n -> S]
  BY <1>1 DEF Table
<1> QED
  BY <1>2

LEMMA SameHolds ==
  ASSUME NEW S, NEW n \in Nat, NEW h \in S
  PROVE  Same(n, h) \in Seq(S) /\ Len(Same(n, h)) = n
<1>1. Same(n, h) \in [1 .. n -> S]
  BY DEF Same
<1> QED
  BY <1>1

LEMMA JoinHolds ==
  ASSUME NEW S, NEW s \in Seq(S), NEW t \in Seq(S)
  PROVE  s \o t \in Seq(S) /\ Len(s \o t) = Len(s) + Len(t)
OBVIOUS

LEMMA ElementOfTable == ASSUME NEW S, NEW s \in Seq(S), NEW i \in 1 .. Len(s) PROVE s[i] \in S
OBVIOUS

LEMMA PairHolds == ASSUME NEW S, NEW i, NEW h \in S PROVE <<i, h>>[2] \in S
OBVIOUS

\* An entry of a table, or a null pointer behind it.
LEMMA EntryOf ==
  ASSUME NEW S, NEW table \in Seq(S), NEW i \in Nat
  PROVE  Entry(table, i) \in S \union {"null"}
BY DEF Entry

CtrlHandlers == {"b", "call", "ret", "bal", "condBranch", "condFault", Illegal}
CobrHandlers == {"testOp", "bbc", "bbs", "cmpobx", "cmpibx", Illegal}
MemHandlers == Loads \union Stores \union {"stt", "stq", "bx", "callx", Illegal}
RegHandlers ==
  {"notbit", "And", "AndNot", "setbit", "NotAnd", "Xor", "Or", "Nor", "Xnor", "Not",
   "OrNot", "clrbit", "NotOr", "Nand", "alterbit", "Add Ordinal", "Add Integer",
   "Subtract Ordinal", "Subtract Integer", "shro", "shrdi", "ShiftRight Integer",
   "shlo", "Rotate Ordinal", "ShiftLeft Integer", "cmpo", "cmpi", "concmp Ordinal",
   "concmp Integer", "cmpinco", "cmpinci", "cmpdeco", "cmpdeci", "scanbyte",
   "bswap", "chkbit", "addc", "subc", "mov", "movl", "movt", "movq", "synmov",
   "synmovl", "synmovq", "atmod", "atadd", "synld", "spanbit", "scanbit", "modac",
   "modify", "extract", "modtc", "modpc", "calls", "mark", "fmark", "flushreg",
   "syncf", "emul", "ediv", "Multiply Ordinal", "Remainder Ordinal",
   "Divide Ordinal", "Multiply Integer", "Remainder Integer", "modi",
   "Divide Integer", Illegal}

LEMMA CtrlTable == ctrlFormatInstructions \in Seq(CtrlHandlers)
<1> DEFINE first == Table(16, {<<8, "b">>, <<9, "call">>, <<10, "ret">>, <<11, "bal">>})
           S == CtrlHandlers
<1>1. Illegal \in S /\ "condBranch" \in S /\ "condFault" \in S
  BY DEF CtrlHandlers
<1>2. \A e \in {<<8, "b">>, <<9, "call">>, <<10, "ret">>, <<11, "bal">>} : e[2] \in S
  BY DEF CtrlHandlers
<1> HIDE DEF S
<1>3. first \in Seq(S)
  BY <1>1, <1>2, TableHolds
<1>4. Same(8, "condBranch") \in Seq(S) /\ Same(8, "condFault") \in Seq(S)
  BY <1>1, SameHolds
<1> HIDE DEF first
<1>5. first \o Same(8, "condBranch") \o Same(8, "condFault") \in Seq(S)
  BY <1>3, <1>4, JoinHolds
<1> QED
  BY <1>5 DEF ctrlFormatInstructions, first, S

LEMMA CobrTable == cobrFormatInstructions \in Seq(CobrHandlers)
<1> DEFINE S == CobrHandlers
<1>1. /\ "testOp" \in S /\ Illegal \in S /\ "cmpobx" \in S /\ "cmpibx" \in S
      /\ <<"bbc">> \in Seq(S) /\ <<"bbs">> \in Seq(S)
  BY DEF CobrHandlers
<1> HIDE DEF S
<1>2. /\ Same(8, "testOp") \in Seq(S) /\ Same(8, Illegal) \in Seq(S)
      /\ Same(6, "cmpobx") \in Seq(S) /\ Same(8, "cmpibx") \in Seq(S)
  BY <1>1, SameHolds
<1>3. Same(8, "testOp") \o Same(8, Illegal) \o <<"bbc">> \o Same(6, "cmpobx")
        \o <<"bbs">> \o Same(8, "cmpibx") \in Seq(S)
  BY <1>1, <1>2, JoinHolds
<1> QED
  BY <1>3 DEF cobrFormatInstructions, S

LEMMA MemTable == memFormatInstructions \in Seq(MemHandlers)
<1> DEFINE S == MemHandlers
           entries == {<<0, "ldob">>, <<2, "stob">>, <<4, "bx">>, <<5, "balx">>,
                       <<6, "callx">>, <<8, "ldos">>, <<10, "stos">>, <<12, "lda">>,
                       <<16, "ld">>, <<18, "st">>, <<24, "ldl">>, <<26, "stl">>,
                       <<32, "ldt">>, <<34, "stt">>, <<48, "ldq">>, <<50, "stq">>,
                       <<64, "ldib">>, <<66, "stib">>, <<72, "ldis">>, <<74, "stis">>}
<1>1. Illegal \in S /\ \A e \in entries : e[2] \in S
  BY DEF MemHandlers, Loads, Stores
<1> HIDE DEF S, entries
<1>2. Table(80, entries) \in Seq(S)
  BY <1>1, TableHolds
<1> QED
  BY <1>2 DEF memFormatInstructions, S, entries

\* The tables of the REG format.
LEMMA RegTable ==
  ASSUME NEW entries, \A e \in entries : e[2] \in RegHandlers
  PROVE  Table(16, entries) \in Seq(RegHandlers)
<1>1. Illegal \in RegHandlers
  BY DEF RegHandlers
<1> QED
  BY <1>1, TableHolds

LEMMA LogicalTable == REGTable_0x58 \in Seq(RegHandlers)
BY DEF REGTable_0x58, RegHandlers

LEMMA ArithmeticTable == REGTable_0x59 \in Seq(RegHandlers)
<1> DEFINE S == RegHandlers
           front == <<"Add Ordinal", "Add Integer", "Subtract Ordinal", "Subtract Integer">>
           back == <<"shro", "shrdi", "ShiftRight Integer", "shlo", "Rotate Ordinal",
                     "ShiftLeft Integer", Illegal>>
<1>1. front \in Seq(S) /\ back \in Seq(S) /\ Illegal \in S
  BY DEF RegHandlers
<1> HIDE DEF S, front, back
<1>2. Same(4, Illegal) \in Seq(S)
  BY <1>1, SameHolds
<1>3. front \o Same(4, Illegal) \o back \in Seq(S)
  BY <1>1, <1>2, JoinHolds
<1> QED
  BY <1>3 DEF REGTable_0x59, S, front, back

LEMMA CompareTable == REGTable_0x5A \in Seq(RegHandlers)
<1> DEFINE S == RegHandlers
           front == <<"cmpo", "cmpi", "concmp Ordinal", "concmp Integer",
                      "cmpinco", "cmpinci", "cmpdeco", "cmpdeci">>
           back == <<"scanbyte", "bswap", "chkbit", Illegal>>
<1>1. front \in Seq(S) /\ back \in Seq(S) /\ Illegal \in S
  BY DEF RegHandlers
<1> HIDE DEF S, front, back
<1>2. Same(4, Illegal) \in Seq(S)
  BY <1>1, SameHolds
<1>3. front \o Same(4, Illegal) \o back \in Seq(S)
  BY <1>1, <1>2, JoinHolds
<1> QED
  BY <1>3 DEF REGTable_0x5A, S, front, back

LEMMA SparseTables ==
  /\ REGTable_0x5B \in Seq(RegHandlers) /\ REGTable_0x5C \in Seq(RegHandlers)
  /\ REGTable_0x5D \in Seq(RegHandlers) /\ REGTable_0x5E \in Seq(RegHandlers)
  /\ REGTable_0x5F \in Seq(RegHandlers) /\ REGTable_0x60 \in Seq(RegHandlers)
  /\ REGTable_0x61 \in Seq(RegHandlers) /\ REGTable_0x64 \in Seq(RegHandlers)
  /\ REGTable_0x65 \in Seq(RegHandlers) /\ REGTable_0x66 \in Seq(RegHandlers)
  /\ REGTable_0x67 \in Seq(RegHandlers) /\ REGTable_0x70 \in Seq(RegHandlers)
  /\ REGTable_0x74 \in Seq(RegHandlers) /\ EmptyTable \in Seq(RegHandlers)
<1>1. REGTable_0x5B \in Seq(RegHandlers)
  <2> DEFINE entries == {<<0, "addc">>, <<2, "subc">>}
  <2>1. /\ "addc" \in RegHandlers /\ "subc" \in RegHandlers
    BY DEF RegHandlers
  <2>2. \A e \in entries : e[2] \in RegHandlers
    BY <2>1
  <2> HIDE DEF entries
  <2>3. Table(16, entries) \in Seq(RegHandlers)
    BY <2>2, RegTable
  <2> QED
    BY <2>3 DEF REGTable_0x5B, entries
<1>2. REGTable_0x5C \in Seq(RegHandlers)
  <2> DEFINE entries == {<<12, "mov">>}
  <2>1. "mov" \in RegHandlers
    BY DEF RegHandlers
  <2>2. \A e \in entries : e[2] \in RegHandlers
    BY <2>1
  <2> HIDE DEF entries
  <2>3. Table(16, entries) \in Seq(RegHandlers)
    BY <2>2, RegTable
  <2> QED
    BY <2>3 DEF REGTable_0x5C, entries
<1>3. REGTable_0x5D \in Seq(RegHandlers)
  <2> DEFINE entries == {<<12, "movl">>}
  <2>1. "movl" \in RegHandlers
    BY DEF RegHandlers
  <2>2. \A e \in entries : e[2] \in RegHandlers
    BY <2>1
  <2> HIDE DEF entries
  <2>3. Table(16, entries) \in Seq(RegHandlers)
    BY <2>2, RegTable
  <2> QED
    BY <2>3 DEF REGTable_0x5D, entries
<1>4. REGTable_0x5E \in Seq(RegHandlers)
  <2> DEFINE entries == {<<12, "movt">>}
  <2>1. "movt" \in RegHandlers
    BY DEF RegHandlers
  <2>2. \A e \in entries : e[2] \in RegHandlers
    BY <2>1
  <2> HIDE DEF entries
  <2>3. Table(16, entries) \in Seq(RegHandlers)
    BY <2>2, RegTable
  <2> QED
    BY <2>3 DEF REGTable_0x5E, entries
<1>5. REGTable_0x5F \in Seq(RegHandlers)
  <2> DEFINE entries == {<<12, "movq">>}
  <2>1. "movq" \in RegHandlers
    BY DEF RegHandlers
  <2>2. \A e \in entries : e[2] \in RegHandlers
    BY <2>1
  <2> HIDE DEF entries
  <2>3. Table(16, entries) \in Seq(RegHandlers)
    BY <2>2, RegTable
  <2> QED
    BY <2>3 DEF REGTable_0x5F, entries
<1>6. REGTable_0x60 \in Seq(RegHandlers)
  <2> DEFINE entries == {<<0, "synmov">>, <<1, "synmovl">>, <<2, "synmovq">>}
  <2>1. /\ "synmov" \in RegHandlers /\ "synmovl" \in RegHandlers
        /\ "synmovq" \in RegHandlers
    BY DEF RegHandlers
  <2>2. \A e \in entries : e[2] \in RegHandlers
    BY <2>1
  <2> HIDE DEF entries
  <2>3. Table(16, entries) \in Seq(RegHandlers)
    BY <2>2, RegTable
  <2> QED
    BY <2>3 DEF REGTable_0x60, entries
<1>7. REGTable_0x61 \in Seq(RegHandlers)
  <2> DEFINE entries == {<<0, "atmod">>, <<2, "atadd">>, <<5, "synld">>}
  <2>1. /\ "atmod" \in RegHandlers /\ "atadd" \in RegHandlers
        /\ "synld" \in RegHandlers
    BY DEF RegHandlers
  <2>2. \A e \in entries : e[2] \in RegHandlers
    BY <2>1
  <2> HIDE DEF entries
  <2>3. Table(16, entries) \in Seq(RegHandlers)
    BY <2>2, RegTable
  <2> QED
    BY <2>3 DEF REGTable_0x61, entries
<1>8. REGTable_0x64 \in Seq(RegHandlers)
  <2> DEFINE entries == {<<0, "spanbit">>, <<1, "scanbit">>, <<5, "modac">>}
  <2>1. /\ "spanbit" \in RegHandlers /\ "scanbit" \in RegHandlers
        /\ "modac" \in RegHandlers
    BY DEF RegHandlers
  <2>2. \A e \in entries : e[2] \in RegHandlers
    BY <2>1
  <2> HIDE DEF entries
  <2>3. Table(16, entries) \in Seq(RegHandlers)
    BY <2>2, RegTable
  <2> QED
    BY <2>3 DEF REGTable_0x64, entries
<1>9. REGTable_0x65 \in Seq(RegHandlers)
  <2> DEFINE entries == {<<0, "modify">>, <<1, "extract">>, <<4, "modtc">>,
                         <<5, "modpc">>}
  <2>1. /\ "modify" \in RegHandlers /\ "extract" \in RegHandlers
        /\ "modtc" \in RegHandlers /\ "modpc" \in RegHandlers
    BY DEF RegHandlers
  <2>2. \A e \in entries : e[2] \in RegHandlers
    BY <2>1
  <2> HIDE DEF entries
  <2>3. Table(16, entries) \in Seq(RegHandlers)
    BY <2>2, RegTable
  <2> QED
    BY <2>3 DEF REGTable_0x65, entries
<1>10. REGTable_0x66 \in Seq(RegHandlers)
  <2> DEFINE entries == {<<0, "calls">>, <<11, "mark">>, <<12, "fmark">>,
                         <<13, "flushreg">>, <<15, "syncf">>}
  <2>1. /\ "calls" \in RegHandlers /\ "mark" \in RegHandlers
        /\ "fmark" \in RegHandlers /\ "flushreg" \in RegHandlers
        /\ "syncf" \in RegHandlers
    BY DEF RegHandlers
  <2>2. \A e \in entries : e[2] \in RegHandlers
    BY <2>1
  <2> HIDE DEF entries
  <2>3. Table(16, entries) \in Seq(RegHandlers)
    BY <2>2, RegTable
  <2> QED
    BY <2>3 DEF REGTable_0x66, entries
<1>11. REGTable_0x67 \in Seq(RegHandlers)
  <2> DEFINE entries == {<<0, "emul">>, <<1, "ediv">>}
  <2>1. /\ "emul" \in RegHandlers /\ "ediv" \in RegHandlers
    BY DEF RegHandlers
  <2>2. \A e \in entries : e[2] \in RegHandlers
    BY <2>1
  <2> HIDE DEF entries
  <2>3. Table(16, entries) \in Seq(RegHandlers)
    BY <2>2, RegTable
  <2> QED
    BY <2>3 DEF REGTable_0x67, entries
<1>12. REGTable_0x70 \in Seq(RegHandlers)
  <2> DEFINE entries == {<<1, "Multiply Ordinal">>, <<8, "Remainder Ordinal">>,
                         <<11, "Divide Ordinal">>}
  <2>1. /\ "Multiply Ordinal" \in RegHandlers /\ "Remainder Ordinal" \in RegHandlers
        /\ "Divide Ordinal" \in RegHandlers
    BY DEF RegHandlers
  <2>2. \A e \in entries : e[2] \in RegHandlers
    <3>1. /\ <<1, "Multiply Ordinal">>[2] \in RegHandlers
          /\ <<8, "Remainder Ordinal">>[2] \in RegHandlers
          /\ <<11, "Divide Ordinal">>[2] \in RegHandlers
      BY <2>1, PairHolds, Zenon
    <3> QED
      BY <3>1, Zenon
  <2> HIDE DEF entries
  <2>3. Table(16, entries) \in Seq(RegHandlers)
    BY <2>2, RegTable
  <2> QED
    BY <2>3 DEF REGTable_0x70, entries
<1>13. REGTable_0x74 \in Seq(RegHandlers)
  <2> DEFINE entries == {<<1, "Multiply Integer">>, <<8, "Remainder Integer">>,
                         <<9, "modi">>, <<11, "Divide Integer">>}
  <2>1. /\ "Multiply Integer" \in RegHandlers /\ "Remainder Integer" \in RegHandlers
        /\ "modi" \in RegHandlers /\ "Divide Integer" \in RegHandlers
    BY DEF RegHandlers
  <2>2. \A e \in entries : e[2] \in RegHandlers
    <3>1. /\ <<1, "Multiply Integer">>[2] \in RegHandlers
          /\ <<8, "Remainder Integer">>[2] \in RegHandlers
          /\ <<9, "modi">>[2] \in RegHandlers
          /\ <<11, "Divide Integer">>[2] \in RegHandlers
      BY <2>1, PairHolds, Zenon
    <3> QED
      BY <3>1, Zenon
  <2> HIDE DEF entries
  <2>3. Table(16, entries) \in Seq(RegHandlers)
    BY <2>2, RegTable
  <2> QED
    BY <2>3 DEF REGTable_0x74, entries
<1>14. EmptyTable \in Seq(RegHandlers)
  <2>1. Illegal \in RegHandlers
    BY DEF RegHandlers
  <2> QED
    BY <2>1, SameHolds DEF EmptyTable
<1> QED
  BY <1>1, <1>2, <1>3, <1>4, <1>5, <1>6, <1>7, <1>8, <1>9, <1>10, <1>11, <1>12, <1>13, <1>14

\* There is one for each opcode of the format.
LEMMA RegLookup == REGLookupTable \in Seq(Seq(RegHandlers)) /\ Len(REGLookupTable) = 40
<1> DEFINE S == Seq(RegHandlers)
           front == <<REGTable_0x58, REGTable_0x59, REGTable_0x5A, REGTable_0x5B,
                      REGTable_0x5C, REGTable_0x5D, REGTable_0x5E, REGTable_0x5F,
                      REGTable_0x60, REGTable_0x61, EmptyTable, EmptyTable,
                      REGTable_0x64, REGTable_0x65, REGTable_0x66, REGTable_0x67>>
<1>1. /\ front \in Seq(S) /\ Len(front) = 16
      /\ <<REGTable_0x70>> \in Seq(S) /\ <<REGTable_0x74>> \in Seq(S) /\ EmptyTable \in S
  BY LogicalTable, ArithmeticTable, CompareTable, SparseTables
<1>2. Len(<<REGTable_0x70>>) = 1 /\ Len(<<REGTable_0x74>>) = 1
  OBVIOUS
<1> HIDE DEF S, front
<1>3. /\ Same(8, EmptyTable) \in Seq(S) /\ Len(Same(8, EmptyTable)) = 8
      /\ Same(3, EmptyTable) \in Seq(S) /\ Len(Same(3, EmptyTable)) = 3
      /\ Same(11, EmptyTable) \in Seq(S) /\ Len(Same(11, EmptyTable)) = 11
  BY <1>1, SameHolds
<1> DEFINE a == front \o Same(8, EmptyTable)
           b == a \o <<REGTable_0x70>>
           c == b \o Same(3, EmptyTable)
           d == c \o <<REGTable_0x74>>
           e == d \o Same(11, EmptyTable)
<1>4. a \in Seq(S) /\ Len(a) = Len(front) + Len(Same(8, EmptyTable))
  BY <1>1, <1>3, JoinHolds, Zenon
<1>5. b \in Seq(S) /\ Len(b) = Len(a) + Len(<<REGTable_0x70>>)
  BY <1>1, <1>4, JoinHolds, Zenon
<1>6. c \in Seq(S) /\ Len(c) = Len(b) + Len(Same(3, EmptyTable))
  BY <1>3, <1>5, JoinHolds, Zenon
<1>7. d \in Seq(S) /\ Len(d) = Len(c) + Len(<<REGTable_0x74>>)
  BY <1>1, <1>6, JoinHolds, Zenon
<1>8. e \in Seq(S) /\ Len(e) = Len(d) + Len(Same(11, EmptyTable))
  BY <1>3, <1>7, JoinHolds, Zenon
<1>9. Len(e) = 40
  <2>1. Len(e) = 16 + 8 + 1 + 3 + 1 + 11
    BY <1>1, <1>2, <1>3, <1>4, <1>5, <1>6, <1>7, <1>8, Zenon
  <2> QED
    BY <2>1
<1>10. e = REGLookupTable
  BY DEF e, d, c, b, a, front, REGLookupTable
<1> QED
  BY <1>8, <1>9, <1>10 DEF S

\* So the format of a word says which handlers executeInstruction may pick.
LEMMA HandlerOfFormat ==
  ASSUME NEW major \in 0 .. 255, NEW minor \in 0 .. 15
  PROVE  LET h == Handler(major, minor)
         IN h \notin {Illegal, "null"} =>
              \/ isCTRLFormat(major) /\ h \in CtrlHandlers
              \/ isCOBRFormat(major) /\ h \in CobrHandlers
              \/ isMEMFormat(major) /\ h \in MemHandlers
              \/ isREGFormat(major) /\ h \in RegHandlers
<1> DEFINE h == Handler(major, minor)
<1> SUFFICES ASSUME h \notin {Illegal, "null"}
             PROVE  \/ isCTRLFormat(major) /\ h \in CtrlHandlers
                    \/ isCOBRFormat(major) /\ h \in CobrHandlers
                    \/ isMEMFormat(major) /\ h \in MemHandlers
                    \/ isREGFormat(major) /\ h \in RegHandlers
  OBVIOUS
<1>1. CASE isCTRLFormat(major)
  <2>1. h = Entry(ctrlFormatInstructions, major)
    BY <1>1 DEF Handler, isCTRLFormat, isCOBRFormat, isMEMFormat, isREGFormat
  <2> QED
    BY <1>1, <2>1, CtrlTable, EntryOf
<1>2. CASE isCOBRFormat(major)
  <2>1. h = Entry(cobrFormatInstructions, major - 32) /\ major - 32 \in Nat
    BY <1>2 DEF Handler, isCTRLFormat, isCOBRFormat, isMEMFormat, isREGFormat
  <2> QED
    BY <1>2, <2>1, CobrTable, EntryOf
<1>3. CASE isMEMFormat(major)
  <2>1. h = Entry(memFormatInstructions, major - 128) /\ major - 128 \in Nat
    BY <1>3 DEF Handler, isCTRLFormat, isCOBRFormat, isMEMFormat, isREGFormat
  <2> QED
    BY <1>3, <2>1, MemTable, EntryOf
<1>4. CASE isREGFormat(major)
  <2>1. h = Entry(REGLookupTable[major - 88 + 1], minor) /\ major - 88 + 1 \in 1 .. 40
    BY <1>4 DEF Handler, isCTRLFormat, isCOBRFormat, isMEMFormat, isREGFormat
  <2>2. REGLookupTable[major - 88 + 1] \in Seq(RegHandlers)
    BY <2>1, RegLookup, ElementOfTable
  <2> QED
    BY <1>4, <2>1, <2>2, EntryOf
<1>5. CASE ~(isCTRLFormat(major) \/ isCOBRFormat(major) \/ isMEMFormat(major)
              \/ isREGFormat(major))
  BY <1>5 DEF Handler
<1> QED
  BY <1>1, <1>2, <1>3, <1>4, <1>5

-------------------------------------------------------------------------------
(* What a handler asks for.                                                  *)

Requested == [field : {"src1", "src1 reg", "src2", "src", "dest"},
              as : {"value", "register"}]

\* The words at which a handler may stop.
Excepted(w, h) ==
  \/ h \in {"scanbyte", "bswap"} /\ (w.m1 = 1 \/ w.m2 = 1)
  \/ h \in {"modac", "modtc"} /\ w.m1 = 1

\* An operand is there, and is no reason to stop but at such a word.
Met(w, h, r) ==
  /\ Field(w, r.field) # "Bad"
  /\ Faults(r, Field(w, r.field)) => Excepted(w, h)

\* What the fields of a word decode to, format by format.
LEMMA FieldsOfReg ==
  ASSUME NEW w \in Words, isREGFormat(w.major)
  PROVE  /\ Field(w, "src1") = RegisterIndex(w.m1)
         /\ Field(w, "src2") = RegisterIndex(w.m2)
         /\ Field(w, "src") = RegisterIndex(w.m3)
         /\ Field(w, "dest") = "register"
<1>1. w.major \in 0 .. 255
  BY DEF Words
<1> QED
  BY <1>1 DEF Field, getSrc1, getSrc2, getSrcDest, RegisterIndex,
              isREGFormat, isCOBRFormat, isMEMFormat

LEMMA FieldsOfCobr ==
  ASSUME NEW w \in Words, isCOBRFormat(w.major)
  PROVE  /\ Field(w, "src1") = RegisterIndex(w.m1)
         /\ Field(w, "src1 reg") = "register"
         /\ Field(w, "src2") = "register"
<1>1. w.major \in 0 .. 255
  BY DEF Words
<1> QED
  BY <1>1 DEF Field, getSrc1, getSrc2, RegisterIndex, isREGFormat, isCOBRFormat

LEMMA FieldsOfMem ==
  ASSUME NEW w \in Words, isMEMFormat(w.major)
  PROVE  Field(w, "src") = "register" /\ Field(w, "dest") = "register"
<1>1. w.major \in 0 .. 255
  BY DEF Words
<1> QED
  BY <1>1 DEF Field, getSrcDest, RegisterIndex, isREGFormat, isMEMFormat

LEMMA NeverBad == ASSUME NEW m PROVE RegisterIndex(m) \in {"register", "literal"}
BY DEF RegisterIndex

\* A value is met by whatever is there.
LEMMA ValueMet ==
  ASSUME NEW w, NEW h, NEW f, Field(w, f) \in {"register", "literal"}
  PROVE  Met(w, h, Value(f))
BY DEF Met, Value, Faults

LEMMA RegisterMet ==
  ASSUME NEW w, NEW h, NEW f, Field(w, f) = "register"
  PROVE  Met(w, h, Register(f))
BY DEF Met, Register, Faults

\* A source that is taken for a register is one unless its mode bit is set.
LEMMA SourceMet ==
  ASSUME NEW w \in Words, NEW h, NEW f, NEW m \in 0 .. 1, Field(w, f) = RegisterIndex(m),
         m = 1 => Excepted(w, h)
  PROVE  Met(w, h, Register(f))
BY DEF Met, Register, Faults, RegisterIndex

LEMMA RequestIsRequested ==
  ASSUME NEW f \in {"src1", "src1 reg", "src2", "src", "dest"}
  PROVE  Value(f) \in Requested /\ Register(f) \in Requested
BY DEF Value, Register, Requested

AllMet(w, h, rs) == rs \in Seq(Requested) /\ \A i \in DOMAIN rs : Met(w, h, rs[i])

LEMMA NoneMet == ASSUME NEW w, NEW h PROVE AllMet(w, h, <<>>)
BY DEF AllMet

LEMMA OneMet ==
  ASSUME NEW w, NEW h, NEW a \in Requested, Met(w, h, a)
  PROVE  AllMet(w, h, <<a>>)
BY DEF AllMet

LEMMA TwoMet ==
  ASSUME NEW w, NEW h, NEW a \in Requested, NEW b \in Requested, Met(w, h, a), Met(w, h, b)
  PROVE  AllMet(w, h, <<a, b>>)
BY DEF AllMet

LEMMA ThreeMet ==
  ASSUME NEW w, NEW h, NEW a \in Requested, NEW b \in Requested, NEW c \in Requested,
         Met(w, h, a), Met(w, h, b), Met(w, h, c)
  PROVE  AllMet(w, h, <<a, b, c>>)
BY DEF AllMet

\* The requests of each group of handlers, in words of its format.
LEMMA CtrlMet ==
  ASSUME NEW w \in Words, NEW h \in CtrlHandlers, h # Illegal
  PROVE  AllMet(w, h, Requests(h))
<1>1. Requests(h) = <<>>
  BY DEF CtrlHandlers, Requests, NoOperands, Compares, Loads, Stores, Moves
<1> QED
  BY <1>1, NoneMet

LEMMA CobrMet ==
  ASSUME NEW w \in Words, isCOBRFormat(w.major), NEW h \in CobrHandlers, h # Illegal
  PROVE  AllMet(w, h, Requests(h))
<1>1. CASE h = "testOp"
  <2>1. Requests(h) = <<Register("src1 reg")>>
    BY <1>1 DEF Requests, NoOperands, Compares, Loads, Stores, Moves
  <2> QED
    BY <2>1, FieldsOfCobr, RegisterMet, RequestIsRequested, OneMet
<1>2. CASE h # "testOp"
  <2>1. Requests(h) = <<Value("src1"), Value("src2")>>
    BY <1>2 DEF CobrHandlers, Requests, NoOperands, Compares, Loads, Stores, Moves
  <2>2. Field(w, "src1") \in {"register", "literal"} /\ Field(w, "src2") \in {"register", "literal"}
    BY FieldsOfCobr, NeverBad
  <2>3. Met(w, h, Value("src1")) /\ Met(w, h, Value("src2"))
    BY <2>2, ValueMet
  <2>4. Value("src1") \in Requested /\ Value("src2") \in Requested
    BY RequestIsRequested
  <2> QED
    BY <2>1, <2>3, <2>4, TwoMet
<1> QED
  BY <1>1, <1>2

LEMMA MemMet ==
  ASSUME NEW w \in Words, isMEMFormat(w.major), NEW h \in MemHandlers, h # Illegal
  PROVE  AllMet(w, h, Requests(h))
<1>1. CASE h \in {"bx", "callx"}
  <2>1. Requests(h) = <<>>
    BY <1>1 DEF Requests, NoOperands, Compares, Loads, Stores, Moves
  <2> QED
    BY <2>1, NoneMet
<1>2. CASE h \in Loads
  <2>1. Requests(h) = <<Register("dest")>>
    BY <1>2 DEF Requests, NoOperands, Compares, Loads, Stores, Moves
  <2> QED
    BY <2>1, FieldsOfMem, RegisterMet, RequestIsRequested, OneMet
<1>3. CASE h \in Stores
  <2>1. Requests(h) = <<Value("src")>>
    BY <1>3 DEF Requests, NoOperands, Compares, Loads, Stores, Moves
  <2>2. Field(w, "src") \in {"register", "literal"}
    BY FieldsOfMem
  <2>3. Met(w, h, Value("src"))
    BY <2>2, ValueMet
  <2>4. Value("src") \in Requested
    BY RequestIsRequested
  <2> QED
    BY <2>1, <2>3, <2>4, OneMet
<1>4. CASE h \in {"stt", "stq"}
  <2>1. Requests(h) = <<Register("src")>>
    BY <1>4 DEF Requests, NoOperands, Compares, Loads, Stores, Moves
  <2> QED
    BY <2>1, FieldsOfMem, RegisterMet, RequestIsRequested, OneMet
<1> QED
  BY <1>1, <1>2, <1>3, <1>4 DEF MemHandlers

LEMMA RegMet ==
  ASSUME NEW w \in Words, isREGFormat(w.major), NEW h \in RegHandlers, h # Illegal
  PROVE  AllMet(w, h, Requests(h))
<1>1. /\ w.m1 \in 0 .. 1 /\ w.m2 \in 0 .. 1
      /\ Field(w, "src1") = RegisterIndex(w.m1) /\ Field(w, "src2") = RegisterIndex(w.m2)
  BY FieldsOfReg DEF Words
<1>2. /\ Met(w, h, Value("src1")) /\ Met(w, h, Value("src2")) /\ Met(w, h, Value("src"))
      /\ Met(w, h, Register("dest"))
  <2>1. /\ Field(w, "src1") \in {"register", "literal"}
        /\ Field(w, "src2") \in {"register", "literal"}
        /\ Field(w, "src") \in {"register", "literal"}
    BY FieldsOfReg, NeverBad
  <2> QED
    BY <2>1, FieldsOfReg, ValueMet, RegisterMet
<1>3. /\ Value("src1") \in Requested /\ Value("src2") \in Requested
      /\ Value("src") \in Requested /\ Register("dest") \in Requested
      /\ Register("src1") \in Requested /\ Register("src2") \in Requested
  BY RequestIsRequested
<1>4. CASE h \in NoOperands
  <2>1. Requests(h) = <<>>
    BY <1>4 DEF Requests, NoOperands, Compares, Loads, Stores, Moves
  <2> QED
    BY <2>1, NoneMet
<1>5. CASE h \in Compares
  <2>1. Requests(h) = <<Value("src1"), Value("src2")>>
    BY <1>5 DEF Requests, NoOperands, Compares, Loads, Stores, Moves
  <2> QED
    BY <1>2, <1>3, <2>1, TwoMet
<1>6. CASE h = "calls"
  <2>1. Requests(h) = <<Value("src1")>>
    BY <1>6 DEF Requests, NoOperands, Compares, Loads, Stores, Moves
  <2> QED
    BY <1>2, <1>3, <2>1, OneMet
<1>7. CASE h \in Moves
  <2>1. Requests(h) = <<Value("src1"), Register("dest")>>
    BY <1>7 DEF Requests, NoOperands, Compares, Loads, Stores, Moves
  <2> QED
    BY <1>2, <1>3, <2>1, TwoMet
<1>8. CASE h \in {"scanbyte", "bswap"}
  <2>1. Met(w, h, Register("src1")) /\ Met(w, h, Register("src2"))
    <3>1. w.m1 = 1 \/ w.m2 = 1 => Excepted(w, h)
      BY <1>8 DEF Excepted
    <3> QED
      BY <1>1, <3>1, SourceMet
  <2>2. \/ Requests(h) = <<Register("src1"), Register("src2")>>
        \/ Requests(h) = <<Register("src2"), Register("src1")>>
    BY <1>8 DEF Requests, NoOperands, Compares, Loads, Stores, Moves
  <2> QED
    BY <1>3, <2>1, <2>2, TwoMet
<1>9. CASE h \in {"modac", "modtc"}
  <2>1. Met(w, h, Register("src1"))
    <3>1. w.m1 = 1 => Excepted(w, h)
      BY <1>9 DEF Excepted
    <3> QED
      BY <1>1, <3>1, SourceMet
  <2>2. Requests(h) = <<Register("src1"), Value("src"), Value("src2")>>
    BY <1>9 DEF Requests, NoOperands, Compares, Loads, Stores, Moves
  <2> QED
    BY <1>2, <1>3, <2>1, <2>2, ThreeMet
<1>10. CASE h \notin NoOperands \union Compares \union Moves
                       \union {"calls", "scanbyte", "bswap", "modac", "modtc"}
  <2>1. h \notin Loads \union Stores \union {"testOp", "stt", "stq"}
    <3>1. ASSUME h \in Loads PROVE FALSE
      BY <3>1 DEF Loads, RegHandlers, Illegal
    <3>2. ASSUME h \in Stores PROVE FALSE
      BY <3>2 DEF Stores, RegHandlers, Illegal
    <3>3. h # "testOp" /\ h # "stt" /\ h # "stq"
      BY DEF RegHandlers, Illegal
    <3> QED
      BY <3>1, <3>2, <3>3
  <2>2. Requests(h) = <<Value("src1"), Value("src2"), Register("dest")>>
    BY <1>10, <2>1 DEF Requests, NoOperands, Compares, Loads, Stores, Moves
  <2> QED
    BY <1>2, <1>3, <2>2, ThreeMet
<1> QED
  BY <1>4, <1>5, <1>6, <1>7, <1>8, <1>9, <1>10

\* Whatever executeInstruction calls, its operands are met.
LEMMA CalledMet ==
  ASSUME NEW w \in Words, Handler(w.major, w.minor) \notin {Illegal, "null"}
  PROVE  AllMet(w, Handler(w.major, w.minor), Requests(Handler(w.major, w.minor)))
<1> DEFINE h == Handler(w.major, w.minor)
<1>1. w.major \in 0 .. 255 /\ w.minor \in 0 .. 15
  BY DEF Words
<1>2. \/ isCTRLFormat(w.major) /\ h \in CtrlHandlers
      \/ isCOBRFormat(w.major) /\ h \in CobrHandlers
      \/ isMEMFormat(w.major) /\ h \in MemHandlers
      \/ isREGFormat(w.major) /\ h \in RegHandlers
  BY <1>1, HandlerOfFormat
<1>3. h # Illegal
  OBVIOUS
<1> HIDE DEF h
<1>4. AllMet(w, h, Requests(h))
  BY <1>2, <1>3, CtrlMet, CobrMet, MemMet, RegMet
<1> QED
  BY <1>4 DEF h

-------------------------------------------------------------------------------
(* The inductive invariant: what the handler has yet to look at is met.      *)

IInv ==
  /\ word \in Words
  /\ outcome = "running" => AllMet(word, handler, requests)
  /\ outcome = "halted" /\ handler # Illegal => Excepted(word, handler)

LEMMA InitIInv == Init => IInv
BY DEF Init, IInv, Words, isREGFormat, isCOBRFormat

LEMMA NextIInv == IInv /\ [Next]_vars => IInv'
<1> SUFFICES ASSUME IInv, [Next]_vars PROVE IInv'
  OBVIOUS
<1>1. ASSUME NEW w \in Words, executeInstruction(w) PROVE IInv'
  <2>1. word' = w /\ handler' = Handler(w.major, w.minor)
    BY <1>1 DEF executeInstruction
  <2>2. CASE handler' \in {Illegal, "null"}
    <3>1. outcome' # "running" /\ (outcome' = "halted" => handler' = Illegal)
      BY <1>1, <2>2 DEF executeInstruction
    <3> QED
      BY <2>1, <3>1 DEF IInv
  <2>3. CASE handler' \notin {Illegal, "null"}
    <3>1. outcome' = "running" /\ requests' = Requests(handler')
      BY <1>1, <2>3 DEF executeInstruction
    <3>2. AllMet(word', handler', requests')
      BY <2>1, <2>3, <3>1, CalledMet
    <3> QED
      BY <2>1, <3>1, <3>2 DEF IInv, AllMet, Excepted
  <2> QED
    BY <2>2, <2>3
<1>2. CASE LookAtOperand
  <2>1. /\ outcome = "running" /\ requests # <<>> /\ requests' = Tail(requests)
        /\ UNCHANGED <<word, handler>>
        /\ outcome' = IF Faults(Head(requests), Field(word, Head(requests).field))
                      THEN "halted" ELSE "running"
    BY <1>2 DEF LookAtOperand
  <2>2. requests \in Seq(Requested) /\ \A i \in DOMAIN requests : Met(word, handler, requests[i])
    BY <2>1 DEF IInv, AllMet
  <2>3. Met(word, handler, Head(requests))
    BY <2>1, <2>2
  <2>4. AllMet(word, handler, Tail(requests))
    BY <2>1, <2>2 DEF AllMet
  <2>5. outcome' = "halted" => Excepted(word, handler)
    BY <2>1, <2>3 DEF Met
  <2>6. AllMet(word', handler', requests')
    BY <2>1, <2>4
  <2>7. outcome' = "halted" => Excepted(word', handler')
    BY <2>1, <2>5
  <2> QED
    BY <2>1, <2>6, <2>7 DEF IInv
<1>3. CASE Retire
  BY <1>3 DEF Retire, IInv
<1>4. CASE UNCHANGED vars
  <2>1. word' = word /\ handler' = handler /\ requests' = requests /\ outcome' = outcome
    BY <1>4 DEF vars
  <2> QED
    BY <2>1 DEF IInv
<1> QED
  BY <1>1, <1>2, <1>3, <1>4 DEF Next

\* No handler is reached in a format that lacks one of its operands.
THEOREM OperandsFound == Spec => []OperandsExist
<1>1. IInv => OperandsExist
  <2> SUFFICES ASSUME IInv, outcome = "running", requests # <<>>
               PROVE  Field(word, Head(requests).field) # "Bad"
    BY DEF OperandsExist
  <2>1. requests \in Seq(Requested) /\ \A i \in DOMAIN requests : Met(word, handler, requests[i])
    BY DEF IInv, AllMet
  <2>2. Met(word, handler, Head(requests))
    BY <2>1
  <2> QED
    BY <2>2 DEF Met
<1> QED
  BY <1>1, InitIInv, NextIInv, PTL DEF Spec

\* Only scanbyte, bswap, modac and modtc are stopped by an operand, and only by
\* a literal for one of their sources.
THEOREM OthersRunToTheirEnd == Spec => []OnlyRegisterSourcesFault
<1>1. IInv => OnlyRegisterSourcesFault
  BY DEF IInv, OnlyRegisterSourcesFault, Excepted
<1> QED
  BY <1>1, InitIInv, NextIInv, PTL DEF Spec
===============================================================================
