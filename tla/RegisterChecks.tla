------------------------------ MODULE RegisterChecks ------------------------------
(***************************************************************************)
(* register-csr-agent: a register map is normalized from its rows, checked *)
(* for addresses, bit ranges, reset values and access, grounded on the     *)
(* symbols of the RTL, and turned into candidate assertions, directed      *)
(* tests, a coverage matrix and a checklist.                               *)
(*                                                                         *)
(* A value is the set of its bits that are 1, so a mask is the set of the  *)
(* bits it selects.                                                        *)
(***************************************************************************)
EXTENDS OnePass, Integers, FiniteSetsExt, SequencesExt

CONSTANTS
    RegisterInputs,     \* [format, rows, registers, unit, rtl] to build a package from
    Normalized,         \* what a name is without its case and punctuation
    OccursIn            \* <<field, register, name>>: the name of a test of the register has the
                        \* field in it

AccessTypes == {"RO", "RW", "WO", "W1C", "W1S", "RC", "RESERVED"}

\* What a source can say: an access or another word or none, addresses and offsets from 0,
\* widths and the unit from 1.
AccessWords == AccessTypes \cup {"other", "none"}
FieldForms == [name : STRING, offset : Nat, width : Nat \ {0}, access : AccessWords,
               reset : SUBSET Nat, interrupt : BOOLEAN, effect : BOOLEAN, privileged : BOOLEAN]
RegisterForms == [name : STRING, address : Nat, width : Nat \ {0}, access : AccessWords,
                  reset : SUBSET Nat, fields : Seq(FieldForms)]
RowForms == [register : STRING, field : SUBSET FieldForms, address : Nat, width : Nat \ {0},
             access : AccessWords, reset : SUBSET Nat]
SymbolForms == [name : STRING, kind : {"register", "field", "signal"}, width : SUBSET Nat,
                reset : SUBSET (SUBSET Nat), access : SUBSET AccessTypes]
ASSUME RegisterAssumption ==
    \A x \in RegisterInputs :
        /\ x.rows \in Seq(RowForms) /\ x.registers \in Seq(RegisterForms)
        /\ x.unit \in Nat \ {0} /\ x.rtl \in Seq(SymbolForms)

BitsOf(f) == f.offset .. (f.offset + f.width - 1)

ByteSize(r) == (r.width + 7) \div 8

\* The rows that name a register for the first time.
FirstRows(rows) ==
    Picked(rows, {i \in DOMAIN rows : \A j \in 1 .. (i - 1) : rows[j].register # rows[i].register})

\* Rows are grouped by their register: the first defines its address, width and reset, the
\* last one without a field that has an access gives the access.
RegisterOfRows(rows, name) ==
    LET own == Picked(rows, {i \in DOMAIN rows : rows[i].register = name})
        scoped == {i \in DOMAIN own : own[i].field = {} /\ own[i].access # "none"}
        declaring == Picked(own, {i \in DOMAIN own : own[i].field # {}})
    IN  [name |-> name, address |-> own[1].address, width |-> own[1].width,
         reset |-> own[1].reset,
         access |-> IF scoped = {} THEN "RW" ELSE own[Max(scoped)].access,
         fields |-> [k \in DOMAIN declaring |-> CHOOSE f \in declaring[k].field : TRUE]]

\* The addresses of a table count bytes.
Unit(x) == IF x.format = "csv" THEN 1 ELSE x.unit

RegistersOf(x) ==
    IF x.format = "csv"
      THEN LET first == FirstRows(x.rows)
           IN  [i \in DOMAIN first |-> RegisterOfRows(x.rows, first[i].register)]
      ELSE x.registers

\* Access is one of the closed set, and a reset value fits its field, or nothing is built.
Loads(registers) ==
    \A i \in DOMAIN registers :
        /\ registers[i].access \in AccessTypes
        /\ \A f \in Range(registers[i].fields) :
              f.access \in AccessTypes /\ f.reset \subseteq 0 .. (f.width - 1)

------------------------------------------------------------------------------
(* Checks *)

Discrepancy(code, register, field) == [code |-> code, register |-> register, field |-> field]

\* Stable on equal addresses.
ByAddress(registers) ==
    InOrder(registers, LAMBDA i, j : \/ registers[i].address < registers[j].address
                                     \/ registers[i].address = registers[j].address /\ i < j)

FirstByte(r, unit) == r.address * unit

LastByte(r, unit) == r.address * unit + ByteSize(r) - 1

\* Mutation: the next register may start on the last byte.
OverlapsNextStrict(a, b, unit) ==
    a.address # b.address /\ FirstByte(b, unit) < LastByte(a, unit)

OverlapsNext(a, b, unit) ==
    a.address # b.address /\ FirstByte(b, unit) <= LastByte(a, unit)

CheckAddresses(registers, unit) ==
    LET sorted == ByAddress(registers)
        same(i) == {j \in DOMAIN registers : registers[j].address = registers[i].address}
    IN  {Discrepancy("ADDR_MISALIGN", {r.name}, {}) :
            r \in {r \in Range(registers) : FirstByte(r, unit) % ByteSize(r) # 0}}
        \cup {Discrepancy("ADDR_DUP", {registers[j].name : j \in same(i)}, {}) :
            i \in {i \in DOMAIN registers : Cardinality(same(i)) > 1}}
        \cup {Discrepancy("ADDR_OVERLAP", {sorted[i].name, sorted[i + 1].name}, {}) :
            i \in {i \in 1 .. (Len(sorted) - 1) : OverlapsNext(sorted[i], sorted[i + 1], unit)}}

\* The bits of the fields before the i-th.
Occupied(r, i) == UNION {BitsOf(r.fields[j]) : j \in 1 .. (i - 1)}

Declared(r) == Occupied(r, Len(r.fields) + 1)

CheckBitRanges(r) ==
    {Discrepancy("FIELD_OOB", {r.name}, {f.name}) :
        f \in {f \in Range(r.fields) : f.offset + f.width - 1 >= r.width}}
    \cup {Discrepancy("FIELD_OVERLAP", {r.name}, {r.fields[i].name}) :
        i \in {i \in DOMAIN r.fields : Occupied(r, i) \cap BitsOf(r.fields[i]) # {}}}
    \cup IF r.fields # <<>> /\ (0 .. (r.width - 1)) \ Declared(r) # {}
           THEN {Discrepancy("FIELD_GAP", {r.name}, {})} ELSE {}

\* What the fields reset to, in place.
Composed(r) == UNION {{f.offset + b : b \in f.reset} : f \in Range(r.fields)}

CheckResets(r) ==
    (IF r.reset \subseteq 0 .. (r.width - 1) THEN {} ELSE {Discrepancy("RESET_OOB", {r.name}, {})})
    \cup IF r.fields # <<>> /\ Composed(r) # r.reset \cap Declared(r)
           THEN {Discrepancy("RESET_FIELD_SUM", {r.name}, {})} ELSE {}

CheckAccess(r) ==
    LET writable == {f \in Range(r.fields) : f.access \in {"RW", "WO", "W1C", "W1S"}}
    IN  {Discrepancy("ACCESS_RESERVED_RESET", {r.name}, {f.name}) :
            f \in {f \in Range(r.fields) : f.access = "RESERVED" /\ f.reset # {}}}
        \cup (IF r.fields = <<>> /\ r.access = "RESERVED" /\ r.reset # {}
                THEN {Discrepancy("ACCESS_RESERVED_RESET", {r.name}, {})} ELSE {})
        \cup IF r.access = "RO" /\ writable # {}
               THEN {Discrepancy("ACCESS_CONFLICT", {r.name}, {})} ELSE {}

\* Status that software can write at will, declared side effects, restricted fields.
CheckAnnotations(r) ==
    UNION {(IF f.interrupt /\ f.access \notin {"W1C", "RC", "RO", "W1S"}
              THEN {Discrepancy("IRQ_STATUS_ACCESS", {r.name}, {f.name})} ELSE {})
           \cup (IF f.effect THEN {Discrepancy("SIDE_EFFECT_UNREVIEWED", {r.name}, {f.name})} ELSE {})
           \cup IF f.privileged THEN {Discrepancy("PRIV_ACCESS_DECLARED", {r.name}, {f.name})} ELSE {} :
              f \in Range(r.fields)}

\* A register is the symbol of its name, or else the first whose name normalizes to the
\* same.
Grounded(rtl, name) ==
    LET same == {i \in DOMAIN rtl : rtl[i].name = name}
        close == {i \in DOMAIN rtl : Normalized[rtl[i].name] = Normalized[name]}
    IN  IF same # {} THEN {name} ELSE IF close # {} THEN {rtl[Min(close)].name} ELSE {}

\* A name that is given twice is the last one's.
LastNamed(s, name) == s[Max({i \in DOMAIN s : s[i].name = name})]

\* The registers of the RTL that no register of the map is grounded on.
UnmatchedRtl(registers, rtl) ==
    {s.name : s \in {s \in Range(rtl) : s.kind = "register"}}
        \ UNION {Grounded(rtl, r.name) : r \in Range(registers)}

\* Sizes, reset values and access are sets of one value, or {} when the RTL does not say;
\* of the registers of one name, the last is compared.
CheckGrounding(registers, rtl) ==
    LET differs(r, code, said, value) ==
            IF said \in {{}, {value}} THEN {} ELSE {Discrepancy(code, {r.name}, {})}
        against(r, s) == differs(r, "RTL_WIDTH_MISMATCH", s.width, r.width)
                         \cup differs(r, "RTL_RESET_MISMATCH", s.reset, r.reset)
                         \cup differs(r, "RTL_ACCESS_MISMATCH", s.access, r.access)
    IN  IF rtl = <<>> THEN {}
        ELSE UNION {IF Grounded(rtl, n) = {} THEN {Discrepancy("RTL_UNMAPPED", {n}, {})}
                    ELSE UNION {against(LastNamed(registers, n), LastNamed(rtl, s)) :
                                   s \in Grounded(rtl, n)} :
                       n \in {r.name : r \in Range(registers)}}

RunAllChecks(registers, unit, rtl) ==
    CheckAddresses(registers, unit)
    \cup (UNION {CheckBitRanges(r) \cup CheckResets(r) \cup CheckAccess(r) \cup CheckAnnotations(r) :
                   r \in Range(registers)})
    \cup CheckGrounding(registers, rtl)

------------------------------------------------------------------------------
(* Assertions, tests, coverage, checklist *)

\* What the contract of an access has checked: WO has none.
CheckOf(access) ==
    CASE access = "RO" -> {"illegal_write"}
      [] access \in {"RW", "RESERVED"} -> {"readback"}
      [] access \in {"W1C", "W1S", "RC"} -> {"side_effects"}
      [] access = "WO" -> {}

\* Where the parts of a map are: a register and a field, or 0 for what it has without one.
Places(registers) ==
    UNION {{<<i, j>> : j \in {0} \cup DOMAIN registers[i].fields} : i \in DOMAIN registers}

FieldAt(registers, p) == registers[p[1]].fields[p[2]]

\* The assertions of a place.  A register without fields is asserted as one field of its own
\* name, its reset excepted.
SvaAt(registers, p) ==
    LET r == registers[p[1]]
        of(field, checks) ==
            {[at |-> p, register |-> r.name, field |-> field, check |-> c] : c \in checks}
    IN  IF p[2] # 0
          THEN LET f == FieldAt(registers, p)
               IN  of({f.name}, {"reset_value"} \cup CheckOf(f.access))
        ELSE IF r.fields = <<>> THEN of({}, {"reset_value"}) \cup of({r.name}, CheckOf(r.access))
        ELSE {}

GenerateSva(registers) == UNION {SvaAt(registers, p) : p \in Places(registers)}

\* A test of the reset value of each register, and one of each field that can be observed.
TestsAt(registers, p) ==
    LET of(name, checks) ==
            {[at |-> p, register |-> registers[p[1]].name, name |-> name, check |-> c] : c \in checks}
        f == FieldAt(registers, p)
    IN  IF p[2] = 0 THEN of("reset", {"reset_value"})
        ELSE IF f.access \in {"RW", "RO", "W1C", "RC"} THEN of(f.name, CheckOf(f.access))
        ELSE {}

GenerateTests(registers) == UNION {TestsAt(registers, p) : p \in Places(registers)}

\* A row is about all that bears its register's and its field's name; the tests of a field
\* are those whose name contains the field's.
CoverageRow(registers, register, field, access) ==
    LET assertions == {s \in GenerateSva(registers) : s.register = register /\ s.field = field}
        tests == {t \in GenerateTests(registers) :
                     t.register = register /\ \A f \in field : <<f, register, t.name>> \in OccursIn}
    IN  [register |-> register, field |-> field, access |-> access,
         checks |-> {s.check : s \in assertions},
         assertions |-> Cardinality(assertions), tests |-> Cardinality(tests)]

BuildCoverage(registers) ==
    UNION {IF r.fields = <<>> THEN {CoverageRow(registers, r.name, {}, r.access)}
           ELSE {CoverageRow(registers, r.name, {f.name}, f.access) : f \in Range(r.fields)} :
              r \in Range(registers)}

\* Three standing items, then one for each side effect and each interrupt.
BuildChecklist(registers) ==
    LET asked(f) == (IF f.effect THEN <<"effect">> ELSE <<>>)
                    \o (IF f.interrupt THEN <<"interrupt">> ELSE <<>>)
        items(r) == FlattenSeq([i \in DOMAIN r.fields |->
                        [k \in DOMAIN asked(r.fields[i]) |->
                            [about |-> asked(r.fields[i])[k], register |-> r.name,
                             field |-> r.fields[i].name]]])
        specific == FlattenSeq([i \in DOMAIN registers |-> items(registers[i])])
    IN  [n \in 4 .. (3 + Len(specific)) |-> specific[n - 3]]

Package(x) ==
    LET registers == RegistersOf(x)
    IN  IF ~Loads(registers) THEN [loaded |-> FALSE]
        ELSE [loaded |-> TRUE, registers |-> registers,
              discrepancies |-> RunAllChecks(registers, Unit(x), x.rtl),
              unmatched |-> UnmatchedRtl(registers, x.rtl),
              coverage |-> BuildCoverage(registers),
              checklist |-> BuildChecklist(registers)]

RegisterInit == \E x \in RegisterInputs : Called("register-csr", x)

BuildPackage == Computing("register-csr") /\ Reports(Package(input))

RegisterSpec == RegisterInit /\ [][BuildPackage]_passVars

------------------------------------------------------------------------------
(* Properties *)

Told(code, registers) ==
    \E d \in Report.discrepancies : d.code = code /\ registers \subseteq d.register

Bytes(r, unit) == FirstByte(r, unit) .. LastByte(r, unit)

\* Only neighbours in the order of addresses are compared, yet a map without an address
\* error has no byte in two registers; and an error is about registers that share one.
NoByteShared ==
    LET shares(r, q) == Bytes(r, Unit(input)) \cap Bytes(q, Unit(input)) # {}
        codes == {d.code : d \in Report.discrepancies}
    IN  /\ {"ADDR_DUP", "ADDR_OVERLAP"} \cap codes = {} =>
               \A i, j \in DOMAIN Report.registers :
                  i # j => ~shares(Report.registers[i], Report.registers[j])
        /\ \A d \in Report.discrepancies : d.code \in {"ADDR_DUP", "ADDR_OVERLAP"} =>
               \E i, j \in DOMAIN Report.registers :
                  /\ i # j /\ shares(Report.registers[i], Report.registers[j])
                  /\ {Report.registers[i].name, Report.registers[j].name} \subseteq d.register

\* With no error about its bits and its reset, a bit of a register belongs to one field at
\* most, and each field reads after reset what its register says: what the assertion of
\* the field and the test of the register expect can hold together.
ResetsAgree ==
    \A r \in Range(Report.registers) :
        (\A code \in {"FIELD_OOB", "FIELD_OVERLAP", "RESET_OOB", "RESET_FIELD_SUM"} :
            ~Told(code, {r.name})) =>
            /\ r.reset \subseteq 0 .. (r.width - 1)
            /\ \A i, j \in DOMAIN r.fields :
                  i # j => BitsOf(r.fields[i]) \cap BitsOf(r.fields[j]) = {}
            /\ \A f \in Range(r.fields) :
                  {f.offset + b : b \in f.reset} = r.reset \cap BitsOf(f)

\* Every register of the map that no later one has the name of is compared with its symbol
\* or said to be unmapped, and every register of the RTL is grounded or listed.
NothingUngrounded ==
    input.rtl # <<>> =>
        /\ \A i \in DOMAIN Report.registers :
              LET r == Report.registers[i] IN
              \/ \E j \in DOMAIN Report.registers : j > i /\ Report.registers[j].name = r.name
              \/ Told("RTL_UNMAPPED", {r.name})
              \/ \E s \in Range(input.rtl) :
                    /\ Normalized[s.name] = Normalized[r.name]
                    /\ s.width \in {{}, {r.width}} \/ Told("RTL_WIDTH_MISMATCH", {r.name})
                    /\ s.reset \in {{}, {r.reset}} \/ Told("RTL_RESET_MISMATCH", {r.name})
        /\ \A s \in Range(input.rtl) : s.kind = "register" =>
              \/ s.name \in Report.unmatched
              \/ \E r \in Range(Report.registers) : Normalized[r.name] = Normalized[s.name]

\* No two registers have one name, nor two fields of a register.
NamesGivenOnce(registers) ==
    /\ \A i, j \in DOMAIN registers : i # j => registers[i].name # registers[j].name
    /\ \A i \in DOMAIN registers : \A j, k \in DOMAIN registers[i].fields :
          j # k => registers[i].fields[j].name # registers[i].fields[k].name

\* The matrix, made by matching names, agrees with what was generated: where names are given
\* once, a field has both its assertions counted unless its access has no contract; none of
\* its tests is missed unless its name is not in lower case; and each interrupt that is
\* questioned and each side effect is on the checklist, under a number of its own.
MatrixHonest ==
    /\ \A row \in Report.coverage : \A f \in row.field :
          /\ NamesGivenOnce(Report.registers) =>
                row.assertions = IF row.access = "WO" THEN 1 ELSE 2
          /\ row.tests = 0 => \/ row.access \in {"WO", "W1S", "RESERVED"}
                              \/ <<f, row.register, f>> \notin OccursIn
    /\ \A d \in Report.discrepancies :
          d.code \in {"SIDE_EFFECT_UNREVIEWED", "IRQ_STATUS_ACCESS"} =>
              \E n \in DOMAIN Report.checklist :
                  {Report.checklist[n].register} = d.register /\ {Report.checklist[n].field} = d.field

RegistersSound ==
    Reported("register-csr") /\ Report.loaded =>
        NoByteShared /\ ResetsAgree /\ NothingUngrounded /\ MatrixHonest

=============================================================================
